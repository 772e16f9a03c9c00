------------------------------ MODULE Bootstrap ------------------------------
(***************************************************************************)
(* The first user processes (kernel/init/system_bootstrap.c): the services   *)
(* are launched in their start order and supervised, the failure policy is   *)
(* proved on ServiceHost, then SessionHost and Luma run over a channel pair. *)
(* Images are read from the volume into the kernel pool (pool.c,             *)
(* kernel/pe/zifs_image_source.c) and every buffer is given back on every    *)
(* path.  Other kernel code uses the pool at any time.  A user process ends  *)
(* as it likes and may leave a child behind.                                 *)
(***************************************************************************)
EXTENDS Pool, Services, Sequences

CONSTANTS
    Volumes,      \* what the volume may hold: manifest files, and a grant to everyone
    ArenaSize,
    ClientSizes,  \* what other kernel code allocates
    MaxClient,    \* bound on its pool calls
    Slots,        \* process table
    FileSize,     \* size of an image file, by its name
    FileLimit, TotalLimit,
    Libraries     \* k_core_library_requests

Luma == 7
Unknown == 99
Endpoints == {"session", "luma"}

VARIABLES
    files,          \* the manifest files
    public,         \* whether the images grant everyone READ and EXECUTE
    pc, st,         \* where the boot thread is, and the status it carries
    order, pos, session, verified,
    work,           \* the supervision under way
    cur,            \* the process it launched, and its exit code
    image,          \* the processes of the session, by endpoint
    pool, cache,
    held, objects, clients,   \* what other kernel code holds; its calls
    table,          \* process manager: slot -> process
    chan,           \* the channel pair on the stack of run_user_session
    ran             \* services that have run to a clean exit

boot == <<files, public, order, pos, session, verified>>
vars == <<boot, pc, st, work, cur, image, pool, cache, held, objects, clients, table, chan, ran>>

-----------------------------------------------------------------------------
(* zifs_image_source.c.  A set is [st, p, at, total].                       *)

Granted(token) == public \/ token.user # Unknown

\* A read that fails or is short gives its buffer back.
ReadSource(set, r, size, unread) ==
    IF r.st # "SUCCESS" THEN [set EXCEPT !.st = r.st, !.p = r.p]
    ELSE IF unread
    THEN LET f == zi_pool_free(r.p, r.at)
         IN  [set EXCEPT !.st = IF f.st = "SUCCESS" THEN "CORRUPT_FILESYSTEM" ELSE "MEMORY_CORRUPTION",
                         !.p = f.p]
    ELSE [set EXCEPT !.p = [r.p EXCEPT !.mem = Written(@, r.at, size, "image")],
                     !.at = Append(@, r.at), !.total = @ + size]

load_one_source(set, token, size, unread) ==
    IF ~Granted(token) THEN [set EXCEPT !.st = "ACCESS_DENIED"]
    ELSE IF size = 0 THEN [set EXCEPT !.st = "BAD_IMAGE_FORMAT"]
    ELSE IF size > FileLimit \/ size + set.total > TotalLimit
         THEN [set EXCEPT !.st = "BUFFER_TOO_SMALL"]
    ELSE ReadSource(set, zi_pool_allocate(set.p, size), size, unread)

RECURSIVE LoadFrom(_, _, _, _)
LoadFrom(set, token, requests, unread) ==
    IF requests = <<>> \/ set.st # "SUCCESS" THEN set
    ELSE LoadFrom(load_one_source(set, token, FileSize[Head(requests)], Head(requests) = unread),
                  token, Tail(requests), unread)

\* Last first; the first failure is the status.
RECURSIVE ReleaseFrom(_, _, _)
ReleaseFrom(p, at, result) ==
    IF at = <<>> THEN [st |-> result, p |-> p]
    ELSE LET f == zi_pool_free(p, at[Len(at)])
         IN  ReleaseFrom(f.p, SubSeq(at, 1, Len(at) - 1),
                         IF result = "SUCCESS" THEN f.st ELSE result)

zi_zifs_image_source_set_release(p, at) == ReleaseFrom(p, at, "SUCCESS")

\* A set that cannot be loaded whole is released.
Undone(set, r) ==
    [set EXCEPT !.st = IF r.st = "SUCCESS" THEN @ ELSE "MEMORY_CORRUPTION", !.p = r.p, !.at = <<>>]
WholeOrNothing(set) ==
    IF set.st = "SUCCESS" THEN set
    ELSE Undone(set, zi_zifs_image_source_set_release(set.p, set.at))

zi_zifs_image_source_set_load(p, token, requests, unread) ==
    IF requests = <<>> \/ ~Distinct(requests)
    THEN [st |-> "INVALID_ARGUMENT", p |-> p, at |-> <<>>, total |-> 0]
    ELSE WholeOrNothing(LoadFrom([st |-> "SUCCESS", p |-> p, at |-> <<>>, total |-> 0],
                                 token, requests, unread))

-----------------------------------------------------------------------------
(* Processes, as the bootstrap uses them (Process models the rest): a        *)
(* created process is [st, p, t, slot].                                      *)

Empty == [state |-> "NONE", parent |-> 0, handle |-> FALSE, user |-> Unknown]
Live(t) == {s \in DOMAIN t : t[s].state # "NONE"}
Made(status, p, t, slot) == [st |-> status, p |-> p, t |-> t, slot |-> slot]

\* The parameters pass through a staging buffer that is always freed.
Staged(p, t, slot, parent, user, prepared, input, r) ==
    IF r.st # "SUCCESS" THEN Made(r.st, r.p, t, 0)
    ELSE LET f == zi_pool_free(r.p, r.at)
             written == zi_process_parameters_serialise(input, zi_process_parameters_measure(input))
         IN  IF written # "SUCCESS" THEN Made(written, f.p, t, 0)
             ELSE IF f.st # "SUCCESS" THEN Made("MEMORY_CORRUPTION", f.p, t, 0)
             ELSE IF ~prepared THEN Made("NO_MEMORY", f.p, t, 0)
             ELSE Made("SUCCESS", f.p,
                       [t EXCEPT ![slot] = [state |-> "INITIALISED", parent |-> parent,
                                            handle |-> parent # 0, user |-> user]],
                       slot)

\* prepared: whether the image, the stacks and the object could be set up.
CreateProcess(p, t, parent, user, prepared, input) ==
    IF Live(t) = Slots THEN Made("BUFFER_TOO_SMALL", p, t, 0)
    ELSE Staged(p, t, CHOOSE s \in Slots \ Live(t) : \A o \in Slots \ Live(t) : s <= o,
                parent, user, prepared, input,
                zi_pool_allocate(p, zi_process_parameters_measure(input)))

\* The buffers of both sets are released when the process has its own copy.
BuffersReleased(c, r) ==
    [c EXCEPT !.st = IF @ = "SUCCESS" /\ r.st # "SUCCESS" THEN "MEMORY_CORRUPTION" ELSE @, !.p = r.p]
BothReleased(c, main, libraries) ==
    LET one == IF main = <<>> THEN c ELSE BuffersReleased(c, zi_zifs_image_source_set_release(c.p, main))
    IN  BuffersReleased(one, zi_zifs_image_source_set_release(one.p, libraries))

WithMain(main, t, parent, token, prepared, input, libraries) ==
    BothReleased(IF main.st # "SUCCESS" THEN Made(main.st, main.p, t, 0)
                 ELSE CreateProcess(main.p, t, parent, token.user, prepared, input),
                 main.at, libraries)

WithLibraries(libs, t, parent, path, token, unread, prepared, input) ==
    IF libs.st # "SUCCESS" THEN Made(libs.st, libs.p, t, 0)
    ELSE WithMain(zi_zifs_image_source_set_load(libs.p, token, <<path>>, unread),
                  t, parent, token, prepared, input, libs.at)

create_zifs_process(p, t, parent, path, token, unread, prepared, input) ==
    WithLibraries(zi_zifs_image_source_set_load(p, token, Libraries, unread),
                  t, parent, path, token, unread, prepared, input)

\* The parameters of an image: its path, once more as the first argument, and
\* the argument of the failure probe.
PathSize == 9
Input(probe) ==
    [image_path |-> PathSize, command_line |-> PathSize,
     arguments |-> IF probe THEN <<PathSize, 4>> ELSE <<PathSize>>, environment |-> <<6>>]

\* The images a create can meet as unreadable; 0 is none.
Unreadable(path) == {0, path} \cup {Libraries[i] : i \in DOMAIN Libraries}

-----------------------------------------------------------------------------
(* The channel pair.  An endpoint counts its references and handles; the     *)
(* two hold each other (Ipc models the messages and the threads).            *)

NoChannel == [made |-> FALSE, refs |-> 0, handles |-> 0, open |-> FALSE, destroyed |-> FALSE]
Peer(e) == IF e = "session" THEN "luma" ELSE "session"

Deref(ch, e) == [ch EXCEPT ![e].refs = @ - 1, ![e].destroyed = ch[e].refs = 1]

\* The peers let go of each other when the first of them is closed.
zi_ipc_channel_close(ch, e) ==
    IF ~ch[e].open THEN ch
    ELSE IF ~ch[Peer(e)].open THEN [ch EXCEPT ![e].open = FALSE]
    ELSE Deref(Deref([ch EXCEPT ![e].open = FALSE], Peer(e)), e)

\* A handle goes; the last one closes the endpoint first.
HandleClosed(ch, e) ==
    IF ch[e].handles = 0 THEN ch
    ELSE Deref([(IF ch[e].handles = 1 THEN zi_ipc_channel_close(ch, e) ELSE ch)
                 EXCEPT ![e].handles = @ - 1], e)

HandleOpened(ch, e) == [ch EXCEPT ![e].refs = @ + 1, ![e].handles = @ + 1]

\* The pair is made whole or not at all; then a handle in each process.
initialise_session_channels(ch, made, opened) ==
    IF ~made THEN ch
    ELSE LET pair == [e \in Endpoints |-> [made |-> TRUE, refs |-> 2, handles |-> 0,
                                           open |-> TRUE, destroyed |-> FALSE]]
         IN  IF opened = 0 THEN pair
             ELSE IF opened = 1 THEN HandleOpened(pair, "session")
             ELSE HandleOpened(HandleOpened(pair, "session"), "luma")

Remains(ch, e) == ch[e].made /\ ~ch[e].destroyed
CloseIfLeft(ch, e) == IF Remains(ch, e) THEN zi_ipc_channel_close(ch, e) ELSE ch
DerefIfLeft(ch, e) == IF Remains(ch, e) THEN Deref(ch, e) ELSE ch

-----------------------------------------------------------------------------
(* Processes run and are released.                                          *)

\* zi_user_process_release: the table of the process is closed, with its
\* handle on an endpoint and those on its children, which stay where they are.
Freed(t, slot) ==
    [s \in DOMAIN t |-> IF s = slot THEN Empty
                        ELSE IF t[s].parent = slot THEN [t[s] EXCEPT !.handle = FALSE] ELSE t[s]]

Finish(status) == pc' = "done" /\ st' = status

Client == <<held, objects, clients>>
Kept == <<Client, cache, boot, ran>>

-----------------------------------------------------------------------------
(* main.c: the manifests are read and their order resolved.                 *)

Manifests == [i \in DOMAIN files |-> files[i].manifest]

\* The order has to be the one the files are listed in.
AsListed(r) ==
    IF r.st = "SUCCESS" /\ \E i \in DOMAIN r.order : r.order[i] # i
    THEN [r EXCEPT !.st = "INVALID_STATE"] ELSE r

verify_service_manifests ==
    /\ pc = "manifests"
    /\ LET good == \A i \in DOMAIN files : zi_service_manifest_parse(files[i])
       IN  \E r \in {IF good THEN AsListed(zi_service_resolve_start_order(Manifests))
                     ELSE [st |-> "INVALID_SERVICE_MANIFEST", order |-> <<>>]} :
             IF r.st = "SUCCESS"
             THEN pc' = "services" /\ order' = r.order /\ UNCHANGED st
             ELSE Finish(r.st) /\ UNCHANGED order
    /\ UNCHANGED <<files, public, pos, session, verified, work, cur, image, pool, cache, Client, table, chan, ran>>

-----------------------------------------------------------------------------
(* supervise_core_services and zi_service_supervise                         *)

Idle == [kind |-> "none", m |-> 0, attempts |-> 0, restarts |-> 0, last |-> "", exit |-> 0]
Supervise(kind, i) == [Idle EXCEPT !.kind = kind, !.m = i]
NoProcess == [slot |-> 0, exit |-> 1]

\* The manifest under supervision; the probe of the failure policy restarts twice.
Supervised ==
    IF work.kind = "probe"
    THEN [Manifests[work.m] EXCEPT !.restart_policy = "OnFailure", !.maximum_restarts = 2]
    ELSE Manifests[work.m]

NextService ==
    /\ pc = "services"
    /\ IF pos > Len(order)
       THEN /\ IF ~verified \/ session = 0 THEN Finish("NOT_FOUND")
               ELSE pc' = "session" /\ UNCHANGED st
            /\ UNCHANGED <<pos, session, work>>
       ELSE IF Manifests[order[pos]].name = SessionHost
       THEN session' = order[pos] /\ pos' = pos + 1 /\ UNCHANGED <<pc, st, work>>
       ELSE work' = Supervise("service", order[pos]) /\ pc' = "launch" /\ UNCHANGED <<pos, session, st>>
    /\ UNCHANGED <<files, public, order, verified, cur, image, pool, cache, Client, table, chan, ran>>

\* service_launch up to the run; the created process, if any, is cur.
service_launch ==
    /\ pc = "launch"
    /\ \E tk \in {zi_service_bootstrap_token_create(Supervised)} :
         IF tk.st # "SUCCESS"
         THEN pc' = "judge" /\ st' = tk.st /\ cur' = NoProcess /\ UNCHANGED <<pool, table>>
         ELSE \E unread \in Unreadable(Supervised.executable), prepared \in BOOLEAN :
              \E c \in {create_zifs_process(pool, table, 0, Supervised.executable, tk.token,
                                            unread, prepared, Input(work.kind = "probe"))} :
                /\ pool' = c.p /\ table' = c.t /\ st' = c.st
                /\ cur' = [NoProcess EXCEPT !.slot = c.slot]
                /\ pc' = IF c.st = "SUCCESS" THEN "run" ELSE IF c.slot # 0 THEN "ran" ELSE "judge"
    /\ UNCHANGED <<Kept, work, image, chan>>

\* run_process enters user mode ...
RunProcess ==
    /\ pc = "run" /\ table[cur.slot].state = "INITIALISED"
    /\ table' = [table EXCEPT ![cur.slot].state = "RUNNING"]
    /\ pc' = "user"
    /\ UNCHANGED <<Kept, st, work, cur, image, pool, chan>>

\* ... and the process exits with a code, or is terminated for a fault.
ProcessEnds ==
    /\ pc = "user"
    /\ table' = [table EXCEPT ![cur.slot].state = "TERMINATED"]
    /\ \E e \in {0, 1}, s \in {"SUCCESS", "PROCESS_TERMINATED"} :
         /\ s = "PROCESS_TERMINATED" => e = 1
         /\ cur' = [cur EXCEPT !.exit = e] /\ st' = s
    /\ pc' = "ran"
    /\ UNCHANGED <<Kept, work, image, pool, chan>>

\* The running process creates a child through create_from_path ...
create_from_path ==
    /\ pc = "user" /\ \A s \in Slots : table[s].parent = 0   \* at most one child
    /\ \E unread \in {0, LogHost}, prepared \in BOOLEAN :
       \E c \in {create_zifs_process(pool, table, cur.slot, LogHost,
                                     Token(table[cur.slot].user, {BootstrapGroup}),
                                     unread, prepared, Input(FALSE))} :
         pool' = c.p /\ table' = c.t
    /\ UNCHANGED <<Kept, pc, st, work, cur, image, chan>>

\* ... and waits for it and closes its handle, which releases the child.
ChildIsReaped ==
    /\ pc = "user"
    /\ \E s \in Slots : table[s].handle /\ table' = Freed(table, s)
    /\ UNCHANGED <<Kept, pc, st, work, cur, image, pool, chan>>

\* A process of the session may close its bootstrap channel.
ChannelIsClosed ==
    /\ pc = "user" /\ work.kind \in Endpoints /\ chan[work.kind].handles # 0
    /\ chan' = HandleClosed(chan, work.kind)
    /\ UNCHANGED <<Kept, pc, st, work, cur, image, pool, table>>

\* The end of service_launch: the process is waited for and released.
ServiceEnds ==
    /\ pc = "ran" /\ work.kind \in {"service", "probe"}
    /\ table' = Freed(table, cur.slot)
    /\ cur' = [cur EXCEPT !.slot = 0]
    /\ pc' = "judge"
    /\ UNCHANGED <<Kept, st, work, image, pool, chan>>

\* What zi_service_supervise makes of the launch, and its caller of the answer.
Judge ==
    /\ pc = "judge"
    /\ LET verdict == Verdict(Supervised, work.restarts, st, cur.exit)
           tried   == [work EXCEPT !.attempts = @ + 1, !.last = st, !.exit = cur.exit]
           proved  == /\ verdict = "SERVICE_RESTART_LIMIT" /\ tried.attempts = 3
                      /\ tried.restarts = 2 /\ st = "SUCCESS" /\ cur.exit # 0
           clean   == verdict = "SUCCESS" /\ tried.attempts = 1 /\ tried.restarts = 0 /\ cur.exit = 0
           host    == Supervised.name = ServiceHost
       IN  /\ work' = IF verdict = "" THEN [tried EXCEPT !.restarts = @ + 1] ELSE tried
           /\ ran' = IF clean THEN ran \cup {Supervised.name} ELSE ran
           /\ IF verdict = "" THEN pc' = "launch" /\ UNCHANGED <<st, pos, verified>>
              ELSE IF work.kind = "probe" /\ proved
              THEN pc' = "services" /\ pos' = pos + 1 /\ verified' = TRUE /\ st' = "SUCCESS"
              ELSE IF work.kind = "service" /\ clean
              THEN /\ pc' = IF host THEN "policy" ELSE "services"
                   /\ pos' = IF host THEN pos ELSE pos + 1
                   /\ UNCHANGED <<st, verified>>
              ELSE /\ Finish(IF work.kind = "service" /\ verdict # "SUCCESS" THEN verdict
                             ELSE "INVALID_STATE")
                   /\ UNCHANGED <<pos, verified>>
    /\ UNCHANGED <<files, public, order, session, cur, image, pool, cache, Client, table, chan>>

\* An unknown user cannot load the image and the attempt, with result c, leaves
\* the pool as it was.
verify_image_launch_policy(c) ==
    IF c.st # "ACCESS_DENIED" \/ c.slot # 0 THEN "INVALID_STATE"
    ELSE IF c.p.active # pool.active \/ c.p.bytes # pool.bytes THEN "MEMORY_CORRUPTION"
    ELSE "SUCCESS"

\* An unknown name has no token, an unknown user no image.
PolicyStatus(c) ==
    IF zi_service_bootstrap_token_create([Supervised EXCEPT !.name = UnprovisionedHost]).st # "ACCESS_DENIED"
    THEN "INVALID_STATE" ELSE verify_image_launch_policy(c)

\* Both policies, then the probe.
verify_service_failure_policy ==
    /\ pc = "policy"
    /\ \E unread \in Unreadable(ServiceHost), prepared \in BOOLEAN :
       \E c \in {create_zifs_process(pool, table, 0, Supervised.executable, Token(Unknown, {}),
                                     unread, prepared, Input(FALSE))} :
         /\ pool' = c.p /\ table' = c.t
         /\ IF PolicyStatus(c) = "SUCCESS"
            THEN work' = Supervise("probe", work.m) /\ pc' = "launch" /\ UNCHANGED st
            ELSE Finish(PolicyStatus(c)) /\ UNCHANGED work
    /\ UNCHANGED <<Kept, cur, image, chan>>

-----------------------------------------------------------------------------
(* run_user_session and its clean-up                                        *)

\* SessionHost is created, then Luma.
CreateOf(e, path, token) ==
    \E unread \in Unreadable(path), prepared \in BOOLEAN :
    \E c \in {create_zifs_process(pool, table, 0, path, token, unread, prepared, Input(FALSE))} :
        /\ pool' = c.p /\ table' = c.t /\ st' = c.st
        /\ image' = [image EXCEPT ![e] = c.slot]
        /\ pc' = IF c.st # "SUCCESS" THEN "cleanup" ELSE IF e = "session" THEN "luma" ELSE "channels"

CreateSession ==
    /\ pc = "session"
    /\ \E tk \in {zi_service_bootstrap_token_create(Manifests[session])} :
         IF tk.st # "SUCCESS" THEN Finish(tk.st) /\ UNCHANGED <<pool, table, image>>
         ELSE CreateOf("session", SessionHost, tk.token)
    /\ UNCHANGED <<Kept, work, cur, chan>>

CreateLuma ==
    /\ pc = "luma"
    /\ CreateOf("luma", Luma, Token(21, {BootstrapGroup}))
    /\ UNCHANGED <<Kept, work, cur, chan>>

\* Either process object can refuse; both handles are the bootstrap channels.
ConnectSession ==
    /\ pc = "channels"
    /\ \E made \in BOOLEAN, opened \in 0 .. 2 :
         /\ ~made => opened = 0
         /\ chan' = initialise_session_channels(chan, made, opened)
         /\ IF opened = 2
            THEN /\ pc' = "run" /\ work' = Supervise("session", session) /\ UNCHANGED st
                 /\ cur' = [NoProcess EXCEPT !.slot = image["session"]]
            ELSE pc' = "cleanup" /\ st' = "NO_MEMORY" /\ UNCHANGED <<work, cur>>
    /\ UNCHANGED <<Kept, image, pool, table>>

\* A process of the session has ended: on success it is released and Luma runs.
SessionEnds ==
    /\ pc = "ran" /\ work.kind \in Endpoints
    /\ IF st = "SUCCESS" /\ cur.exit = 0
       THEN /\ table' = Freed(table, cur.slot) /\ chan' = HandleClosed(chan, work.kind)
            /\ image' = [image EXCEPT ![work.kind] = 0]
            /\ IF work.kind = "session"
               THEN /\ work' = Supervise("luma", session) /\ pc' = "run"
                    /\ cur' = [NoProcess EXCEPT !.slot = image["luma"]]
               ELSE pc' = "cleanup" /\ UNCHANGED <<work, cur>>
            /\ UNCHANGED st
       ELSE pc' = "cleanup" /\ st' = "PROCESS_TERMINATED" /\ UNCHANGED <<table, chan, image, work, cur>>
    /\ UNCHANGED <<Kept, pool>>

ReleaseImage(w, e) ==
    IF image[e] = 0 THEN w
    ELSE [t |-> Freed(w.t, image[e]), ch |-> HandleClosed(w.ch, e)]

\* Variant: the endpoints are closed but the reference of their maker is kept.
release_session_resources_keeping(w) ==
    CloseIfLeft(CloseIfLeft(w.ch, "luma"), "session")

\* Both processes, then both endpoints, then the references of their maker.
release_session_resources(w) ==
    DerefIfLeft(DerefIfLeft(CloseIfLeft(CloseIfLeft(w.ch, "luma"), "session"), "luma"), "session")

CleanUpSession ==
    /\ pc = "cleanup"
    /\ \E w \in {ReleaseImage(ReleaseImage([t |-> table, ch |-> chan], "luma"), "session")} :
         /\ table' = w.t /\ chan' = release_session_resources(w)
         /\ image' = [e \in Endpoints |-> 0]
         /\ Finish(IF st = "SUCCESS" /\ Live(w.t) # {} THEN "RESOURCE_LEAK" ELSE st)
    /\ UNCHANGED <<Kept, work, cur, pool>>

-----------------------------------------------------------------------------
(* Other kernel code uses the pool and the descriptor cache.                *)

Clients == clients < MaxClient /\ clients' = clients + 1
BootVars == <<boot, pc, st, work, cur, image, table, chan, ran>>

KernelAllocates ==
    /\ Clients
    /\ \E size \in ClientSizes : \E r \in {zi_pool_allocate(pool, size)} :
         /\ r.st = "SUCCESS"
         /\ pool' = [r.p EXCEPT !.mem = Written(@, r.at, size, "client")]
         /\ held' = held \cup {[at |-> r.at, size |-> size]}
    /\ UNCHANGED <<BootVars, cache, objects>>

KernelFrees ==
    /\ Clients
    /\ \E h \in held : \E r \in {zi_pool_free(pool, h.at)} :
         pool' = r.p /\ held' = held \ {h}
    /\ UNCHANGED <<BootVars, cache, objects>>

KernelTakesObject ==
    /\ Clients
    /\ \E r \in {zi_object_cache_allocate(pool, cache)} :
         /\ r.st = "SUCCESS"
         /\ pool' = [r.p EXCEPT !.mem = Written(@, r.at, cache.object_size, "client")]
         /\ cache' = r.c /\ objects' = objects \cup {r.at}
    /\ UNCHANGED <<BootVars, held>>

KernelReturnsObject ==
    /\ Clients
    /\ \E o \in objects : \E r \in {zi_object_cache_free(pool, cache, o)} :
         pool' = r.p /\ cache' = r.c /\ objects' = objects \ {o}
    /\ UNCHANGED <<BootVars, held>>

-----------------------------------------------------------------------------
Init ==
    /\ \E v \in Volumes : files = v.files /\ public = v.public
    /\ pc = "manifests" /\ st = "SUCCESS"
    /\ order = <<>> /\ pos = 1 /\ session = 0 /\ verified = FALSE
    /\ work = Idle /\ cur = NoProcess /\ image = [e \in Endpoints |-> 0]
    /\ \E r \in {zi_object_cache_initialise(zi_pool_initialise(ArenaSize), 24, 1)} :
         pool = r.p /\ cache = r.c
    /\ held = {} /\ objects = {} /\ clients = 0
    /\ table = [s \in Slots |-> Empty]
    /\ chan = [e \in Endpoints |-> NoChannel] /\ ran = {}

Boot ==
    \/ verify_service_manifests \/ NextService \/ service_launch \/ RunProcess \/ ProcessEnds
    \/ ServiceEnds \/ Judge \/ verify_service_failure_policy
    \/ CreateSession \/ CreateLuma \/ ConnectSession \/ SessionEnds \/ CleanUpSession

Next ==
    \/ Boot
    \/ create_from_path \/ ChildIsReaped \/ ChannelIsClosed
    \/ KernelAllocates \/ KernelFrees \/ KernelTakesObject \/ KernelReturnsObject

Spec == Init /\ [][Next]_vars

-----------------------------------------------------------------------------
(* Properties                                                               *)

\* The pool passes its own scan, and the cache its own, after any sequence of
\* calls by callers that stay inside what they were given: pool_scan never
\* reports a corruption that nobody caused.
PoolValidates == zi_object_cache_validate(pool, cache)

Allocated == {o \in Blocks(pool) : pool.mem[o].state = "ALLOCATED"}

\* Between two calls of the bootstrap the blocks in use are exactly those of
\* other kernel code and the slab of the cache, with their bytes as they were
\* written: no path of the image loader keeps a buffer, frees one twice or
\* writes into another's.  Free neighbours are always joined.
BuffersReturned ==
    /\ {[at |-> o + HEADER, size |-> pool.mem[o].requested_size] : o \in Allocated}
       = held \cup {[at |-> cache.storage, size |-> cache.capacity * cache.stride]}
    /\ \A h \in held : \A a \in {h.at, h.at + h.size - 1} :
          a \in DOMAIN pool.mem /\ pool.mem[a] = [kind |-> "data", by |-> "client"]
    /\ \A o \in Blocks(pool) \ Allocated :
          LET n == o + pool.mem[o].span IN n < pool.size => n \in Allocated

\* The pool is sound: it passes its scans, and what is allocated is what is held.
PoolSound == PoolValidates /\ BuffersReturned

\* When the bootstrap returns, no handle and no reference leads to the channels
\* on its stack, and the only processes left are children abandoned by their
\* parent or the one the access probe was wrongly given; a bootstrap that
\* reports success leaves none.
NothingOutlivesBootstrap ==
    pc = "done" =>
      /\ \A e \in Endpoints : ~Remains(chan, e) /\ chan[e].handles = 0 /\ chan[e].refs = 0
      /\ \A s \in Live(table) : table[s].parent # 0 \/ table[s].user = Unknown
      /\ st = "SUCCESS" => Live(table) = {}

DependsOn(i) == {Manifests[i].dependencies[d] : d \in DOMAIN Manifests[i].dependencies}

\* A set of services each of which waits for another of the set.
Circular(S) ==
    S # {} /\ \A i \in S : \E j \in S : Manifests[j].name \in DependsOn(i)

\* A service runs only when those it depends on have run to a clean exit
\* (SessionHost, which the bootstrap puts last whatever depends on it, apart);
\* the resolver reports a cycle when there is one and only then.
DependenciesFirst ==
    /\ pc = "user" /\ work.kind # "luma" => DependsOn(work.m) \ {SessionHost} \subseteq ran
    /\ pc # "manifests" =>
         (st = "SERVICE_DEPENDENCY_CYCLE" <=>
            /\ \A i \in DOMAIN files : zi_service_manifest_parse(files[i])
            /\ \A i \in DOMAIN files : DependsOn(i) \subseteq {Manifests[j].name : j \in DOMAIN files}
            /\ \E S \in SUBSET DOMAIN files : Circular(S))

\* A service is launched at most once more than its manifest allows restarts,
\* each launch follows one that failed or a policy that always restarts, and a
\* launch that ended the supervision is never followed by another.
SupervisionBounded ==
    work.kind \in {"service", "probe"} =>
      /\ work.attempts <= Supervised.maximum_restarts + 1
      /\ pc \in {"launch", "run", "user", "ran", "judge"} =>
           /\ work.restarts = work.attempts
           /\ work.attempts > 0 => Restarts(Supervised, work.last, work.exit)
      /\ Supervised.name \in ran /\ work.kind = "service" => work.attempts = 1

=============================================================================
