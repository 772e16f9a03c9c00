------------------------------ MODULE Services ------------------------------
(***************************************************************************)
(* Service manifests (kernel/executive/service/manifest.c), the identities   *)
(* services may have (identity.c) and the parameter block of a process       *)
(* (kernel/executive/process/parameters.c), as operators.                    *)
(* A name is its place in the order compare_views gives the names.  A        *)
(* manifest file is the sequence of its lines, each with its key and whether *)
(* the parser of that field takes its value, and the manifest they spell.    *)
(***************************************************************************)
EXTENDS Naturals, Sequences, FiniteSets

LogHost == 1
MountHost == 2
SecurityHost == 3
ServiceHost == 4
SessionHost == 5
UnprovisionedHost == 6

MAX_DEPENDENCIES == 16
MAX_RESTARTS == 8
MAX_MANIFESTS == 32

Required == {"FormatVersion", "Name", "Executable", "ServiceKind", "Identity", "StartMode",
             "StartOrder", "Dependencies", "RestartPolicy", "TokenPolicy", "MaximumRestarts"}
Fields == Required \cup {"Permissions", "Log", "Status"}

Distinct(s) == \A i, j \in DOMAIN s : s[i] = s[j] => i = j

-----------------------------------------------------------------------------
(* Manifests                                                                *)

\* The principals an identity text can name: SYSTEM, or a service by its name.
SystemId == 0

validate_manifest_dependencies(m) ==
    Distinct(m.dependencies) /\ \A i \in DOMAIN m.dependencies : m.dependencies[i] # m.name

zi_service_manifest_validate(m) ==
    /\ Len(m.dependencies) <= MAX_DEPENDENCIES /\ m.maximum_restarts <= MAX_RESTARTS
    /\ validate_manifest_dependencies(m)
    /\ (m.restart_policy = "Never") <=> (m.maximum_restarts = 0)
    /\ (m.token_policy = "System") <=> (m.identity = SystemId)

\* The parser of the field takes the value.
FieldParses(line) == line.good

\* One line that is neither empty nor a comment; seen are the fields before it.
assign_manifest_field(line, seen) == line.key \in Fields /\ line.key \notin seen /\ FieldParses(line)

zi_service_manifest_parse(f) ==
    LET Seen(i) == {f.lines[j].key : j \in 1 .. i - 1}
    IN  /\ f.lines # <<>>
        /\ \A i \in DOMAIN f.lines : assign_manifest_field(f.lines[i], Seen(i))
        /\ Required \subseteq Seen(Len(f.lines) + 1)
        /\ zi_service_manifest_validate(f.manifest)

-----------------------------------------------------------------------------
(* The start order: a sequence of indices, with the status.                 *)

candidate_precedes(m, n) ==
    \/ m.start_order < n.start_order
    \/ m.start_order = n.start_order /\ m.name < n.name

find_manifest(ms, name) == {i \in DOMAIN ms : ms[i].name = name}

dependencies_are_emitted(ms, emitted, i) ==
    \A d \in DOMAIN ms[i].dependencies : find_manifest(ms, ms[i].dependencies[d]) \cap emitted # {}

\* Variant: a candidate need not have its dependencies emitted.
CandidatesAny(ms, emitted) == DOMAIN ms \ emitted

Candidates(ms, emitted) ==
    {i \in DOMAIN ms \ emitted : dependencies_are_emitted(ms, emitted, i)}

RECURSIVE Emit(_, _)
Emit(ms, done) ==
    IF Len(done) = Len(ms) THEN [st |-> "SUCCESS", order |-> done]
    ELSE LET ready == Candidates(ms, {done[k] : k \in DOMAIN done})
         IN  IF ready = {} THEN [st |-> "SERVICE_DEPENDENCY_CYCLE", order |-> done]
             ELSE Emit(ms, Append(done, CHOOSE i \in ready :
                           \A j \in ready \ {i} : candidate_precedes(ms[i], ms[j])))

\* The checks of manifest i, in the code's order.
ManifestStatus(ms, i) ==
    IF ~zi_service_manifest_validate(ms[i]) THEN "INVALID_SERVICE_MANIFEST"
    ELSE IF \E j \in 1 .. i - 1 : ms[j].name = ms[i].name THEN "ALREADY_EXISTS"
    ELSE IF \E d \in DOMAIN ms[i].dependencies : find_manifest(ms, ms[i].dependencies[d]) = {}
         THEN "NOT_FOUND"
    ELSE "SUCCESS"

zi_service_resolve_start_order(ms) ==
    LET bad == {i \in DOMAIN ms : ManifestStatus(ms, i) # "SUCCESS"}
    IN  IF ms = <<>> \/ Len(ms) > MAX_MANIFESTS THEN [st |-> "INVALID_ARGUMENT", order |-> <<>>]
        ELSE IF bad # {}
        THEN [st |-> ManifestStatus(ms, CHOOSE i \in bad : \A j \in bad : i <= j), order |-> <<>>]
        ELSE Emit(ms, <<>>)

-----------------------------------------------------------------------------
(* Supervision.  A run of the loop is [manifest, attempts, restarts], and    *)
(* verdict the status zi_service_supervise returns, or "" while it goes on.  *)

LaunchFailed(st, exit) == st # "SUCCESS" \/ exit # 0

Restarts(m, st, exit) ==
    \/ m.restart_policy = "Always"
    \/ m.restart_policy = "OnFailure" /\ LaunchFailed(st, exit)

\* Variant: the limit is tested after the count, one launch too late.
VerdictLate(m, restarts, st, exit) ==
    IF ~Restarts(m, st, exit)
    THEN IF st # "SUCCESS" THEN st ELSE IF exit # 0 THEN "PROCESS_TERMINATED" ELSE "SUCCESS"
    ELSE IF restarts > m.maximum_restarts THEN "SERVICE_RESTART_LIMIT" ELSE ""

\* What the loop of zi_service_supervise decides after a launch.
Verdict(m, restarts, st, exit) ==
    IF ~Restarts(m, st, exit)
    THEN IF st # "SUCCESS" THEN st ELSE IF exit # 0 THEN "PROCESS_TERMINATED" ELSE "SUCCESS"
    ELSE IF restarts >= m.maximum_restarts THEN "SERVICE_RESTART_LIMIT" ELSE ""

-----------------------------------------------------------------------------
(* k_bootstrap_identities and the token of a service.                       *)

SystemServices == {ServiceHost, SecurityHost}
Provisioned == SystemServices \cup {LogHost, MountHost, SessionHost}

PolicyOf(name) ==
    IF name \in SystemServices THEN "System"
    ELSE IF name = SessionHost THEN "SessionBootstrap" ELSE "Service"

\* A token: its user and groups.  The user of a service is its name here.
Token(user, groups) == [user |-> user, groups |-> groups]
BootstrapGroup == 2

zi_service_bootstrap_token_create(m) ==
    IF ~zi_service_manifest_validate(m)
    THEN [st |-> "INVALID_SERVICE_MANIFEST", token |-> Token(SystemId, {})]
    ELSE IF \/ m.service_kind # "System" \/ m.start_mode = "Disabled"
            \/ m.name \notin Provisioned
            \/ m.executable # m.name
            \/ m.identity # (IF m.name \in SystemServices THEN SystemId ELSE m.name)
            \/ m.token_policy # PolicyOf(m.name)
    THEN [st |-> "ACCESS_DENIED", token |-> Token(SystemId, {})]
    ELSE [st |-> "SUCCESS",
          token |-> IF m.name \in SystemServices THEN Token(SystemId, {})
                    ELSE Token(m.name, {BootstrapGroup})]

-----------------------------------------------------------------------------
(* The parameter block: input has the sizes of its texts.  Strings stand     *)
(* behind the header and the two pointer arrays.                             *)

PARAMETERS == 72   \* sizeof(ZiProcessParameters)
POINTER    == 8

\* The strings in the order they are written.
Texts(input) == <<input.image_path, input.command_line>> \o input.arguments \o input.environment

RECURSIVE SizeOf(_)
SizeOf(texts) == IF texts = <<>> THEN 0 ELSE Head(texts) + 1 + SizeOf(Tail(texts))

ArraysSize(input) == (Len(input.arguments) + 1 + Len(input.environment) + 1) * POINTER

validate_input(input) ==
    /\ input.arguments # <<>> /\ input.image_path # 0 /\ input.command_line # 0
    /\ input.arguments[1] = input.image_path
    /\ \A i \in DOMAIN input.environment : input.environment[i] # 0

zi_process_parameters_measure(input) == PARAMETERS + ArraysSize(input) + SizeOf(Texts(input))

\* Where the k-th string is written.
StringAt(input, k) == PARAMETERS + ArraysSize(input) + SizeOf(SubSeq(Texts(input), 1, k - 1))

\* The status; the cursor must end where the measure said.
zi_process_parameters_serialise(input, capacity) ==
    IF ~validate_input(input) THEN "INVALID_PROCESS_PARAMETERS"
    ELSE IF capacity < zi_process_parameters_measure(input) THEN "BUFFER_TOO_SMALL"
    ELSE IF \E k \in DOMAIN Texts(input) : StringAt(input, k) + Texts(input)[k] + 1 > capacity
         THEN "OUT_OF_BOUNDS"
    ELSE IF StringAt(input, Len(Texts(input)) + 1) # zi_process_parameters_measure(input)
         THEN "INVALID_STATE" ELSE "SUCCESS"

=============================================================================
