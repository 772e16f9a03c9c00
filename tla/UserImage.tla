----------------------------- MODULE UserImage ------------------------------
(***************************************************************************)
(* Loading an executable and the libraries it imports into an address      *)
(* space: kernel/pe/user_image.c.  What the PE parser reads from a file is *)
(* the record Image[name]:                                                 *)
(*   parses       zi_pe_parse accepts the file, and machine, subsystem and *)
(*                alignments are the ones the loader asks for,             *)
(*   library      the DLL characteristic,                                  *)
(*   base, size   preferred base and size, in pages; page 0 is the header, *)
(*   relocations  "none", "good", or "bad" when applying them fails,       *)
(*   sections     a sequence of [at, count, write, execute],               *)
(*   entry        the page of the entry point,                             *)
(*   imports      a sequence of [module, symbol],                          *)
(*   exports      symbol |-> page.                                         *)
(* A loader state is a record [st, m, as, set]; set is the image set, a    *)
(* sequence of records [name, state, base, size].                          *)
(***************************************************************************)
EXTENDS AddressSpace

CONSTANTS
    Image,                  \* name |-> what the parser reads from the file
    ImageCapacity,          \* ZI_USER_IMAGE_SET_CAPACITY
    SearchBase, SearchEnd   \* where a relocated image may go

SectionPages(s) == PagesOf(s.at, s.count)

image_contract_is_valid(image, is_main) ==
    /\ zi_user_range_is_valid(image.base, image.size)
    /\ is_main # image.library
    /\ ~ is_main => image.exports # << >>
    /\ \A i \in DOMAIN image.sections :
          LET s == image.sections[i]
          IN  /\ s.count > 0 /\ s.at >= 1 /\ s.at + s.count <= image.size
              /\ \A j \in 1 .. (i - 1) : SectionPages(s) \cap SectionPages(image.sections[j]) = {}

validate_module_sources(sources, main) ==
    /\ main \notin ToSet(sources)
    /\ IsInjective(sources)

find_module_source(sources, name) == { i \in DOMAIN sources : sources[i] = name }

\* The file is a well-formed image of the kind the loader takes.
zi_pe_parse(name) == Image[name].parses

\* The page of an exported symbol, as a set with at most one member.
zi_pe_find_export(image, symbol) == { image.exports[s] : s \in {symbol} \cap DOMAIN image.exports }

\* The place of a loaded image in the set, as a set with at most one member.
find_loaded_image(set, name) == { i \in DOMAIN set : set[i].name = name }

\* The preferred base if it is free; otherwise the first free place, but not
\* the preferred base itself.
select_image_base(as, image, force) ==
    LET free(base, end) == zi_address_space_find_free_range(as, base, end, image.size)
        place(st, base) == [st |-> st, base |-> base]
        other(second)   == IF second = {} THEN place("NOT_FOUND", image.base)
                           ELSE place("SUCCESS", Min(second))
        search(first)   == IF first = {}                THEN place("NOT_FOUND", 0)
                           ELSE IF first # {image.base} THEN place("SUCCESS", Min(first))
                           ELSE other(free(image.base + 1, SearchEnd))
    IN  IF ~ force /\ free(image.base, image.base + image.size) # {}
        THEN place("SUCCESS", image.base)
        ELSE IF image.relocations = "none" THEN place("IMAGE_RELOCATION_FAILED", 0)
        ELSE search(free(SearchBase, SearchEnd))

\* A step of the loader, taken unless an earlier one failed.
Proceed(L, Step(_)) == IF L.st = "SUCCESS" THEN Step(L) ELSE L

Takes(L, r) == [L EXCEPT !.st = r.st, !.m = r.m, !.as = r.as]

Fail(L, st) == [L EXCEPT !.st = st]

copy_image_contents(L, image, base) ==
    LET written == {base} \cup UNION { PagesOf(base + s.at, s.count) : s \in ToSet(image.sections) }
    IN  IF \A v \in written : zi_address_space_query(L.m, L.as, v, {"WRITE"})
        THEN [L EXCEPT !.m.dirty = @ \cup { zi_x64_paging_query(L.m, L.as.root, v).page : v \in written }]
        ELSE Fail(L, "INVALID_USER_BUFFER")

UserSectionProtection(s) ==
    IF s.write /\ s.execute THEN {}
    ELSE UserRead \cup (IF s.write THEN {"WRITE"} ELSE {})
                  \cup (IF s.execute THEN {"EXECUTE"} ELSE {})

ProtectSection(L, s, base) ==
    IF UserSectionProtection(s) = {} THEN Fail(L, "BAD_IMAGE_FORMAT")
    ELSE Takes(L, zi_address_space_protect_owned(L.m, L.as, base + s.at, s.count,
                                                 UserSectionProtection(s)))

\* Gives each section its protection, unless an earlier one failed.
ProtectSections(L, image, base) ==
    LET done[k \in 0 .. Len(image.sections)] ==
            IF k = 0 THEN L
            ELSE Proceed(done[k - 1], LAMBDA K : ProtectSection(K, image.sections[k], base))
    IN  done[Len(image.sections)]

protect_image_contents(L, image, base) ==
    ProtectSections(Takes(L, zi_address_space_protect_owned(L.m, L.as, base, image.size, UserRead)),
                    image, base)

RECURSIVE load_image(_, _, _, _, _)

\* One import of an image: load the module it names unless it is loaded, then
\* find the symbol among its exports; the address must be executable.
resolve_import(L, import, sources) ==
    LET known   == find_loaded_image(L.set, import.module)
        export  == zi_pe_find_export(Image[import.module], import.symbol)
        find(K) ==
            IF export = {} THEN Fail(K, "IMAGE_IMPORT_NOT_FOUND")
            ELSE IF ~ zi_address_space_query(K.m, K.as,
                        K.set[Min(find_loaded_image(K.set, import.module))].base
                            + Min(export), {"EXECUTE"})
            THEN Fail(K, "BAD_IMAGE_FORMAT")
            ELSE K
    IN  IF known # {} /\ L.set[Min(known)].state = "LOADING"
        THEN Fail(L, "IMAGE_DEPENDENCY_CYCLE")
        ELSE IF known = {} /\ find_module_source(sources, import.module) = {}
        THEN Fail(L, "IMAGE_IMPORT_NOT_FOUND")
        ELSE Proceed(IF known # {} THEN L ELSE load_image(L, import.module, FALSE, FALSE, sources), find)

ResolveImports(L, imports, sources) ==
    LET resolved[k \in 0 .. Len(imports)] ==
            IF k = 0 THEN L
            ELSE Proceed(resolved[k - 1], LAMBDA K : resolve_import(K, imports[k], sources))
    IN  resolved[Len(imports)]

RelocateImage(L, image, base) ==
    IF base # image.base /\ image.relocations = "bad" THEN Fail(L, "IMAGE_RELOCATION_FAILED") ELSE L

\* The entry point of the main image must be executable.
FinishImage(L, i, image, is_main, base) ==
    IF is_main /\ ~ zi_address_space_query(L.m, L.as, base + image.entry, {"EXECUTE"})
    THEN Fail(L, "BAD_IMAGE_FORMAT")
    ELSE [L EXCEPT !.set[i].state = "READY"]

\* The image is entered in the set and has its place: fill it if it could be
\* mapped there, relocate it, load what it imports, protect it.
LoadAt(L, image, is_main, base, sources, mapped) ==
    LET filled   == Proceed(copy_image_contents(Takes(L, mapped), image, base),
                            LAMBDA K : RelocateImage(K, image, base))
        finish(K) == FinishImage(K, Len(L.set), image, is_main, base)
    IN  IF mapped.st # "SUCCESS" THEN [Takes(L, mapped) EXCEPT !.set[Len(L.set)].base = 0]
        ELSE Proceed(Proceed(Proceed(filled, LAMBDA K : ResolveImports(K, image.imports, sources)),
                             LAMBDA K : protect_image_contents(K, image, base)), finish)

EnterImage(L, name, place) ==
    [L EXCEPT !.set = Append(@, [name |-> name, state |-> "LOADING",
                                 base |-> place.base, size |-> Image[name].size])]

PlaceImage(L, name, is_main, sources, place) ==
    IF place.st # "SUCCESS" THEN Fail(EnterImage(L, name, place), place.st)
    ELSE LoadAt(EnterImage(L, name, place), Image[name], is_main, place.base, sources,
                zi_address_space_map_owned(L.m, L.as, place.base, Image[name].size,
                                           UserData, "PROCESS_IMAGE"))

load_image(L, name, is_main, force, sources) ==
    IF Len(L.set) >= ImageCapacity THEN Fail(L, "BUFFER_TOO_SMALL")
    ELSE IF ~ (zi_pe_parse(name) /\ image_contract_is_valid(Image[name], is_main))
    THEN Fail(L, "BAD_IMAGE_FORMAT")
    ELSE PlaceImage(L, name, is_main, sources,
                    select_image_base(L.as, Image[name], is_main /\ force))

UnloadImage(L, image) ==
    IF image.base = 0 THEN L
    ELSE Takes(L, zi_address_space_unmap_owned(L.m, L.as, image.base, image.size))

\* Unmaps the images, the last one first, and stops at one that cannot be.
zi_user_image_set_unload(L) ==
    LET images == L.set
        left[k \in 0 .. Len(images)] ==
            IF k = 0 THEN Fail(L, "SUCCESS")
            ELSE Proceed(left[k - 1], LAMBDA K : UnloadImage(K, images[Len(images) + 1 - k]))
    IN  left[Len(images)]

UndoLoad(st, undone) == Fail(undone, IF undone.st = "SUCCESS" THEN st ELSE "MEMORY_CORRUPTION")

LoadedOrUndone(L) == IF L.st = "SUCCESS" THEN L ELSE UndoLoad(L.st, zi_user_image_set_unload(L))

zi_pe_load_user_image(m, as, name, force, sources) ==
    LET L == [st |-> "SUCCESS", m |-> m, as |-> as, set |-> << >>]
    IN  IF validate_module_sources(sources, name)
        THEN LoadedOrUndone(load_image(L, name, TRUE, force, sources))
        ELSE Fail(L, "INVALID_ARGUMENT")
=============================================================================
