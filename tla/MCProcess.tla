----------------------------- MODULE MCProcess ------------------------------
(***************************************************************************)
(* Constants of the Process model.  Virtual pages have three levels of six *)
(* entries: root entry 0 is the user half, and the kernel's pool, stacks,  *)
(* local APIC and temporary page, device windows and image have one root   *)
(* entry each.                                                             *)
(***************************************************************************)
EXTENDS Process

MCRange(base, n, type) == [base |-> base, count |-> n, type |-> type]

MCBootRanges ==
    <<MCRange(2, 19, "USABLE"), MCRange(0, 1, "USABLE"), MCRange(1, 1, "RESERVED"),
      MCRange(21, 2, "KERNEL_AND_MODULES"), MCRange(23, 2, "KERNEL_AND_MODULES"),
      MCRange(25, 22, "USABLE")>>

MCModulePages == <<[base |-> 24, count |-> 1]>>

MCSection(at, n, write, execute) == [at |-> at, count |-> n, write |-> write, execute |-> execute]

MCKernelImage ==
    [base |-> 180, page |-> 21, header |-> 1,
     sections |-> <<MCSection(1, 1, FALSE, TRUE), MCSection(2, 1, TRUE, FALSE)>>]

MCImport(module, symbol) == [module |-> module, symbol |-> symbol]

MCCode == MCSection(1, 1, FALSE, TRUE)

MCFile(library, base, size, sections, imports, exports) ==
    [parses |-> TRUE, library |-> library, base |-> base, size |-> size, relocations |-> "good",
     sections |-> sections, entry |-> 1, imports |-> imports, exports |-> exports]

\* App and Tool import the library; Lib prefers the base of App, so that it
\* is relocated under App; Loop and Back import each other; Lost imports a
\* symbol that its library does not export.
MCImage ==
    [App  |-> MCFile(FALSE, 2, 3, <<MCCode, MCSection(2, 1, TRUE, FALSE)>>,
                     <<MCImport("Lib", "f")>>, << >>),
     Tool |-> MCFile(FALSE, 2, 2, <<MCCode>>, << >>, << >>),
     Loop |-> MCFile(FALSE, 2, 2, <<MCCode>>, <<MCImport("Lib", "f"), MCImport("Back", "g")>>, << >>),
     Lost |-> MCFile(FALSE, 2, 2, <<MCCode>>, <<MCImport("Lib", "g")>>, << >>),
     Lib  |-> MCFile(TRUE, 3, 2, <<MCCode>>, << >>, [f |-> 1]),
     Back |-> MCFile(TRUE, 8, 2, <<MCCode>>, <<MCImport("Fore", "h")>>, [g |-> 1]),
     Fore |-> MCFile(TRUE, 8, 2, <<MCCode>>, <<MCImport("Back", "g")>>, [h |-> 1])]

MCLaunch(name, force, parameters) ==
    [name |-> name, force |-> force, sources |-> <<"Lib", "Back", "Fore">>, parameters |-> parameters]

MCLaunches ==
    { MCLaunch("App", FALSE, "good"), MCLaunch("Tool", TRUE, "good"),
      MCLaunch("Tool", FALSE, "unstaged"), MCLaunch("Loop", FALSE, "good"),
      MCLaunch("Lost", FALSE, "bad") }
=============================================================================
