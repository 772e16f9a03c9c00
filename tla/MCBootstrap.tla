---------------------------- MODULE MCBootstrap ----------------------------
(* Three services over every dependency relation between them, with defects  *)
(* of their files, restart policies and start orders.                        *)
EXTENDS Bootstrap, SequencesExt

Keys == <<"FormatVersion", "Name", "Executable", "ServiceKind", "Identity", "StartMode",
          "StartOrder", "Dependencies", "RestartPolicy", "TokenPolicy", "MaximumRestarts">>
Lines == [i \in DOMAIN Keys |-> [key |-> Keys[i], good |-> TRUE]]

\* The lines of a file as written, cut short, with a value no parser takes,
\* with a field given twice, and with a field nobody knows.
LinesWith(defect) ==
    CASE defect = "none"      -> Lines
      [] defect = "short"     -> SubSeq(Lines, 1, 10)
      [] defect = "value"     -> [Lines EXCEPT ![3].good = FALSE]
      [] defect = "duplicate" -> Append(Lines, Lines[2])
      [] defect = "unknown"   -> Append(Lines, [key |-> "Colour", good |-> TRUE])

Manifest(name, start, deps, policy, max) ==
    [name |-> name, executable |-> name, service_kind |-> "System", start_mode |-> "Automatic",
     identity |-> IF name \in SystemServices THEN SystemId ELSE name,
     token_policy |-> PolicyOf(name), start_order |-> start, dependencies |-> SetToSeq(deps),
     restart_policy |-> policy, maximum_restarts |-> max]

File(m) == [lines |-> Lines, manifest |-> m]

\* The files are read in this order, and the start order must be the same.
Names == <<ServiceHost, LogHost, SessionHost>>
Shipped(deps, start, policy, max) ==
    [i \in 1 .. 3 |-> File(Manifest(Names[i], IF i = 2 THEN start ELSE 1, deps[i],
                                    IF i = 2 THEN policy ELSE "OnFailure",
                                    IF i = 2 THEN max ELSE 1))]

Depends == <<{}, {ServiceHost}, {LogHost}>>
Relations == {d \in [1 .. 3 -> SUBSET {LogHost, ServiceHost, SessionHost, MountHost}] :
                /\ \A i \in 1 .. 3 : Names[i] \notin d[i] /\ (MountHost \in d[i] => i = 2)
                /\ LogHost \in d[3]}

\* The service at place i replaced by another of the provisioned ones.
Replaced(i, name, deps) ==
    [Shipped(Depends, 1, "Never", 0) EXCEPT ![i] = File(Manifest(name, 1, deps, "OnFailure", 1))]

\* A service that depends on SessionHost, which the bootstrap runs last.
Inverted == <<File(Manifest(SessionHost, 1, {}, "Never", 0)),
              File(Manifest(ServiceHost, 1, {SessionHost}, "Never", 0))>>

With(field, value) ==
    LET f == Shipped(Depends, 1, "Never", 0)
    IN  CASE field = "lines"      -> [f EXCEPT ![2].lines = value]
          [] field = "restarts"   -> [f EXCEPT ![2].manifest.maximum_restarts = value]
          [] field = "start_mode" -> [f EXCEPT ![3].manifest.start_mode = value]
          [] field = "executable" -> [f EXCEPT ![2].manifest.executable = value]
          [] field = "name"       -> [f EXCEPT ![2].manifest.name = value]

Defective ==
    {Shipped(Depends, 1, "OnFailure", 1), Shipped(Depends, 2, "Always", 1)}
    \cup {With("lines", LinesWith(d)) : d \in {"short", "value", "duplicate", "unknown"}}
    \cup {With("restarts", 3), With("start_mode", "Disabled"), With("executable", MountHost),
          With("name", ServiceHost)}
    \cup {[Replaced(1, MountHost, {}) EXCEPT ![2].manifest.dependencies = <<MountHost>>],
          Replaced(3, SecurityHost, {LogHost}), Inverted}

MCVolumes ==
    {[files |-> Shipped(d, 1, "Never", 0), public |-> FALSE] : d \in Relations}
    \cup {[files |-> f, public |-> FALSE] : f \in Defective}
    \cup {[files |-> Shipped(Depends, 0, "Never", 0), public |-> TRUE]}

Runtime == 10
MCFileSize == [n \in {LogHost, ServiceHost, SessionHost, MountHost, SecurityHost, Luma, Runtime} |->
                 IF n = SecurityHost THEN 0 ELSE IF n = Luma THEN 40 ELSE 24]
MCLibraries == <<Runtime>>
=============================================================================
