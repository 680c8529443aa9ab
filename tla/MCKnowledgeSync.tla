--------------------------- MODULE MCKnowledgeSync ---------------------------
(* Instances of KnowledgeSync for TLC. *)
EXTENDS KnowledgeSync, TLC

CONSTANTS s1, j1, j2, k1, k2

OneSource == {s1}
OneJob == {j1}
TwoJobs == {j1, j2}
OneWorker == {k1}
TwoWorkers == {k1, k2}

SameSource == (j1 :> s1) @@ (j2 :> s1)
OneJobSource == j1 :> s1

\* A folder is registered and synchronised again, or a tool writes a file into
\* it, or files are uploaded (a synchronisation is then refused).
RegisterThenSync ==
    {(j1 :> "create") @@ (j2 :> "sync"), (j1 :> "create") @@ (j2 :> "file"),
     (j1 :> "upload") @@ (j2 :> "sync")}
\* Two jobs that need the lock, or one of a folder that is registered now or was
\* registered before.
Alone(request) == (j1 :> request) @@ (j2 :> "none")
TogetherOrAlone == {(j1 :> "create") @@ (j2 :> "sync"), Alone("create"), Alone("sync")}
\* One registration of a folder.
CreateAlone == {j1 :> "create"}

\* The poller and the administrator are there when one job is alone, or never.
SourceWhenAlone ==
    [kinds \in Requests |-> IF kinds \in {Alone("create"), Alone("sync")} THEN {s1} ELSE {}]
PollWhenAlone ==
    [kinds \in Requests |-> IF kinds \in {Alone("create"), Alone("sync")} THEN 1 ELSE 0]
NoSources == [kinds \in Requests |-> {}]
NoPolls == [kinds \in Requests |-> 0]

WorkerSymmetry == Permutations(TwoWorkers)
=============================================================================
