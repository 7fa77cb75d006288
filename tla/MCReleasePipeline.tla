-------------------------- MODULE MCReleasePipeline --------------------------
(* Instances of ReleasePipeline for TLC: two tasks, two repositories.      *)
EXTENDS ReleasePipeline, TLC

CONSTANTS t1, t2

MCTasks == {t1, t2}

\* Both tasks change both repositories: they can be released as a batch.
WorkAll == [t \in MCTasks |-> 1..2]
\* t1 changes both, t2 only the first: they go one by one.
WorkUneven == t1 :> 1..2 @@ t2 :> {1}

MigratesFirst == {<<t1, 1>>}

\* Others push to repository 1 only, or to none.
PushesToFirst == <<2, 0>>
NoPushes == <<0, 0>>

Harmless == [breaks |-> {}, conflicts |-> {}, red |-> {}]
\* t2 alone turns the gate of repository 2 red.
Poison == [Harmless EXCEPT !.breaks = {<<{t2}, 2>>}]
\* Each is green alone, the two together are not.
Together == [Harmless EXCEPT !.breaks = {<<{t1, t2}, 1>>}]
\* The two do not merge.
Crossing == [Harmless EXCEPT !.conflicts = {<<{t1, t2}, 2>>}]
\* The first foreign push to repository 1 is red, the second repairs it.
RedPush == [Harmless EXCEPT !.red = {<<1, 1>>}]

AllCodes == {Harmless, Poison, Together, Crossing, RedPush}
HarmlessOnly == {Harmless}
PoisonOnly == {Poison}
=============================================================================
