----------------------------- MODULE MCHostGates -----------------------------
(***************************************************************************)
(* HostGates for TLC: the requests, of which one kind of each sort is enough.*)
(***************************************************************************)
EXTENDS HostGates

MCAsks == {<<"vitest", FALSE>>, <<"vitest", TRUE>>, <<"dotnet-test", FALSE>>,
           <<"vitest-related", TRUE>>}
==============================================================================
