---------------------------- MODULE MCLocalIndex ----------------------------
(* A small instance of LocalIndex: remotes r1 and r2 have the same name.    *)
EXTENDS LocalIndex, TLC

CONSTANTS r1, r2, s1, s2, name

MCNameOf == [r \in {r1, r2} |-> name]

\* Two versions of one document, one that only this laptop would index, one
\* that nobody does, and one that belongs to the work tree below.
F(d, n, e, s) == [dir |-> d, name |-> n, ext |-> e, size |-> s, blank |-> FALSE]
Readme == F(<<>>, "readme", "md", 1)
Readme2 == F(<<>>, "readme", "md", 2)
Script == F(<<>>, "script", "py", 1)
Lock == F(<<>>, "lock", "json", 1)
Inner == F(<<"sub">>, "readme", "md", 1)

Trees == {<<"home">>, <<"home", "sub">>}
Roots == DiscoverRoots(Trees, <<"home">>, 4)

Plan(path, base, origin, tracked) ==
    [base |-> base, origin |-> origin,
     files |-> PlanFiles(path, tracked, Roots, {"md", "py", "json"})]

From(r, s) == [remote |-> r, spelling |-> s]

\* The outer tree in two batches; the other remote of that name; the same one
\* under another address; both trees without a remote, in one batch.
MCWorkspaces ==
    {<<Plan(<<"home">>, name, From(r1, s1), <<Readme2, Inner, Script, Lock>>)>>,
     <<Plan(<<"home">>, name, From(r2, s1), <<Readme>>)>>,
     <<Plan(<<"home">>, name, From(r2, s2), <<Readme>>)>>,
     <<Plan(<<"home">>, name, NoOrigin, <<Script, Lock>>),
       Plan(<<"home", "sub">>, name, NoOrigin, <<Readme>>)>>}

Symmetry == Permutations(Client) \cup Permutations(Org)
=============================================================================
