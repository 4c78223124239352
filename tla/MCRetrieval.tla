----------------------------- MODULE MCRetrieval -----------------------------
(* Two organizations; in the first, two projects.  Chunks 1, 2 and 4 have   *)
(* one body in three lanes, 4 as global knowledge of the other project; 3   *)
(* and 5 are blank.                                                         *)
EXTENDS Retrieval

MCOrgOf == [p1 |-> "o1", p2 |-> "o1", p3 |-> "o2"]

D(org, project, scope, body, words, file) ==
    [org |-> org, project |-> project, scope |-> scope, body |-> body,
     words |-> words, file |-> file]

MCDoc == <<D("o1", "p1", "project", "x", FALSE, "a.md"),
           D("o1", "p1", "project", "x", TRUE, "b.md"),
           D("o1", "p1", "project", "blank", TRUE, "c.md"),
           D("o1", "p2", "global", "x", TRUE, "d.md"),
           D("o1", "p1", "project", "blank", FALSE, "e.md"),
           D("o2", "p3", "project", "x", TRUE, "f.md")>>

MCFirstStatus == <<{"scratch"}, {"needs_review", "approved"}, {"scratch"},
                   {"approved"}, {"approved"}, {"approved"}>>

MCUser == {[org |-> "o1"], [org |-> "o2"]}
MCAgent == {[org |-> "o1", projects |-> {"p1"}, global |-> FALSE]}
MCQuestion == <<[project |-> "p1", global |-> TRUE, minimum |-> 1,
                 scopes |-> {"project"}, files |-> {"b.md"}]>>
=============================================================================
