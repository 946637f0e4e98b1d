------------------------------ MODULE MCLookup ------------------------------
(***************************************************************************)
(* Instances of Lookup for TLC.                                            *)
(***************************************************************************)
EXTENDS Lookup

\* Five rows; the name looked for nowhere, once on any page, or twice.
Listings ==
  {[r \in 1..Rows |-> IF r \in at THEN "coder" ELSE IF r = 2 THEN "" ELSE "writer"] :
     at \in {s \in SUBSET (1..Rows) : Cardinality(s) <= 2}}

Lengths == [n \in AgentNames |-> CASE n = "" -> 0 [] n = "coder" -> 1 [] OTHER -> 2]

Identity == [h \in Harnesses |-> h]
Renaming == [h \in Harnesses |-> IF h = "openai" THEN "openai-agents" ELSE h]
Renamers == {Identity, Renaming}

\* Three runners, of which one or another is offline, unnamed or silent.
Kinds(id) ==
  {r \in [id : {"", id}, online : BOOLEAN, reported : BOOLEAN, harnesses : SUBSET Harnesses] :
     (~r.reported => r.harnesses = {}) /\ Cardinality(r.harnesses) <= 1}
Answered == {<<>>} \union {<<r, s, t>> : r \in Kinds("a"), s \in Kinds("b"), t \in Kinds("c")}
=============================================================================
