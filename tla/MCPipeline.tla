----------------------------- MODULE MCPipeline -----------------------------
(***************************************************************************)
(* Small instances of module Pipeline.                                     *)
(***************************************************************************)
EXTENDS Pipeline, TLC

CONSTANTS u1, u2, tcp, s1, ads, i1, i2

MCServerLists == {<<s1>>}

Q(n, r, c) == [name |-> n, rtype |-> r, class |-> c]
Ask(i, q)  == [id |-> i, question |-> q]

\* One name that may be blocked, asked for by two clients.
MCQuestions == {Q(ads, "A", "IN"), Q(ads, "TXT", "IN")}
MCRequests  == {Ask(i1, Q(ads, "A", "IN")), Ask(i2, Q(ads, "A", "IN")),
                Ask(i1, Q(ads, "TXT", "IN"))}

\* A single client question.
MCOneQuestion == {Q(ads, "A", "IN")}
MCOneRequest  == {Ask(i1, Q(ads, "A", "IN"))}

MCBlocklists == {{}, {ads}}

Symmetry == Permutations(UdpTasks)
=============================================================================
