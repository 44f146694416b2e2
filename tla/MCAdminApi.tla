----------------------------- MODULE MCAdminApi -----------------------------
(***************************************************************************)
(* A small instance of module AdminApi.                                    *)
(***************************************************************************)
EXTENDS AdminApi, TLC

CONSTANTS s1, s2, fast, slow, com, ads, https, own, h1, h2

MCConfig(s, t) == [servers |-> s, options |-> slow, token |-> t]

MCDefault == MCConfig(<<s1>>, "")

\* A config with the old credential and an address that does not parse, and one
\* with a token of the operator's choice.
MCOldConfigs == {MCConfig(<<Bad, s1>>, "change-me"), MCConfig(<<s1>>, own)}

\* A config whose token its operator has left empty.
MCOpenConfigs == {MCConfig(<<s1, s2>>, "")}

Post(s, o) == [servers |-> s, options |-> o]

MCBodies == {Post(<<s2, Blank>>, slow), Post(<<s1>>, fast), Post(<<s2, Bad>>, slow),
             Post(<<Blank>>, slow), Post(<<s1>>, Bad)}

Url(host) == <<https, Sep>> \o host

\* Among the lines: URLs without a host, with a port, a path or a final dot,
\* one in the query of another, a query right behind the host, and "*.".
MCDefaultText == {<<Hash, com>>, <<ads, com>>}
MCOldTexts    == {{<<Hash>>, <<Star, com>>, <<Star, Nil>>, Url(<<Nil, Cut>>)}}
MCTexts       == {{Url(<<ads, com, Cut, https, Sep, com>>), <<Star, com, com>>,
                   <<ads, Cut, Nil, Query, https, Sep, com, ads, Nil>>},
                  {Url(<<Star, com>>), <<com, ads, Query, com>>}}

MCNames == UNION {[1 .. n -> {ads, com}] : n \in 0 .. 3}

Symmetry == Permutations(Handlers) \cup Permutations(Random)
=============================================================================
