------------------------------ MODULE Blocklist ------------------------------
(***************************************************************************)
(* The algorithms of blocklist.rs: what a text of lines is read as, which  *)
(* names a list blocks, and the text it is saved as.                       *)
(*                                                                         *)
(* A line is a sequence of tokens: labels in lower case, with a dot        *)
(* between two that stand side by side, and the marks normalize() and a    *)
(* reader of URLs look for.  "https://a.com:80/?x" is the line             *)
(* <<https, Sep, a, com, Cut, 80, Cut, Nil, Query, x>>: what is between    *)
(* two marks is the empty label Nil, as is what follows the final dot of   *)
(* "a.com.", which is <<a, com, Nil>>.  A name is a sequence of labels.    *)
(* The order and the repetition of lines do not matter: a text is their    *)
(* set.                                                                    *)
(***************************************************************************)
EXTENDS Integers, Sequences
Ext == INSTANCE SequencesExt

CONSTANTS Star,   \* the label "*"
          Hash,   \* a label that starts with '#'
          Nil,    \* the empty label, between two dots or at an end
          Sep,    \* "://"
          Cut,    \* '/' or ':'
          Query   \* '?', which starts the query of a URL

Marks == {Sep, Cut, Query}

ASSUME BlocklistAssumption == Star \notin {Hash, Nil} \cup Marks /\ Nil \notin Marks

\* The lines that are made of some tokens: a label stands in front of a mark.
Lines(Tokens) ==
    {l \in Seq(Tokens) :
        \A i \in DOMAIN l : l[i] \in Marks => i > 1 /\ l[i - 1] \notin Marks}

First(line) == IF line = <<>> THEN Nil ELSE Head(line)

\* line.starts_with('#'), and line.strip_prefix("*."): a dot follows the star.
IsComment(line)  == First(line) = Hash
IsWildcard(line) == First(line) = Star /\ Len(line) > 1 /\ line[2] \notin Marks

\* How many tokens stand in front of the first one in set, and up to the last
\* one that is not an empty label.
Ahead(line, set) ==
    CHOOSE n \in 0 .. Len(line) :
        /\ \A i \in 1 .. n : line[i] \notin set
        /\ n < Len(line) => line[n + 1] \in set
Solid(line) ==
    CHOOSE n \in 0 .. Len(line) :
        /\ \A i \in n + 1 .. Len(line) : line[i] = Nil
        /\ n > 0 => line[n] # Nil

\* What stands in front of the first token in set, and behind it if there is one.
UpTo(line, set) == SubSeq(line, 1, Ahead(line, set))
Behind(line, set) ==
    IF Ahead(line, set) < Len(line)
      THEN SubSeq(line, Ahead(line, set) + 2, Len(line))
      ELSE line

\* trim_end_matches('.')
TrimDots(line) == SubSeq(line, 1, Solid(line))

\* normalize: what follows the first "://", wherever it is, up to the next '/'
\* or ':' (which "://" has, too), without final dots.
Normalize(line) == TrimDots(UpTo(Behind(line, {Sep}), {Sep, Cut}))

FromText(text) ==
    LET lines == {l \in text : ~IsComment(l)} IN
    [exact    |-> {Normalize(l) : l \in {l \in lines : ~IsWildcard(l)}} \ {<<>>},
     wildcard |-> {Normalize(Tail(l)) : l \in {l \in lines : IsWildcard(l)}} \ {<<>>}]

\* to_sorted_vec and to_file_text: wildcards get their prefix back.
ToFileText(bl) == bl.exact \cup {<<Star>> \o d : d \in bl.wildcard}

\* Mutant of SuffixIn: the walk stops before the last label.
SuffixInShort(set, name) ==
    LET found[i \in 1 .. Len(name)] ==
            IF SubSeq(name, i, Len(name)) \in set THEN TRUE
            ELSE IF i + 1 < Len(name) THEN found[i + 1] ELSE FALSE
    IN  name # <<>> /\ found[1]

\* The loop of is_blocked: the name, then what follows each dot in turn.
SuffixIn(set, name) ==
    LET found[i \in 1 .. Len(name)] ==
            IF SubSeq(name, i, Len(name)) \in set THEN TRUE
            ELSE IF i < Len(name) THEN found[i + 1] ELSE FALSE
    IN  name # <<>> /\ found[1]

IsBlocked(bl, name) ==
    \/ SuffixIn(bl.exact, name)
    \/ Len(name) > 1 /\ SuffixIn(bl.wildcard, Tail(name))

-----------------------------------------------------------------------------
\* What the documentation says a line of the list means.

\* A pasted URL starts with its scheme.  Its host ends at a port, a path or a
\* query; final dots do not belong to it.
IsUrl(line) == Len(line) > 1 /\ line[1] \notin Marks /\ line[2] = Sep
Host(line) ==
    TrimDots(UpTo(IF IsUrl(line) THEN SubSeq(line, 3, Len(line)) ELSE line, Marks))

\* A plain domain stands for itself and its subdomains, a wildcard for the
\* subdomains only, a comment for nothing.
Covers(line, name) ==
    /\ ~IsComment(line)
    /\ IF IsWildcard(line)
         THEN Host(Tail(line)) # <<>> /\ Ext!IsStrictSuffix(Host(Tail(line)), name)
         ELSE Host(line) # <<>> /\ Ext!IsSuffix(Host(line), name)

\* A line that normalize() does not read as a pasted URL: there is a "://" that
\* does not end its scheme, so what follows is taken for the host, or a query
\* right behind the host, which is taken for a part of its last label.
Misread(line) ==
    \/ ~IsUrl(line) /\ \E i \in DOMAIN line : line[i] = Sep
    \/ \E i \in DOMAIN Normalize(line) : Normalize(line)[i] = Query

IsMisread(line) == Misread(IF IsWildcard(line) THEN Tail(line) ELSE line)

\* An entry that looks like a wildcard or a comment once it stands alone on a
\* line: the scheme in front of it hid what it starts with.
IsOdd(bl) == \E d \in bl.exact : IsComment(d) \/ IsWildcard(d)
=============================================================================
