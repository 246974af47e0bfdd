------------------------------- MODULE MCUser -------------------------------
(***************************************************************************)
(* User space for TLC.  The three parts share no state, so a behaviour is  *)
(* that of one of them, chosen at the start: a shell session, the heap of  *)
(* a program, or a call of one of the pure functions.                      *)
(***************************************************************************)
EXTENDS Text, Shell, Umalloc

VARIABLE part

vars == <<part, shellVars, heapVars, textVars>>

\* Lines over every character the parser tells apart, and longer ones over some.
Chars == {"a", " ", "|", ";", "&", "<", ">", "(", ")"}

ParseLines ==
    UNION {[1..n -> Chars] : n \in 1..4} \cup [1..5 -> {"a", "|", "(", ")", "&"}]
      \cup {<<"a", ">", ">", "a", "<", "b", " ", "a", "\n">>}

Paths == UNION {[1..n -> {"a", "b", "/"}] : n \in 1..4}

Named == {p \in Paths : \E i \in DOMAIN p : p[i] # "/"}

Regexps == UNION {[1..n -> {"a", "b", ".", "*"}] : n \in 0..3}
    \cup {<<"^", "a", "*", "$">>, <<"a", "$">>, <<"$">>, <<"^", "*">>}

Texts == {<<"a", "\n", "\n", "b", "a", "\n", "a", "b", "\n", "a">>,
          <<"b", "\n", "a", "a", "a", "a", "\n", "a", "\n">>}

Calls ==
    {[fn |-> "parsecmd", line |-> l] : l \in ParseLines}
      \cup {[fn |-> "namex", path |-> p] : p \in Paths}
      \cup {[fn |-> "dirlookup", path |-> p, sought |-> q] :
              p \in Named, q \in {<<"a">>, <<"b", "/", "a", "b">>, <<"a", "b", "a">>}}
      \cup {[fn |-> "memmove", mem |-> <<1, 2, 3, 4, 5>>, dst |-> d, src |-> s, n |-> n] :
              d \in 1..3, s \in 1..3, n \in 0..3}
      \cup {[fn |-> "grep", re |-> r, file |-> t, chunk |-> n] : r \in Regexps, t \in Texts, n \in 1..4}

MCSessions ==
    {<<"a", "|", "a", "|", "a", "\n">>,
     <<"a", ">", "f", "|", "a", "<", "f", "\n">>,
     <<"(", "a", "&", ")", "|", "a", "\n", "a", "\n">>,
     <<"a", "|", "a", "&", "\n", "a", "|", "a", "\n">>,
     <<"c", "d", " ", "d", "\n", "a", ";", "b", "\n", "EOF", "a", "\n">>,
     <<"(", "a", ";", "a", ")", ">", "f", "&", "\n", "a", ";", ";", "\n">>,
     <<"a", "|", "\n", "a", "|", "a", "<", "f", "|", "a", "\n">>,
     <<"a", "|", "a", "|", "a", "|", "a", "&", "\n", "a", "\n">>}

Init ==
    \/ part = "shell" /\ ShellInit /\ HeapInit /\ call = NoCall /\ ret = <<>>
    \/ part = "heap" /\ ShellOff /\ HeapInit /\ call = NoCall /\ ret = <<>>
    \/ part = "call" /\ ShellOff /\ HeapInit /\ call \in Calls /\ ret = <<>>

Next ==
    \/ part = "shell" /\ ShellNext /\ UNCHANGED <<part, heapVars, textVars>>
    \/ part = "heap" /\ HeapNext /\ UNCHANGED <<part, shellVars, textVars>>
    \/ part = "call" /\ Call /\ UNCHANGED <<part, shellVars, heapVars>>

Spec ==
    /\ Init /\ [][Next]_vars
    /\ WF_vars(part = "shell" /\ Progress /\ UNCHANGED <<part, heapVars, textVars>>)

MCPrograms == {<<"a">>}

MCDirs == {<<"d">>}
=============================================================================
