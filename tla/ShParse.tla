------------------------------ MODULE ShParse ------------------------------
(***************************************************************************)
(* The parser of user/sh.c: a recursive descent over the characters of a   *)
(* line, which keeps pointers into the line (q, eq) for the words and, at  *)
(* the end, writes a NUL over the character after each of them             *)
(* (nulterminate).  A line is a sequence of characters; position           *)
(* Len(l) + 1 is es, the line's own NUL.                                   *)
(*                                                                         *)
(* Reference(l) is the grammar read the other way round: the line is cut   *)
(* at its loosest operator outside parentheses first.                      *)
(***************************************************************************)
EXTENDS Integers, Sequences, FiniteSetsExt, SequencesExt

CONSTANT MAXARGS    \* size of execcmd.argv

NUL == "NUL"

whitespace == {" ", "\t", "\r", "\n", "VT"}

symbols == {"<", "|", ">", "&", ";", "(", ")"}

At(l, s) == IF s \in DOMAIN l THEN l[s] ELSE NUL

FirstIn(l, s, Stop(_)) == Min({e \in s..Len(l) + 1 : Stop(At(l, e))})

SkipSpace(l, s) == FirstIn(l, s, LAMBDA c : c \notin whitespace)

gettoken(l, s) ==
    LET q  == SkipSpace(l, s)
        c  == At(l, q)
        eq == CASE c = NUL -> q
                [] c = ">" /\ At(l, q + 1) = ">" -> q + 2
                [] c \in symbols -> q + 1
                [] OTHER -> FirstIn(l, q, LAMBDA d : d \in whitespace \cup symbols \cup {NUL})
        tok == CASE eq = q + 2 /\ c = ">" -> "+"
                 [] c \in symbols \cup {NUL} -> c
                 [] OTHER -> "a"
    IN  [tok |-> tok, word |-> [q |-> q, eq |-> eq], s |-> SkipSpace(l, eq)]

peek(l, s, toks) == At(l, SkipSpace(l, s)) \in toks

-----------------------------------------------------------------------------
(* Constructors; the result of a parse function is the value and *ps, or a *)
(* panic(), which ends the process that parses.                            *)

Done(v, s) == [ok |-> TRUE, val |-> v, s |-> s]

Panic == [ok |-> FALSE, val |-> <<>>, s |-> 0]

\* What follows a successful r; the set binds v to r's value, found once.
Then(r, K(_, _)) == CHOOSE x \in {IF v.ok THEN K(v.val, v.s) ELSE v : v \in {r}} : TRUE

execcmd(argv) == [type |-> "EXEC", argv |-> argv]

redircmd(cmd, r) ==
    [type |-> "REDIR", cmd |-> cmd, file |-> r.file, mode |-> r.mode,
     fd |-> IF r.mode = "O_RDONLY" THEN 0 ELSE 1]

pipecmd(left, right) == [type |-> "PIPE", left |-> left, right |-> right]

listcmd(left, right) == [type |-> "LIST", left |-> left, right |-> right]

backcmd(cmd) == [type |-> "BACK", cmd |-> cmd]

\* Each redirection wraps the command built so far.
Wrap(cmd, redirs) == FoldLeft(redircmd, cmd, redirs)

ModeOf(tok) == CASE tok = "<" -> "O_RDONLY" [] tok = ">" -> "O_TRUNC" [] tok = "+" -> "O_CREATE"

-----------------------------------------------------------------------------
RECURSIVE parseredirs(_, _, _), Args(_, _, _, _), parseexec(_, _), parsepipe(_, _),
          Backs(_, _, _), parseline(_, _)

\* The redirections read so far, redirs, and those at s.
parseredirs(redirs, l, s) ==
    IF ~peek(l, s, {"<", ">"}) THEN Done(redirs, s)
    ELSE LET t == gettoken(l, s)
             f == gettoken(l, t.s)
         IN  IF f.tok # "a" THEN Panic
             ELSE parseredirs(Append(redirs, [file |-> f.word, mode |-> ModeOf(t.tok)]), l, f.s)

parseblock(l, s) ==
    Then(parseline(l, gettoken(l, s).s), LAMBDA cmd, s1 :
        IF ~peek(l, s1, {")"}) THEN Panic
        ELSE Then(parseredirs(<<>>, l, gettoken(l, s1).s), LAMBDA redirs, s2 :
                 Done(Wrap(cmd, redirs), s2)))

\* The loop of parseexec().
Args(l, s, argv, redirs) ==
    LET t == gettoken(l, s)
    IN  IF peek(l, s, {"|", ")", "&", ";"}) \/ t.tok = NUL
        THEN Done(Wrap(execcmd(argv), redirs), s)
        ELSE IF t.tok # "a" \/ Len(argv) + 1 >= MAXARGS THEN Panic
        ELSE Then(parseredirs(redirs, l, t.s), LAMBDA rs, s1 : Args(l, s1, Append(argv, t.word), rs))

parseexec(l, s) ==
    IF peek(l, s, {"("}) THEN parseblock(l, s)
    ELSE Then(parseredirs(<<>>, l, s), LAMBDA redirs, s1 : Args(l, s1, <<>>, redirs))

parsepipe(l, s) ==
    Then(parseexec(l, s), LAMBDA cmd, s1 :
        IF ~peek(l, s1, {"|"}) THEN Done(cmd, s1)
        ELSE Then(parsepipe(l, gettoken(l, s1).s), LAMBDA right, s2 : Done(pipecmd(cmd, right), s2)))

\* The loop of parseline() over "&".
Backs(cmd, l, s) ==
    IF peek(l, s, {"&"}) THEN Backs(backcmd(cmd), l, gettoken(l, s).s) ELSE Done(cmd, s)

parseline(l, s) ==
    Then(parsepipe(l, s), LAMBDA c, s0 : Then(Backs(c, l, s0), LAMBDA cmd, s1 :
        IF ~peek(l, s1, {";"}) THEN Done(cmd, s1)
        ELSE Then(parseline(l, gettoken(l, s1).s), LAMBDA right, s2 : Done(listcmd(cmd, right), s2))))

-----------------------------------------------------------------------------
RECURSIVE nulterminateArgs(_), nulterminate(_), Strings(_, _)

\* Mutant: the file names of redirections are not terminated.
nulterminateArgs(cmd) ==
    CASE cmd.type = "EXEC" -> {w.eq : w \in ToSet(cmd.argv)}
      [] cmd.type \in {"REDIR", "BACK"} -> nulterminateArgs(cmd.cmd)
      [] OTHER -> nulterminateArgs(cmd.left) \cup nulterminateArgs(cmd.right)

\* The positions of the line that get a NUL.
nulterminate(cmd) ==
    CASE cmd.type = "EXEC" -> {w.eq : w \in ToSet(cmd.argv)}
      [] cmd.type = "REDIR" -> nulterminate(cmd.cmd) \cup {cmd.file.eq}
      [] cmd.type = "BACK" -> nulterminate(cmd.cmd)
      [] OTHER -> nulterminate(cmd.left) \cup nulterminate(cmd.right)

\* The command as the C code then sees it: each word is the string at q.
Strings(cmd, l) ==
    LET Str(w) == SubSeq(l, w.q, FirstIn(l, w.q, LAMBDA c : c = NUL) - 1)
    IN  CASE cmd.type = "EXEC" -> execcmd([i \in DOMAIN cmd.argv |-> Str(cmd.argv[i])])
          [] cmd.type = "REDIR" -> [cmd EXCEPT !.file = Str(@), !.cmd = Strings(@, l)]
          [] cmd.type = "BACK" -> [cmd EXCEPT !.cmd = Strings(@, l)]
          [] OTHER -> [cmd EXCEPT !.left = Strings(@, l), !.right = Strings(@, l)]

\* parsecmd(): the command, or panic("syntax").
parsecmd(l) ==
    Then(parseline(l, 1), LAMBDA cmd, s :
        IF SkipSpace(l, s) # Len(l) + 1 THEN Panic
        ELSE Done(Strings(cmd, [i \in DOMAIN l |-> IF i \in nulterminate(cmd) THEN NUL ELSE l[i]]), 0))

-----------------------------------------------------------------------------
(* The reference: tokens with their words, cut at the loosest operator.    *)

RECURSIVE Lex(_), RefLine(_), RefBack(_), RefPipe(_), RefParts(_, _, _)

Lex(l) ==
    LET word == SelectInSeq(l, LAMBDA c : c \in whitespace \cup symbols)
        n    == IF word = 0 THEN Len(l) ELSE word - 1
        From(k) == SubSeq(l, k, Len(l))
    IN  CASE l = <<>> -> <<>>
          [] n > 0 -> <<[t |-> "a", w |-> SubSeq(l, 1, n)]>> \o Lex(From(n + 1))
          [] n = 0 /\ l[1] \in whitespace -> Lex(From(2))
          [] n = 0 /\ IsPrefix(<<">", ">">>, l) -> <<[t |-> "+", w |-> <<>>]>> \o Lex(From(3))
          [] OTHER -> <<[t |-> l[1], w |-> <<>>]>> \o Lex(From(2))

Kind(ts, t) == {i \in DOMAIN ts : ts[i].t = t}

\* How many parentheses are open before token i.
Depth(ts, i) == Cardinality(Kind(ts, "(") \cap 1..i - 1) - Cardinality(Kind(ts, ")") \cap 1..i - 1)

\* ts cut at its first t outside parentheses, or whole.
Cut(ts, t, Whole(_), Parts(_, _)) ==
    LET at == {i \in Kind(ts, t) : Depth(ts, i) = 0}
    IN  IF at = {} THEN Whole(ts)
        ELSE Parts(SubSeq(ts, 1, Min(at) - 1), SubSeq(ts, Min(at) + 1, Len(ts)))

\* A command built of two parts, when both are well formed.
Both(left, right, C(_, _)) ==
    IF left.ok /\ right.ok THEN Done(C(left.val, right.val), 0) ELSE Panic

\* ts as words and redirections in any order; words only when allowed.
RefParts(ts, argv, redirs) ==
    CASE ts = <<>> -> Done([argv |-> argv, redirs |-> redirs], 0)
      [] ts # <<>> /\ ts[1].t = "a" -> RefParts(Tail(ts), Append(argv, ts[1].w), redirs)
      [] Len(ts) >= 2 /\ ts[1].t \in {"<", ">", "+"} /\ ts[2].t = "a" ->
            RefParts(SubSeq(ts, 3, Len(ts)), argv,
                     Append(redirs, [file |-> ts[2].w, mode |-> ModeOf(ts[1].t)]))
      [] OTHER -> Panic

RefExec(ts) ==
    LET close == {i \in Kind(ts, ")") : Depth(ts, i) = 1}
        inner == RefLine(SubSeq(ts, 2, Min(close) - 1))
        after == RefParts(SubSeq(ts, Min(close) + 1, Len(ts)), <<>>, <<>>)
        parts == RefParts(ts, <<>>, <<>>)
    IN  IF ts # <<>> /\ ts[1].t = "("
        THEN IF close = {} THEN Panic
             ELSE IF after.ok /\ after.val.argv # <<>> THEN Panic
             ELSE Both(inner, after, LAMBDA cmd, p : Wrap(cmd, p.redirs))
        ELSE IF ~parts.ok THEN Panic
        ELSE IF Len(parts.val.argv) >= MAXARGS THEN Panic
        ELSE Done(Wrap(execcmd(parts.val.argv), parts.val.redirs), 0)

RefPipe(ts) == Cut(ts, "|", RefExec, LAMBDA x, y : Both(RefExec(x), RefPipe(y), pipecmd))

RefBack(ts) ==
    IF ts # <<>> /\ Last(ts).t = "&" THEN Then(RefBack(Front(ts)), LAMBDA c, s : Done(backcmd(c), 0))
    ELSE RefPipe(ts)

RefLine(ts) == Cut(ts, ";", RefBack, LAMBDA x, y : Both(RefBack(x), RefLine(y), listcmd))

Reference(l) == RefLine(Lex(l))
=============================================================================
