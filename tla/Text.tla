-------------------------------- MODULE Text --------------------------------
(***************************************************************************)
(* The pure algorithms on characters: path elements and directory names    *)
(* (kernel/fs.c, kernel/string.c), the two memmove()s, and the regular     *)
(* expressions and line buffering of user/grep.c; and, from ShParse, the   *)
(* shell's parser.  A behaviour is one call: its arguments, then its       *)
(* result, which TextRight compares with a reference definition.           *)
(***************************************************************************)
EXTENDS ShParse

CONSTANTS
    DIRSIZ,     \* bytes of a directory entry's name
    BUFSIZE     \* bytes of grep's buffer

VARIABLES call, ret

textVars == <<call, ret>>

-----------------------------------------------------------------------------
(* Names.  A name is an array of DIRSIZ bytes, NUL-terminated only when    *)
(* shorter; name0 is what the caller's array held before.                  *)

name0 == [i \in 1..DIRSIZ |-> "?"]

\* The next element of path into name; more is FALSE for a null result.
skipelem(path, name) ==
    LET s   == FirstIn(path, 1, LAMBDA c : c # "/")
        e   == FirstIn(path, s, LAMBDA c : c \in {"/", NUL})
        len == e - s
    IN  [more |-> s <= Len(path),
         path |-> SubSeq(path, FirstIn(path, e, LAMBDA c : c # "/"), Len(path)),
         name |-> [i \in 1..DIRSIZ |-> IF i <= len THEN path[s + i - 1]
                                       ELSE IF i = len + 1 THEN NUL ELSE name[i]]]

RECURSIVE Names(_, _), strncmp(_, _, _)

\* The names namex() looks up, in order; the array is reused for each.
Names(path, name) ==
    LET r == skipelem(path, name)
    IN  IF r.more THEN <<r.name>> \o Names(r.path, r.name) ELSE <<>>

\* strncpy() into an array of n bytes.
strncpy(t, n) ==
    [i \in 1..n |-> IF \E j \in 1..i : At(t, j) = NUL THEN NUL ELSE t[i]]

\* strncmp(p, q, n) = 0, from byte i.
strncmp(p, q, i) ==
    \/ i > DIRSIZ
    \/ At(p, i) = At(q, i) /\ (At(p, i) = NUL \/ strncmp(p, q, i + 1))

namecmp(s, t) == strncmp(s, t, 1)

\* dirlink() of the last element of path made, then dirlookup() of the last of sought.
Lookup(made, sought) ==
    namecmp(Last(Names(sought, name0)), strncpy(Last(Names(made, name0)), DIRSIZ))

-----------------------------------------------------------------------------
(* memmove() over mem, an array of bytes: src, dst and n as in C.          *)

RECURSIVE CopyUp(_, _, _, _), CopyDown(_, _, _, _)

CopyUp(mem, dst, src, n) ==
    IF n = 0 THEN mem ELSE CopyUp([mem EXCEPT ![dst] = mem[src]], dst + 1, src + 1, n - 1)

CopyDown(mem, dst, src, n) ==
    IF n = 0 THEN mem
    ELSE CopyDown([mem EXCEPT ![dst + n - 1] = mem[src + n - 1]], dst, src, n - 1)

kmemmove(mem, dst, src, n) ==
    IF src < dst /\ src + n > dst THEN CopyDown(mem, dst, src, n) ELSE CopyUp(mem, dst, src, n)

umemmove(mem, dst, src, n) ==
    IF src > dst THEN CopyUp(mem, dst, src, n) ELSE CopyDown(mem, dst, src, n)

-----------------------------------------------------------------------------
(* grep.                                                                   *)

RECURSIVE matchhere(_, _), matchstar(_, _, _)

From(s, i) == SubSeq(s, i, Len(s))

matchhere(re, text) ==
    IF re = <<>> THEN TRUE
    ELSE IF At(re, 2) = "*" THEN matchstar(re[1], From(re, 3), text)
    ELSE IF re = <<"$">> THEN text = <<>>
    ELSE text # <<>> /\ re[1] \in {".", text[1]} /\ matchhere(Tail(re), Tail(text))

matchstar(c, re, text) ==
    \/ matchhere(re, text)
    \/ text # <<>> /\ (text[1] = c \/ c = ".") /\ matchstar(c, re, Tail(text))

match(re, text) ==
    IF At(re, 1) = "^" THEN matchhere(Tail(re), text)
    ELSE \E i \in 1..Len(text) + 1 : matchhere(re, From(text, i))

RECURSIVE Lines(_, _), grep(_, _, _, _)

\* The lines of buf that match, and what follows its last newline.
Lines(re, buf) ==
    LET q == SelectInSeq(buf, LAMBDA c : c = "\n")
        r == Lines(re, From(buf, q + 1))
        line == SubSeq(buf, 1, q - 1)
    IN  IF q = 0 THEN [out |-> <<>>, rest |-> buf]
        ELSE [r EXCEPT !.out = (IF match(re, line) THEN <<line>> ELSE <<>>) \o @]

\* grep(): buf holds m bytes; a read() returns at most chunk of those in file.
grep(re, file, chunk, buf) ==
    LET n == Min({chunk, BUFSIZE - Len(buf) - 1, Len(file)})
        r == Lines(re, buf \o SubSeq(file, 1, n))
    IN  IF n = 0 THEN <<>> ELSE r.out \o grep(re, From(file, n + 1), chunk, r.rest)

-----------------------------------------------------------------------------
\* The call's function applied to its arguments.
Result(c) ==
    CASE c.fn = "parsecmd" -> parsecmd(c.line)
      [] c.fn = "namex" -> Names(c.path, name0)
      [] c.fn = "dirlookup" -> Lookup(c.path, c.sought)
      [] c.fn = "memmove" -> <<kmemmove(c.mem, c.dst, c.src, c.n), umemmove(c.mem, c.dst, c.src, c.n)>>
      [] c.fn = "grep" -> grep(c.re, c.file, c.chunk, <<>>)

NoCall == [fn |-> "none"]

Call ==
    /\ call # NoCall /\ ret = <<>>
    /\ ret' = <<Result(call)>>
    /\ UNCHANGED call

-----------------------------------------------------------------------------
(* References.                                                             *)

RECURSIVE Split(_, _), Reach(_, _, _)

\* The pieces of s between the separators c.
Split(s, c) ==
    LET i == SelectInSeq(s, LAMBDA d : d = c)
    IN  IF i = 0 THEN <<s>> ELSE <<SubSeq(s, 1, i - 1)>> \o Split(From(s, i + 1), c)

\* The first DIRSIZ bytes of s.
Short(s) == SubSeq(s, 1, Min({DIRSIZ, Len(s)}))

Elements(path) ==
    LET full == SelectSeq(Split(path, "/"), LAMBDA s : s # <<>>)
    IN  [i \in DOMAIN full |-> Short(full[i])]

\* The string held in an array: up to its NUL, or all of it.
Held(a) == SubSeq(a, 1, FirstIn(a, 1, LAMBDA c : c = NUL) - 1)

\* The positions in text where a match of re, begun at one of S, can end.
Reach(re, text, S) ==
    LET One(c, i) == i <= Len(text) /\ c \in {".", text[i]}
        Runs(c) == {j \in 1..Len(text) + 1 :
                      \E i \in S : i <= j /\ \A k \in i..j - 1 : One(c, k)}
    IN  CASE re = <<>> -> S
          [] Len(re) >= 2 /\ re[2] = "*" -> Reach(From(re, 3), text, Runs(re[1]))
          [] re = <<"$">> -> S \cap {Len(text) + 1}
          [] OTHER -> Reach(Tail(re), text, {i + 1 : i \in {j \in S : One(re[1], j)}})

Matching(re, text) ==
    IF At(re, 1) = "^" THEN Reach(Tail(re), text, {1}) # {}
    ELSE Reach(re, text, 1..Len(text) + 1) # {}

\* The terminated lines of file that fit the buffer, up to the first that does not.
Fitting(file) ==
    LET lines == Front(Split(file, "\n"))
        long  == SelectInSeq(lines, LAMBDA s : Len(s) + 1 > BUFSIZE - 1)
    IN  IF long = 0 THEN lines ELSE SubSeq(lines, 1, long - 1)

Expected(c, r) ==
    CASE c.fn = "parsecmd" -> r = Reference(c.line)
      [] c.fn = "namex" -> [i \in DOMAIN r |-> Held(r[i])] = Elements(c.path)
      [] c.fn = "dirlookup" -> r = (Last(Elements(c.path)) = Last(Elements(c.sought)))
      [] c.fn = "memmove" ->
            \A m \in ToSet(r) :
              m = [i \in DOMAIN c.mem |->
                     IF i \in c.dst..c.dst + c.n - 1 THEN c.mem[i - c.dst + c.src] ELSE c.mem[i]]
      [] c.fn = "grep" -> r = SelectSeq(Fitting(c.file), LAMBDA s : Matching(c.re, s))

\* Every call returns what its reference definition says: the parser of sh.c
\* builds the tree of the operator grammar, and its words read back as typed
\* after nulterminate() has cut the line; namex() sees the elements of a path,
\* shortened to DIRSIZ, whatever its array held before, and an entry made by
\* dirlink() is found by dirlookup() exactly for the names with the same first
\* DIRSIZ bytes; both memmove()s copy overlapping ranges as if at once; and grep
\* prints the matching lines however its input is cut into reads.
TextRight == ret # <<>> => Expected(call, ret[1])
=============================================================================
