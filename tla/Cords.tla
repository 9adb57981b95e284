------------------------------- MODULE Cords -------------------------------
(* Cords (cord/cordbscs.c, cord/cordxtra.c): strings as trees of              *)
(* concatenations whose leaves are C strings and functions, with positions    *)
(* that cache a path and a part of a leaf.  The reference is a sequence of    *)
(* characters, kept beside the cord.                                          *)
EXTENDS Integers, Sequences, FiniteSets, SequencesExt

CONSTANTS
  MAX_DEPTH, MAX_LEFT_LEN, SHORT_LIMIT, SUBSTR_LIMIT, FUNCTION_BUF_SZ,
  LongChars,               \* sizeof(unsigned long)
  CordStrings,             \* strings that clients use
  CordStarts,              \* sequences of strings to start from: the last one, with
                           \* the others put before it one after the other
  CordFns,                 \* functions from indices to characters, and their lengths
  MaxCordLen, MaxCordOps   \* bounds

VARIABLES
  cord, val,    \* the cord, and the characters it stands for
  pos, idx,     \* a position in it, and the index the position stands for
  behind,       \* whether a position was moved back within a function
  nops
cordVars == <<cord, val, pos, idx, behind, nops>>

Nil == [k |-> "nil"]
Str(s) == [k |-> "str", s |-> s]
FnNode(f, i, sub, len) == [k |-> "fn", f |-> f, i |-> i, sub |-> sub, len |-> len, depth |-> 0]
Conc(l, r, len, depth, leftLen) ==
  [k |-> "cat", l |-> l, r |-> r, len |-> len, depth |-> depth, left_len |-> leftLen]

CORD_len(x) == IF x.k = "nil" THEN 0 ELSE IF x.k = "str" THEN Len(x.s) ELSE x.len
LEFT_LEN(x) ==
  IF x.left_len # 0 THEN x.left_len
  ELSE IF x.l.k = "str" THEN x.len - CORD_len(x.r) ELSE x.l.len
DepthOf(x) == IF x.k = "str" THEN 0 ELSE x.depth
\* CORD_index_access_fn, CORD_apply_access_fn: f is a function of the client,
\* or the string or function cord of a substring.
RECURSIVE CharOf(_, _)
CharOf(x, j) ==
  IF ~x.sub THEN x.f[((x.i + j) % Len(x.f)) + 1]
  ELSE IF x.f.k = "str" THEN x.f.s[x.i + j + 1] ELSE CharOf(x.f, x.i + j)

-----------------------------------------------------------------------------
\* Balancing: a forest of trees, shorter ones at smaller indices.
RECURSIVE MinLen(_)
MinLen(i) == IF i <= 1 THEN i + 1 ELSE MinLen(i - 1) + MinLen(i - 2)
\* Cords are far shorter than the longest that can be balanced.
ASSUME CordsAssumption == MaxCordLen < MinLen(MAX_DEPTH - 2)
NoTree == [c |-> Nil, len |-> 0]
\* What CORD_init_forest does not initialize is never used.
Garbage == [c |-> Str(<<"?">>), len |-> 1]
CORD_init_forest(len) ==
  [i \in 0..(MAX_DEPTH - 1) |->
     IF \A j \in 0..(i - 1) : MinLen(j) <= len THEN NoTree ELSE Garbage]

RECURSIVE CORD_cat(_, _)
RECURSIVE CORD_cat_char_star(_, _)
RECURSIVE CORD_balance(_)
RECURSIVE CORD_balance_insert(_, _, _)
RECURSIVE Smaller(_, _)
RECURSIVE Larger(_, _)
RECURSIVE CORD_concat_forest(_, _, _)
\* w: a forest, an index, and the concatenation of trees so far.
Taken(w) ==
  IF w.forest[w.i].c = Nil THEN [w EXCEPT !.i = @ + 1]
  ELSE [forest |-> [w.forest EXCEPT ![w.i] = NoTree], i |-> w.i + 1,
        sum |-> CORD_cat(w.forest[w.i].c, w.sum), len |-> w.len + w.forest[w.i].len]
Smaller(w, len) == IF len > MinLen(w.i + 1) THEN Smaller(Taken(w), len) ELSE w
Larger(w, len) ==
  IF len >= MinLen(w.i) THEN LET v == Taken(w) IN Larger(v, v.len) ELSE w
AddedLast(w, x, len) == [w EXCEPT !.sum = CORD_cat(@, x), !.len = @ + len]
CORD_add_forest(forest, x, len) ==
  LET v == AddedLast(Smaller([forest |-> forest, i |-> 0, sum |-> Nil, len |-> 0], len), x, len)
      w == Larger(v, v.len)
  IN  [w.forest EXCEPT ![w.i - 1] = [c |-> w.sum, len |-> w.len]]
CORD_balance_insert(forest, x, len) ==
  IF x.k = "cat" /\ (x.depth >= MAX_DEPTH \/ len < MinLen(x.depth))
  THEN CORD_balance_insert(CORD_balance_insert(forest, x.l, LEFT_LEN(x)), x.r, len - LEFT_LEN(x))
  ELSE CORD_add_forest(forest, x, len)
CORD_concat_forest(forest, w, expected) ==
  IF w.len = expected THEN w.sum ELSE CORD_concat_forest(forest, Taken(w), expected)
CORD_balance(x) ==
  IF x.k \in {"nil", "str"} THEN x
  ELSE LET forest == CORD_balance_insert(CORD_init_forest(x.len), x, x.len)
       IN  CORD_concat_forest(forest, [forest |-> forest, i |-> 0, sum |-> Nil, len |-> 0], x.len)

StoredLeft(lenx) == IF lenx <= MAX_LEFT_LEN THEN lenx ELSE 0
BalancedIfDeep(x) == IF x.depth >= MAX_DEPTH THEN CORD_balance(x) ELSE x
Node(x, lenx, y, leny, depth) ==
  BalancedIfDeep(Conc(x, y, lenx + leny, depth, StoredLeft(lenx)))
\* A short string is merged into the string at the right end, if it fits.
RightLen(x) ==
  IF x.l.k # "str" THEN x.len - x.l.len
  ELSE IF x.left_len # 0 THEN x.len - x.left_len ELSE Len(x.r.s)
CORD_cat_char_star(x, y) ==
  IF x = Nil THEN Str(y)
  ELSE IF y = <<>> THEN x
  ELSE IF x.k = "str"
  THEN IF Len(x.s) + Len(y) <= SHORT_LIMIT THEN Str(x.s \o y)
       ELSE Node(x, Len(x.s), Str(y), Len(y), 1)
  ELSE IF Len(y) <= SHORT_LIMIT \div 2 /\ x.k = "cat" /\ x.r.k = "str"
          /\ RightLen(x) + Len(y) <= SHORT_LIMIT
  THEN Node(x.l, x.len - RightLen(x), Str(x.r.s \o y), RightLen(x) + Len(y), DepthOf(x.l) + 1)
  ELSE Node(x, x.len, Str(y), Len(y), x.depth + 1)
CORD_cat(x, y) ==
  IF x = Nil THEN y
  ELSE IF y = Nil THEN x
  ELSE IF y.k = "str" THEN CORD_cat_char_star(x, y.s)
  ELSE IF x.k = "str" THEN Node(x, Len(x.s), y, y.len, y.depth + 1)
  ELSE Node(x, x.len, y, y.len, IF y.depth > x.depth THEN y.depth + 1 ELSE x.depth + 1)

\* Functions and substrings.
CORD_from_fn_inner(f, i, sub, len) ==
  LET x == FnNode(f, i, sub, len)
      s == [j \in 1..len |-> CharOf(x, j - 1)]
  IN  IF len = 0 THEN Nil
      ELSE IF len <= SHORT_LIMIT /\ \A j \in 1..len : s[j] # "nul" THEN Str(s) ELSE x
CORD_substr_closure(x, i, n) ==
  IF x.k = "fn" /\ x.sub THEN CORD_from_fn_inner(x.f, x.i + i, TRUE, n)
  ELSE CORD_from_fn_inner(x, i, TRUE, n)
RECURSIVE CORD_substr_checked(_, _, _)
PartOfRight(x, n) == IF n = CORD_len(x.r) THEN x.r ELSE CORD_substr_checked(x.r, 0, n)
CORD_substr_checked(x, i, n) ==
  CASE x.k = "str" -> IF n > SUBSTR_LIMIT THEN CORD_substr_closure(x, i, n)
                      ELSE Str(SubSeq(x.s, i + 1, i + n))
    [] x.k = "cat" ->
         LET left == LEFT_LEN(x)
             right == x.len - left
         IN  IF i >= left
             THEN IF n = right THEN x.r ELSE CORD_substr_checked(x.r, i - left, n)
             ELSE IF i + n <= left
             THEN IF n = left THEN x.l ELSE CORD_substr_checked(x.l, i, n)
             ELSE CORD_cat(IF i = 0 THEN x.l ELSE CORD_substr_checked(x.l, i, left - i),
                           PartOfRight(x, n - (left - i)))
    [] x.k = "fn" ->
         LET s == [j \in 1..n |-> CharOf(x, i + j - 1)]
         IN  IF n > SUBSTR_LIMIT \/ \E j \in 1..n : s[j] = "nul"
             THEN CORD_substr_closure(x, i, n) ELSE Str(s)
CORD_substr(x, i, n) ==
  IF i >= CORD_len(x) \/ n = 0 THEN Nil
  ELSE CORD_substr_checked(x, i, IF i + n > CORD_len(x) THEN CORD_len(x) - i ELSE n)

\* What CORD_iter5 and CORD_riter4 visit from index i.
RECURSIVE CORD_iter5(_, _)
CORD_iter5(x, i) ==
  CASE x.k = "nil" -> <<>>
    [] x.k = "str" -> SubSeq(x.s, i + 1, Len(x.s))
    [] x.k = "fn"  -> [j \in 1..(x.len - i) |-> CharOf(x, i + j - 1)]
    [] x.k = "cat" -> IF i > 0 /\ i >= LEFT_LEN(x) THEN CORD_iter5(x.r, i - LEFT_LEN(x))
                      ELSE CORD_iter5(x.l, i) \o CORD_iter5(x.r, 0)
RECURSIVE CORD_riter4(_, _)
CORD_riter4(x, i) ==
  CASE x.k = "nil" -> <<>>
    [] x.k = "str" -> Reverse(SubSeq(x.s, 1, i + 1))
    [] x.k = "fn"  -> [j \in 1..(i + 1) |-> CharOf(x, i + 1 - j)]
    [] x.k = "cat" -> IF i >= LEFT_LEN(x)
                      THEN CORD_riter4(x.r, i - LEFT_LEN(x)) \o CORD_riter4(x.l, LEFT_LEN(x) - 1)
                      ELSE CORD_riter4(x.l, i)

-----------------------------------------------------------------------------
\* Positions.  A path has pairs of a cord and its start; leaf is what of the
\* last one is cached, from start to end - 1.
NoPos == [path |-> <<>>, cur |-> 0, start |-> 0, end |-> 0, leaf |-> <<>>]
RECURSIVE Descend(_, _)
Descend(path, cur) ==
  LET top == Last(path)
  IN  IF top.c.k # "cat" THEN path
      ELSE IF cur >= top.at + LEFT_LEN(top.c)
      THEN Descend(Append(path, [c |-> top.c.r, at |-> top.at + LEFT_LEN(top.c)]), cur)
      ELSE Descend(Append(path, [c |-> top.c.l, at |-> top.at]), cur)
CORD__extend_path(p) ==
  LET path == Descend(p.path, p.cur)
      top == Last(path)
  IN  IF p.cur >= top.at + CORD_len(top.c) THEN [p EXCEPT !.path = <<>>]
      ELSE IF top.c.k = "str"
      THEN [p EXCEPT !.path = path, !.start = top.at, !.end = top.at + Len(top.c.s), !.leaf = top.c.s]
      ELSE [p EXCEPT !.path = path, !.end = 0]
CORD_set_pos(x, i) ==
  IF x = Nil THEN NoPos
  ELSE CORD__extend_path([NoPos EXCEPT !.path = <<[c |-> x, at |-> 0]>>, !.cur = i])
Valid(p) == p.path # <<>>

CORD_pos_fetch(p) ==
  IF p.end # 0
  THEN IF p.cur - p.start + 1 \in DOMAIN p.leaf THEN p.leaf[p.cur - p.start + 1] ELSE "garbage"
  ELSE CharOf(Last(p.path).c, p.cur - Last(p.path).at)

\* The path without the nodes that end here: up to a left part.
RECURSIVE UpFromRight(_)
UpFromRight(path) ==
  IF Len(path) > 1 /\ path[Len(path)].at # path[Len(path) - 1].at
  THEN UpFromRight(Front(path)) ELSE path
RECURSIVE UpFromLeft(_)
UpFromLeft(path) ==
  IF Len(path) > 1 /\ path[Len(path)].at = path[Len(path) - 1].at
  THEN UpFromLeft(Front(path)) ELSE path
BufLimit(p, top) ==
  LET left == top.at + top.c.len - p.cur IN IF left < FUNCTION_BUF_SZ THEN left ELSE FUNCTION_BUF_SZ
CORD__next(p) ==
  LET q == [p EXCEPT !.cur = @ + 1]
      top == Last(p.path)
      up == UpFromRight(p.path)
  IN  IF top.c.k # "str" /\ q.cur < top.at + top.c.len
      THEN [q EXCEPT !.start = q.cur, !.end = q.cur + BufLimit(q, top),
                     !.leaf = [j \in 1..BufLimit(q, top) |-> CharOf(top.c, q.cur + j - 1 - top.at)]]
      ELSE IF Len(up) = 1 THEN [q EXCEPT !.path = <<>>]
      ELSE CORD__extend_path([q EXCEPT !.path = Front(up)])
CORD_next(p) == IF p.cur + 1 < p.end THEN [p EXCEPT !.cur = @ + 1] ELSE CORD__next(p)
CORD__prev(p) ==
  IF p.cur = 0 THEN [p EXCEPT !.path = <<>>]
  ELSE IF p.cur - 1 >= Last(p.path).at THEN [p EXCEPT !.cur = @ - 1]
  ELSE CORD__extend_path([p EXCEPT !.cur = @ - 1, !.path = Front(UpFromLeft(@))])
CORD_prev(p) ==
  IF p.end # 0 /\ p.cur > p.start THEN [p EXCEPT !.cur = @ - 1] ELSE CORD__prev(p)

-----------------------------------------------------------------------------
\* Comparison and search, with positions.  strncmp stops at a NUL.
CharsLeft(p) == p.end - p.cur
RECURSIVE StrNCmp(_, _, _)
StrNCmp(p, q, n) ==
  IF n = 0 THEN "same"
  ELSE LET a == p.leaf[p.cur - p.start + 1]
           b == q.leaf[q.cur - q.start + 1]
       IN  IF a # b THEN "different" ELSE IF a = "nul" THEN "same"
           ELSE StrNCmp([p EXCEPT !.cur = @ + 1], [q EXCEPT !.cur = @ + 1], n - 1)
Advance(p, n) == CORD_next([p EXCEPT !.cur = @ + n - 1])
AtMost(avail, len) == IF avail > len THEN len ELSE avail
RECURSIVE NCmpFrom(_, _, _)
NCmpFrom(p, q, len) ==
  IF len <= 0 THEN "same"
  ELSE IF ~Valid(p) THEN IF Valid(q) THEN "different" ELSE "same"
  ELSE IF ~Valid(q) THEN "different"
  ELSE IF CharsLeft(p) <= 0 \/ CharsLeft(q) <= 0
  THEN IF CORD_pos_fetch(p) # CORD_pos_fetch(q) THEN "different"
       ELSE NCmpFrom(CORD_next(p), CORD_next(q), len - 1)
  ELSE LET both == IF CharsLeft(p) > CharsLeft(q) THEN CharsLeft(q) ELSE CharsLeft(p)
           n == AtMost(both, len)
       IN  IF StrNCmp(p, q, n) = "different" THEN "different"
           ELSE NCmpFrom(Advance(p, n), Advance(q, n), len - n)
CORD_ncmp(x, i, y, j, len) == NCmpFrom(CORD_set_pos(x, i), CORD_set_pos(y, j), len)

\* What is beyond the first characters.
RestMatches(x, at, s, n) ==
  CORD_len(s) = n \/ CORD_ncmp(x, at + n, s, n, CORD_len(s) - n) = "same"
RECURSIVE FindFrom(_, _, _, _, _)
\* w: the position in x, the last characters read, and where they begin.
FindFrom(x, s, w, startLen, n) ==
  IF n > 0
  THEN FindFrom(x, s, [w EXCEPT !.p = CORD_next(@), !.buf = Append(@, CORD_pos_fetch(w.p))],
                startLen, n - 1)
  ELSE IF w.buf = SubSeq(CORD_iter5(s, 0), 1, startLen)
          /\ RestMatches(x, w.at, s, startLen)
  THEN w.at
  ELSE IF w.at = CORD_len(x) - CORD_len(s) THEN -1
  ELSE FindFrom(x, s, [p |-> CORD_next(w.p), at |-> w.at + 1,
                       buf |-> Append(Tail(w.buf), CORD_pos_fetch(w.p))], startLen, 0)
CORD_str(x, start, s) ==
  IF s = Nil THEN start
  ELSE IF CORD_len(x) < start \/ CORD_len(x) - start < CORD_len(s) THEN -1
  ELSE LET n == IF CORD_len(s) > LongChars THEN LongChars ELSE CORD_len(s)
       IN  FindFrom(x, s, [p |-> CORD_set_pos(x, start), buf |-> <<>>, at |-> start], n, n)

-----------------------------------------------------------------------------
CordInit ==
  /\ \E q \in CordStarts :
       /\ cord = FoldRight(LAMBDA s, x : CORD_cat(Str(s), x), q, Nil)
       /\ val = FlattenSeq(q)
  /\ pos = NoPos /\ idx = -1 /\ behind = FALSE /\ nops = 0
Became(x, v) ==
  /\ nops < MaxCordOps /\ Len(v) <= MaxCordLen
  /\ cord' = x /\ val' = v /\ nops' = nops + 1
  /\ pos' = NoPos /\ idx' = -1 /\ behind' = FALSE
FnValue(fn) == [j \in 1..fn.len |-> fn.f[((j - 1) % Len(fn.f)) + 1]]

Part(i, n) == [j \in 1..(IF i + n > Len(val) THEN Len(val) - i ELSE n) |-> val[i + j]]

CordNext ==
  \/ \E s \in CordStrings : Became(CORD_cat(cord, Str(s)), val \o s)
  \/ \E s \in CordStrings : Became(CORD_cat(Str(s), cord), s \o val)
  \/ \E fn \in CordFns :
       Became(CORD_cat(cord, CORD_from_fn_inner(fn.f, 0, FALSE, fn.len)), val \o FnValue(fn))
  \/ Became(CORD_cat(cord, cord), val \o val)
  \/ Became(CORD_balance(cord), val)
  \/ \E i, n \in 0..Len(val) : Became(CORD_substr(cord, i, n), Part(i, n))
  \/ \E i \in 0..(Len(val) - 1) :
       /\ ~Valid(pos) /\ pos' = CORD_set_pos(cord, i) /\ idx' = i
       /\ UNCHANGED <<cord, val, behind, nops>>
  \/ /\ Valid(pos) /\ pos' = CORD_next(pos) /\ idx' = idx + 1
     /\ UNCHANGED <<cord, val, behind, nops>>
  \/ /\ Valid(pos) /\ pos' = CORD_prev(pos) /\ idx' = idx - 1
     /\ behind' = (behind \/ (Last(pos.path).c.k = "fn" /\ pos.cur = pos.start /\ pos.end # 0
                              /\ pos.cur > Last(pos.path).at))
     /\ UNCHANGED <<cord, val, nops>>
CordSpec == CordInit /\ [][CordNext]_cordVars

-----------------------------------------------------------------------------
RECURSIVE NodesRight(_)
NodesRight(x) == x.k = "cat" =>
  /\ NodesRight(x.l) /\ NodesRight(x.r)
  /\ x.len = CORD_len(x.l) + CORD_len(x.r) /\ LEFT_LEN(x) = CORD_len(x.l)
  /\ CORD_len(x.l) > 0 /\ CORD_len(x.r) > 0
  /\ x.depth = 1 + (IF DepthOf(x.l) > DepthOf(x.r) THEN DepthOf(x.l) ELSE DepthOf(x.r))
  /\ x.depth <= MAX_DEPTH
\* Types, and what every node says of itself is true: its length, the length of
\* its left part, and its depth, which is less than a path has room for.
CordTypeOK == idx \in -1..Len(val) /\ NodesRight(cord)

\* Whatever is concatenated, cut and balanced, a cord has the characters it
\* should have, forwards and backwards and from any index.
CordValue ==
  /\ CORD_len(cord) = Len(val)
  /\ \A i \in 0..(Len(val) - 1) :
       /\ CORD_iter5(cord, i) = SubSeq(val, i + 1, Len(val))
       /\ CORD_riter4(cord, i) = Reverse(SubSeq(val, 1, i + 1))

\* A position is valid as long as its index is in the cord, and has the
\* character at this index, unless it was moved back within a function beyond
\* what is cached of it.
PositionRight ==
  idx # -1 \/ Valid(pos) =>
    /\ Valid(pos) <=> idx \in 0..(Len(val) - 1)
    /\ Valid(pos) /\ ~behind => CORD_pos_fetch(pos) = val[idx + 1]
    /\ Valid(pos) => pos.cur = idx

\* "Fetch the character located at the given position."
FetchRight == Valid(pos) => CORD_pos_fetch(pos) = val[idx + 1]

Occurs(s, i) == i + Len(s) <= Len(val) /\ SubSeq(val, i + 1, i + Len(s)) = s
FirstOccurrence(s, start) ==
  LET S == {i \in start..Len(val) : Occurs(s, i)}
  IN  IF S = {} THEN -1 ELSE CHOOSE i \in S : \A j \in S : i <= j
\* CORD_str finds the first occurrence of a string, also if it goes beyond the
\* first characters, which are compared as a word, and through CORD_ncmp.
FindsFirst ==
  \A s \in CordStrings, start \in 0..Len(val) :
    CORD_str(cord, start, Str(s)) = FirstOccurrence(s, start)

\* Trees, positions and searches are faithful to the characters of the cord.
CordsSound == CordTypeOK /\ CordValue /\ PositionRight /\ FindsFirst
=============================================================================
