-------------------------------- MODULE Glob --------------------------------
(***************************************************************************)
(* glob, globfree and scandir of mlib (csrc/mlib/glob.c, scandir.c): one   *)
(* call each, over a small tree of files.                                  *)
(*                                                                         *)
(* Patterns and paths are sequences of characters, "\\" the backslash.  A  *)
(* tree t has for every node its kind, the entries readdir delivers for a  *)
(* directory ("." and ".." among them), and where a link leads; "typed"    *)
(* says whether entries carry their type, "locked" are the directories     *)
(* that cannot be opened or searched and "broken" those whose reading      *)
(* fails after the third entry.  "mem" is how many allocations succeed.    *)
(* The lengths of C, PATH_MAX and SIZE_MAX, are scaled down.               *)
(***************************************************************************)
EXTENDS Integers, SequencesExt

CONSTANTS
  PATH_MAX,   \* bytes of the buffer a path is built in
  SIZE_MAX,   \* bound of the sizes of the result
  SLOT,       \* bytes of one of its slots
  INT_MAX     \* most entries scandir counts

Null == <<"NULL">>
None == "none"
OK == "OK"

\* Path p as the names between its slashes.
Split(p) ==
  FoldLeft(LAMBDA names, c : IF c = "/" THEN Append(names, <<>>)
                             ELSE Append(Front(names), Append(Last(names), c)),
           <<<<>>>>, p)

\* strcmp puts the characters in this order.
Order == <<"*", ".", "/", "?", "[", "\\", "]", "a", "b", "h", "k", "l", "n", "x", "~">>
Rank == [c \in {Order[k] : k \in DOMAIN Order} |-> CHOOSE k \in DOMAIN Order : Order[k] = c]

Before(a, b) ==
  \E k \in 1 .. Len(b) :
    /\ k > Len(a) \/ (k <= Len(a) /\ Rank[a[k]] < Rank[b[k]])
    /\ \A j \in 1 .. k - 1 : a[j] = b[j]

-----------------------------------------------------------------------------
(* The files (the kernel, and fnmatch of the library)                      *)

Follow(t, n) == IF t.kind[n] = "lnk" THEN t.to[n] ELSE n

Found(node) == [node |-> node, err |-> None]
Missing(err) == [node |-> None, err |-> err]

\* From directory d to the file called name in it; an empty name, which a
\* slash at the end leaves, is the directory itself.
Look(t, d, name, at) ==
  CASE d = None -> Missing("ENOENT")
    [] d # None /\ t.kind[d] # "dir" -> Missing("ENOTDIR")
    [] d # None /\ t.kind[d] = "dir" /\ name = <<>> -> Found(d)
    [] d \in t.locked /\ name # <<>> -> Missing("EACCES")
    [] OTHER -> IF at = 0 THEN Missing("ENOENT") ELSE Found(t.entries[d][at].node)

StepTo(t, d, name) ==
  Look(t, d, name,
       IF d = None THEN 0 ELSE SelectInSeq(t.entries[d], LAMBDA e : e.name = name))

Lstat(t, path) ==
  IF path = <<>> THEN Missing("ENOENT")
  ELSE FoldLeft(LAMBDA r, name : IF r.err # None THEN r ELSE StepTo(t, Follow(t, r.node), name),
                Found(t.root), Split(path))

Followed(t, r) ==
  IF r.err # None THEN r
  ELSE IF Follow(t, r.node) = None THEN Missing("ENOENT") ELSE Found(Follow(t, r.node))
Stat(t, path) == Followed(t, Lstat(t, path))

Opened(t, r) == IF r.err = None /\ r.node \in t.locked THEN Missing("EACCES") ELSE r
Opendir(t, path) == IF path = <<>> THEN Found(t.root) ELSE Opened(t, Stat(t, path \o <<"/">>))

IsDir(t, r) == r.err = None /\ t.kind[r.node] = "dir"

Delivered(t, d) == IF d \in t.broken THEN SubSeq(t.entries[d], 1, 3) ELSE t.entries[d]
DType(t, n) == IF t.typed THEN t.kind[n] ELSE "unknown"

\* Does name match: "*", "?", a set in brackets, escapes; a bracket never
\* closed stands for itself.
Closing(p) == SelectInSubSeq(p, 3, Len(p), LAMBDA ch : ch = "]")

RECURSIVE Matches(_, _, _)
Matches(p, name, esc) ==
  IF p = <<>> THEN name = <<>>
  ELSE CASE p[1] = "*" ->
              \E k \in 0 .. Len(name) : Matches(Tail(p), SubSeq(name, k + 1, Len(name)), esc)
         [] p[1] = "\\" /\ esc ->
              /\ Len(p) > 1 /\ name # <<>> /\ name[1] = p[2]
              /\ Matches(SubSeq(p, 3, Len(p)), Tail(name), esc)
         [] p[1] = "[" /\ Closing(p) > 0 ->
              /\ name # <<>> /\ \E k \in 2 .. Closing(p) - 1 : p[k] = name[1]
              /\ Matches(SubSeq(p, Closing(p) + 1, Len(p)), Tail(name), esc)
         [] OTHER ->
              /\ name # <<>> /\ (p[1] = "?" \/ p[1] = name[1])
              /\ Matches(Tail(p), Tail(name), esc)

\* FNM_PERIOD: a leading period is matched by a period only.
Fnmatch(p, name, esc, period) ==
  /\ period /\ name[1] = "." =>
       p # <<>> /\ (p[1] = "." \/ (esc /\ Len(p) > 1 /\ p[1] = "\\" /\ p[2] = "."))
  /\ Matches(p, name, esc)

-----------------------------------------------------------------------------
(* The walk.  Its outcome so far is w: the matches, the calls of the       *)
(* error function, the allocations left and the error that ended it.       *)

Esc(c) == "NOESCAPE" \notin c.flags

Walking(mem) == [out |-> <<>>, said |-> 0, mem |-> mem, e |-> OK]

\* error_function(buffer, errno) || (flags & GLOB_ERR)
Trouble(w, c) ==
  [w EXCEPT !.said = @ + 1, !.e = IF c.stop \/ "ERR" \in c.flags THEN "ABORTED" ELSE OK]

MatchAppend(w, name, mark) ==
  IF w.mem < 2 THEN [w EXCEPT !.e = "NOSPACE"]
  ELSE [w EXCEPT !.mem = @ - 2,
                 !.out = Append(@, IF mark /\ name # <<>> /\ Last(name) # "/"
                                   THEN name \o <<"/">> ELSE name)]

\* The pattern is used up: is there such a file, and is it a directory?
SeenAs(t, s, type) ==
  CASE s.err # None -> type
    [] s.err = None -> IF t.kind[s.node] = "dir" THEN "dir" ELSE "reg"
TypeSeen(t, c, path, type) ==
  IF "MARK" \in c.flags /\ type \in {"unknown", "lnk"}
  THEN SeenAs(t, Stat(t, path), type) ELSE type

Complete(c, path, type, err, w) ==
  CASE type = "unknown" /\ err = "ENOENT" -> w
    [] type = "unknown" /\ err \notin {None, "ENOENT"} -> Trouble(w, c)
    [] OTHER -> MatchAppend(w, path, "MARK" \in c.flags /\ type = "dir")

\* The characters before the first wildcard, l.tail of them after the last
\* slash; "from" is where the component with the wildcard begins.
Stored(l, ch) ==
  CASE ch = "/" /\ ~l.over /\ Len(l.path \o l.tail) + 1 < PATH_MAX ->
         [l EXCEPT !.path = @ \o l.tail \o <<"/">>, !.tail = <<>>, !.br = FALSE,
                   !.fixed = TRUE, !.from = l.at + 1]
    [] ch # "/" /\ Len(l.path \o l.tail) + 1 < PATH_MAX ->
         [l EXCEPT !.tail = Append(@, ch), !.fixed = TRUE]
    [] ch # "/" /\ Len(l.path \o l.tail) + 1 >= PATH_MAX /\ l.br ->
         [l EXCEPT !.over = TRUE, !.fixed = TRUE]
    [] OTHER -> [l EXCEPT !.lost = TRUE]

Past(l) == [l EXCEPT !.at = @ + 1]
PatternEnds(l) ==
  [l EXCEPT !.path = @ \o l.tail, !.tail = <<>>, !.from = l.at, !.lost = l.over]

\* One character ch of the pattern, "next" after it; l.done at a wildcard.
ScanOne(l, ch, next, esc) ==
  CASE \/ ch \in {"*", "?"}
       \/ l.br /\ (ch = "]" \/ (ch = "\\" /\ esc /\ next = "]")) -> [l EXCEPT !.done = TRUE]
    [] ch = "\\" /\ esc /\ next = None -> [l EXCEPT !.lost = TRUE]
    [] ch = "\\" /\ esc /\ next # None /\ ~(l.br /\ next = "]") -> Past(Stored(Past(l), next))
    [] OTHER -> Past(Stored([l EXCEPT !.br = @ \/ ch = "["], ch))

RECURSIVE Literal(_, _, _)
Literal(p, esc, l) ==
  CASE l.lost \/ l.done -> l
    [] ~(l.lost \/ l.done) /\ l.at > Len(p) -> PatternEnds(l)
    [] OTHER ->
         Literal(p, esc, ScanOne(l, p[l.at], IF l.at < Len(p) THEN p[l.at + 1] ELSE None, esc))

\* while (position + 1 < PATH_MAX && *pattern == '/')
Leading(path, p) ==
  CHOOSE k \in 0 .. Len(p) :
    /\ \A j \in 1 .. k : p[j] = "/" /\ Len(path) + j < PATH_MAX
    /\ k < Len(p) => p[k + 1] # "/" \/ Len(path) + k + 1 >= PATH_MAX

LiteralFrom(path, p, esc, n) ==
  Literal(SubSeq(p, n + 1, Len(p)), esc,
          [path |-> path \o SubSeq(p, 1, n), tail |-> <<>>, at |-> 1, from |-> 1,
           br |-> FALSE, over |-> FALSE, fixed |-> FALSE, done |-> FALSE,
           lost |-> FALSE])

\* Where the component p begins with ends: at its slash, or at the backslash
\* that escapes it, 0 if it is the last.
SlashOf(p) == SelectInSeq(p, LAMBDA ch : ch = "/")
Backslashes(p, at) ==
  at - 1 - (CHOOSE k \in 0 .. at - 1 :
              (\A j \in k + 1 .. at - 1 : p[j] = "\\") /\ (k > 0 => p[k] # "\\"))
AtBackslash(p, s, esc) ==
  IF s > 0 /\ esc /\ Backslashes(p, s) % 2 = 1 THEN s - 1 ELSE s
\* A faulty variant: an escaped slash ends its component behind the backslash.
Separator_Slash(p, esc) == SlashOf(p)
Separator(p, esc) == AtBackslash(p, SlashOf(p), esc)

Dots == {<<".">>, <<".", ".">>}

\* The entries of a directory that component comp selects.
Passes(t, c, path, comp, more, entry) ==
  LET period == "PERIOD" \notin c.flags
  IN /\ more => DType(t, entry.node) \in {"unknown", "dir", "lnk"}
     /\ Len(entry.name) < PATH_MAX - Len(path)
     /\ Fnmatch(comp, entry.name, Esc(c), period)
     /\ (more /\ ~period /\ entry.name \in Dots) => Fnmatch(comp, entry.name, Esc(c), TRUE)

RECURSIVE DoGlob(_, _, _, _, _, _)

ReadFails(t, c, d, v) == IF v.e = OK /\ d \in t.broken THEN Trouble(v, c) ELSE v

\* Directory d, called path: its entries that match comp, each with the rest.
Enter(t, c, path, comp, rest, d, w) ==
  IF d.err # None THEN Trouble(w, c)
  ELSE ReadFails(t, c, d.node,
         FoldLeft(LAMBDA v, e :
                    IF v.e = OK /\ Passes(t, c, path, comp, rest # <<>>, e)
                    THEN DoGlob(t, c, path \o e.name, DType(t, e.node), rest, v) ELSE v,
                  w, Delivered(t, d.node)))

Divided(t, c, path, p, sep, w) ==
  Enter(t, c, path, IF sep = 0 THEN p ELSE SubSeq(p, 1, sep - 1),
        IF sep = 0 THEN <<>> ELSE SubSeq(p, sep, Len(p)), Opendir(t, path), w)

Onward(t, c, l, p, type, w) ==
  CASE l.lost -> w
    [] ~l.lost /\ p = <<>> ->
         Complete(c, l.path, TypeSeen(t, c, l.path, type), Lstat(t, l.path).err, w)
    [] OTHER -> Divided(t, c, l.path, p, Separator(p, Esc(c)), w)

\* What the type an entry had says of the path so far.
TypeOf(c, p, type) ==
  CASE p # <<>> /\ type # "dir" -> "unknown"
    [] p = <<>> /\ type = "unknown" /\ "MARK" \notin c.flags -> "reg"
    [] OTHER -> type

AfterLiteral(t, c, l, p, type, w) ==
  Onward(t, c, l, SubSeq(p, l.from, Len(p)), IF l.fixed THEN "unknown" ELSE type, w)
AfterSlashes(t, c, path, p, n, type, w) ==
  AfterLiteral(t, c, LiteralFrom(path, p, Esc(c), n), SubSeq(p, n + 1, Len(p)), type, w)
DoGlob(t, c, path, type, p, w) ==
  AfterSlashes(t, c, path, p, Leading(path, p), TypeOf(c, p, type), w)

-----------------------------------------------------------------------------
(* The sort of both files, on slots numbered from 0 as there               *)

Slots(s) == [k \in 0 .. Len(s) - 1 |-> s[k + 1]]
Swap(a, j, k) == [a EXCEPT ![j] = a[k], ![k] = a[j]]
Child(a, root, end) ==
  IF 2 * root + 1 < end /\ Before(a[2 * root + 1], a[2 * root + 2])
  THEN 2 * root + 2 ELSE 2 * root + 1

RECURSIVE SiftDown(_, _, _)
Sunk(a, root, child, end) ==
  IF Before(a[root], a[child]) THEN SiftDown(Swap(a, root, child), child, end) ELSE a
SiftDown(a, root, end) ==
  IF end = 0 \/ root > (end - 1) \div 2 THEN a ELSE Sunk(a, root, Child(a, root, end), end)

Heap(items, count) ==
  FoldLeft(LAMBDA a, start : SiftDown(a, start, count - 1), items,
           [k \in 1 .. (count - 2) \div 2 + 1 |-> (count - 2) \div 2 + 1 - k])
SortSlots(items, count) ==
  FoldLeft(LAMBDA a, end : SiftDown(Swap(a, 0, end), 0, end - 1), Heap(items, count),
           [k \in 1 .. count - 1 |-> count - k])

Listed(a, count) == [k \in 1 .. count |-> a[k - 1]]
Sorted(s) == IF Len(s) < 2 THEN s ELSE Listed(SortSlots(Slots(s), Len(s)), Len(s))

-----------------------------------------------------------------------------
(* glob: call c on result g                                                *)

Fresh(offs) == [offs |-> offs, pathc |-> 0, pathv |-> <<>>]
Globfree(g) == [g EXCEPT !.pathv = <<>>, !.pathc = 0]

\* mlib_glob_result_size: the slots of the result, 0 if there are too many.
ResultSize(offset, old, count) ==
  IF \/ offset > SIZE_MAX - old \/ offset + old = SIZE_MAX
     \/ count > SIZE_MAX - (offset + old) - 1
     \/ offset + old + count + 1 > SIZE_MAX \div SLOT
  THEN 0 ELSE offset + old + count + 1

\* The tilde: the directory the walk starts in, Null if it is not known.
TildeEnd(p) == IF Contains(p, "/") THEN SlashOf(p) ELSE Len(p) + 1
HomeDir(t, end, more) ==
  CASE end > 2 \/ t.home = Null \/ Len(t.home) > PATH_MAX - 2 -> Null
    [] OTHER -> IF more THEN t.home \o <<"/">> ELSE t.home
Home(t, p) == HomeDir(t, TildeEnd(p), TildeEnd(p) <= Len(p))
Tilde(c) == "TILDE" \in c.flags /\ c.pattern # <<>> /\ c.pattern[1] = "~"
AfterTilde(p) == SubSeq(p, TildeEnd(p) + 1, Len(p))

WalkFrom(t, c, start, p) ==
  IF start = Null THEN [Walking(c.mem - 1) EXCEPT !.e = "NOMATCH"]
  ELSE DoGlob(t, c, start, "unknown", p, Walking(c.mem - 1))
Walk(t, c) ==
  CASE c.pattern = <<>> -> Walking(c.mem)
    [] c.pattern # <<>> /\ c.mem = 0 -> [Walking(0) EXCEPT !.e = "NOSPACE"]
    [] OTHER -> IF Tilde(c) THEN WalkFrom(t, c, Home(t, c.pattern), AfterTilde(c.pattern))
                ELSE WalkFrom(t, c, <<>>, c.pattern)

Returned(g, ret, said) == [g |-> g, ret |-> ret, said |-> said]

\* The old paths and the new, with the offset before them and a null behind.
KeptPaths(old, base) ==
  IF old.pathv = <<>> THEN [k \in 1 .. base |-> Null] ELSE SubSeq(old.pathv, 1, base)
Stow(g, c, offset, old, w, names) ==
  IF ResultSize(offset, old.pathc, Len(names)) = 0 \/ w.mem = 0
  THEN Returned(g, "NOSPACE", w.said)
  ELSE Returned([g EXCEPT !.pathv = KeptPaths(old, offset + old.pathc)
                                      \o (IF "NOSORT" \in c.flags THEN names
                                          ELSE Sorted(names))
                                      \o <<Null>>,
                          !.pathc = old.pathc + Len(names)], w.e, w.said)

\* A faulty variant: without a match an appending call starts afresh.
Collect_Clears(g, c, offset, old, w) ==
  CASE w.e = "NOSPACE" \/ (w.e = OK /\ w.out = <<>>) -> Returned(Fresh(offset), w.e, w.said)
    [] OTHER -> Stow(g, c, offset, old, w, w.out)

Collect(g, c, offset, old, w) ==
  CASE w.e = "NOSPACE" -> Returned(g, "NOSPACE", w.said)
    [] w.e # "NOSPACE" /\ w.out = <<>> /\ "NOCHECK" \in c.flags ->
         IF w.mem < 2 THEN Returned(g, "NOSPACE", w.said)
         ELSE Stow(g, c, offset, old, [w EXCEPT !.mem = @ - 2], <<c.pattern>>)
    [] w.e = OK /\ w.out = <<>> /\ "NOCHECK" \notin c.flags -> Returned(g, "NOMATCH", w.said)
    [] OTHER -> Stow(g, c, offset, old, w, w.out)

GlobFrom(t, g, c, offset) ==
  IF "APPEND" \in c.flags THEN Collect(g, c, offset, g, Walk(t, c))
  ELSE Collect(Fresh(offset), c, offset, Fresh(offset), Walk(t, c))

OffsetOf(g, c) == IF "DOOFFS" \in c.flags THEN g.offs ELSE 0
Glob(t, g, c) == GlobFrom(t, g, c, OffsetOf(g, c))

-----------------------------------------------------------------------------
(* scandir: the entries selected of a directory, in the order of a         *)
(* comparison, if there is one; a room grows as the entries come           *)

Capacity(n) == 2 * n + 1
ENOMEM == "ENOMEM"

\* No room for one more, or no way to get it.
Stuck(s, grows) ==
  \/ Len(s.items) = INT_MAX
  \/ grows /\ (s.cap > (SIZE_MAX - 1) \div 2 \/ Capacity(s.cap) > SIZE_MAX \div SLOT)
  \/ s.mem < (IF grows THEN 2 ELSE 1)

TakeEntry(s, entry, grows) ==
  IF Stuck(s, grows) THEN [s EXCEPT !.errno = ENOMEM]
  ELSE [s EXCEPT !.items = Append(@, entry),
                 !.cap = IF grows THEN Capacity(@) ELSE @,
                 !.mem = @ - (IF grows THEN 2 ELSE 1)]

Scanned(s, ordered) ==
  IF s.errno # None THEN [ret |-> -1, names |-> Null, errno |-> s.errno]
  ELSE [ret |-> Len(s.items), errno |-> None,
        names |-> IF ordered THEN Sorted(s.items) ELSE s.items]
AtEnd(t, d, s) == IF s.errno = None /\ d \in t.broken THEN [s EXCEPT !.errno = "EIO"] ELSE s
ScanOpen(t, d, selected, ordered, mem) ==
  IF d.err # None THEN [ret |-> -1, names |-> Null, errno |-> d.err]
  ELSE Scanned(AtEnd(t, d.node,
         FoldLeft(LAMBDA s, e :
                    IF s.errno # None \/ e.name \notin selected THEN s
                    ELSE TakeEntry(s, e.name, Len(s.items) = s.cap),
                  [items |-> <<>>, cap |-> 0, mem |-> mem, errno |-> None],
                  Delivered(t, d.node))), ordered)
ScanDir(t, path, selected, ordered, mem) ==
  ScanOpen(t, Opendir(t, path), selected, ordered, mem)

-----------------------------------------------------------------------------
(* What they promise: a pattern taken component by component               *)

Comps(p, esc) ==
  LET names == Split(p)
  IN [k \in DOMAIN names |->
        IF k < Len(names) /\ esc /\ Backslashes(names[k], Len(names[k]) + 1) % 2 = 1
        THEN Front(names[k]) ELSE names[k]]

Bare(p, k, esc) == ~(esc /\ Backslashes(p, k) % 2 = 1)
IsWild(p, esc) ==
  \E k \in DOMAIN p :
    \/ p[k] \in {"*", "?"} /\ Bare(p, k, esc)
    \/ p[k] = "]" /\ \E j \in 1 .. k - 1 : p[j] = "[" /\ Bare(p, j, esc)
Unquoted(p, esc) ==
  LET kept == {k \in DOMAIN p : p[k] # "\\" \/ ~Bare(p, k, esc) \/ ~esc}
  IN [n \in 1 .. Cardinality(kept) |->
        p[CHOOSE k \in kept : Cardinality({j \in kept : j < k}) = n - 1]]
Unfinished(p, esc) == p # <<>> /\ esc /\ Last(p) = "\\" /\ Bare(p, Len(p), esc)

Fitting(paths) == {path \in paths : Len(path) < PATH_MAX}
Starts(paths, k) == Fitting(IF k = 1 THEN paths ELSE {b \o <<"/">> : b \in paths})

\* The names a component selects in directory d, with more behind it or not.
Selects(t, c, comp, more, x) ==
  /\ Fnmatch(comp, x.name, Esc(c), "PERIOD" \notin c.flags)
  /\ more => /\ DType(t, x.node) # "reg"
             /\ x.name \in Dots => Fnmatch(comp, x.name, Esc(c), TRUE)
Chosen(t, c, d, comp, more) ==
  IF d.err # None THEN {}
  ELSE {e.name : e \in {x \in Range(Delivered(t, d.node)) : Selects(t, c, comp, more, x)}}

Step(t, c, paths, comps, k) ==
  Fitting(IF IsWild(comps[k], Esc(c))
          THEN UNION {{b \o name :
                         name \in Chosen(t, c, Opendir(t, b), comps[k], k < Len(comps))} :
                        b \in Starts(paths, k)}
          ELSE IF Unfinished(comps[k], Esc(c)) THEN {}
          ELSE {b \o Unquoted(comps[k], Esc(c)) : b \in Starts(paths, k)})

Levels(t, c, start, comps) ==
  LET level[k \in 0 .. Len(comps)] ==
        IF k = 0 THEN {start} ELSE Step(t, c, level[k - 1], comps, k)
  IN level

Marked(t, c, p) ==
  IF "MARK" \in c.flags /\ Last(p) # "/" /\ IsDir(t, Stat(t, p)) THEN p \o <<"/">> ELSE p
Existing(t, c, last, paths) ==
  {Marked(t, c, p) : p \in {q \in paths : IsWild(last, Esc(c)) \/ Lstat(t, q).err = None}}

Unreadable(t, d) == d.err # None \/ d.node \in t.broken
Troubles(t, c, comps, level) ==
  {<<k, b>> \in UNION {{k} \X Starts(level[k - 1], k) : k \in DOMAIN comps} :
     IsWild(comps[k], Esc(c)) /\ Unreadable(t, Opendir(t, b))}
  \cup {<<0, p>> : p \in {q \in level[Len(comps)] :
          ~IsWild(Last(comps), Esc(c)) /\ Lstat(t, q).err \notin {None, "ENOENT"}}}

Promise(paths, troubles, lost) == [paths |-> paths, troubles |-> troubles, lost |-> lost]
PromiseOf(t, c, comps, level) ==
  Promise(Existing(t, c, Last(comps), level[Len(comps)]), Cardinality(Troubles(t, c, comps, level)),
          FALSE)
PromiseBy(t, c, start, comps) == PromiseOf(t, c, comps, Levels(t, c, start, comps))
\* What HOME says is looked for only if more than the tilde is, or a mark.
PromiseFrom(t, c, start, p) ==
  CASE start = Null -> Promise({}, 0, TRUE)
    [] start # Null /\ p = <<>> /\ "MARK" \notin c.flags -> Promise({start}, 0, FALSE)
    [] OTHER -> PromiseBy(t, c, start, Comps(p, Esc(c)))
Promised(t, c) ==
  CASE c.pattern = <<>> -> Promise({}, 0, FALSE)
    [] c.pattern # <<>> /\ Tilde(c) ->
         PromiseFrom(t, c, Home(t, c.pattern), AfterTilde(c.pattern))
    [] OTHER -> PromiseFrom(t, c, <<>>, c.pattern)

Ascending(s) == \A k \in 1 .. Len(s) - 1 : Before(s[k], s[k + 1])

\* The result holds the offset's nulls, what was there, then names, in order
\* unless asked not to be, and a null.
NamesHeld(names, c, paths, exactly) ==
  /\ IF exactly THEN Range(names) = paths ELSE Range(names) \subseteq paths
  /\ Len(names) = Cardinality(Range(names))
  /\ "NOSORT" \notin c.flags => Ascending(names)
HoldsFrom(g, old, c, base, paths, exactly) ==
  /\ g.pathc = old.pathc + Len(g.pathv) - base - 1 /\ g.offs = old.offs
  /\ IF old.pathv # <<>> THEN SubSeq(g.pathv, 1, base) = SubSeq(old.pathv, 1, base)
     ELSE \A k \in 1 .. base : g.pathv[k] = Null
  /\ Last(g.pathv) = Null
  /\ NamesHeld(SubSeq(g.pathv, base + 1, Len(g.pathv) - 1), c, paths, exactly)

\* The promise, and the paths that a pattern without a match may stand for.
KeepsTo(promise, paths, aborts, old, c, base, r) ==
  CASE r.ret = "NOSPACE" ->
         /\ \/ c.mem < 2 * Cardinality(paths) + 2
            \/ base + Cardinality(paths) + 1 > SIZE_MAX \div SLOT
         /\ r.g = old
    [] r.ret = "ABORTED" ->
         /\ aborts /\ r.said > 0
         /\ HoldsFrom(r.g, old, c, base, promise.paths \cup {c.pattern}, FALSE)
    [] r.ret = "NOMATCH" /\ ~promise.lost ->
         ~aborts /\ paths = {} /\ r.g = old /\ r.said = promise.troubles
    [] r.ret = "NOMATCH" /\ promise.lost -> HoldsFrom(r.g, old, c, base, paths, TRUE)
    [] r.ret = OK ->
         /\ ~aborts /\ ~promise.lost /\ r.said = promise.troubles
         /\ HoldsFrom(r.g, old, c, base, paths, TRUE)
Keeps(promise, old, c, offset, r) ==
  KeepsTo(promise,
          IF promise.paths = {} /\ "NOCHECK" \in c.flags THEN {c.pattern} ELSE promise.paths,
          promise.troubles > 0 /\ (c.stop \/ "ERR" \in c.flags), old, c, offset + old.pathc, r)

GlobExact(t, g, c, r) ==
  Keeps(Promised(t, c), IF "APPEND" \in c.flags THEN g ELSE Fresh(OffsetOf(g, c)), c,
        OffsetOf(g, c), r)

\* All the entries selected, each once, or an error and nothing.
ScanDirHas(wanted, ordered, mem, r) ==
  CASE r.ret = -1 ->
         /\ r.names = Null /\ r.errno = ENOMEM
         /\ \/ mem < 2 * Len(wanted) \/ Len(wanted) > INT_MAX
            \/ 2 * Len(wanted) > SIZE_MAX \div SLOT
    [] r.ret # -1 ->
         /\ r.ret = Len(r.names)
         /\ IF ordered THEN Ascending(r.names) /\ Range(r.names) = Range(wanted)
            ELSE r.names = wanted
WantedOf(entries, selected) ==
  SelectSeq([k \in DOMAIN entries |-> entries[k].name], LAMBDA name : name \in selected)
ScanDirKeeps(t, d, selected, ordered, mem, r) ==
  IF Unreadable(t, d) THEN r.ret = -1 /\ r.names = Null /\ r.errno # None
  ELSE ScanDirHas(WantedOf(t.entries[d.node], selected), ordered, mem, r)
ScanDirExact(t, path, selected, ordered, mem, r) ==
  ScanDirKeeps(t, Opendir(t, path), selected, ordered, mem, r)

\* The sort leaves the same items, no one before a smaller.
SortExact(s, r) ==
  /\ \A k \in 1 .. Len(r) - 1 : ~Before(r[k + 1], r[k])
  /\ Len(r) = Len(s)
  /\ \A x \in Range(s) :
       Cardinality({k \in DOMAIN r : r[k] = x}) = Cardinality({k \in DOMAIN s : s[k] = x})
=============================================================================
