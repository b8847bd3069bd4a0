--------------------------- MODULE ShopifyOrderProofs ---------------------------
(***************************************************************************)
(* Of ShopifyOrder, for any order, callers, keys and requests: it keeps    *)
(* its types, an edit is made as a whole and as it was asked for, and one  *)
(* that adds a variant once does so once, although the ledger alone lets a *)
(* replay make an effect again after a rollback (EffectAtMostOnce does not *)
(* hold).                                                                  *)
(*                                                                         *)
(* The argument: the order's lines are changed by commits only, and a      *)
(* commit removes no line.  So what a session could set when it began can  *)
(* be set when it commits, on an order that others have edited since, and  *)
(* what is staged is the whole work, made of all lines at once: the work's *)
(* sets come before its additions, so that a line's id is resolved the     *)
(* same way throughout, and an addition is not set by the edit it is of.   *)
(* A session of an edit that was committed before begins with a line of    *)
(* each variant it adds, and Shopify refuses to stage one that must not be *)
(* there twice; a session that lacks a change is not committed.  That no   *)
(* other session of the key is committed meanwhile is the ledger's         *)
(* OneHolderPerKey.                                                        *)
(***************************************************************************)
EXTENDS ShopifyOrder, WellFoundedInduction, TLAPS

-------------------------------------------------------------------------------
(* Naturals, and recursive functions over 0 .. N. *)

(* A set of naturals has a least one, which is its minimum. *)
LEMMA MinIsIn ==
  ASSUME NEW I, I \subseteq Nat, I # {}
  PROVE  Min(I) \in I /\ \A n \in I : Min(I) <= n
<1> DEFINE R == OpToRel(<, Nat)
<1>1. IsWellFoundedOn(R, Nat)
  BY NatLessThanWellFounded
<1>2. \A x, y \in Nat : x < y => <<x, y>> \in R
  BY DEF OpToRel
<1> HIDE DEF R
<1>3. PICK x \in I : \A y \in I : ~ (<<y, x>> \in R)
  BY <1>1, WFMin
<1>4. ASSUME NEW y \in I PROVE x <= y
  <2>1. ~(y < x)
    BY <1>2, <1>3
  <2>2. x \in Int /\ y \in Int
    OBVIOUS
  <2> QED
    BY <2>1, <2>2
<1> QED
  BY <1>4 DEF Min

(* What holds at 0 and passes from n - 1 to n holds up to N. *)
LEMMA UpTo ==
  ASSUME NEW N \in Nat, NEW T, 0 \in T,
         \A n \in 1 .. N : n - 1 \in T => n \in T
  PROVE  \A n \in 0 .. N : n \in T
<1> DEFINE Missing == {n \in 0 .. N : n \notin T}
<1>1. SUFFICES ASSUME Missing # {} PROVE FALSE
  OBVIOUS
<1>2. Missing \subseteq Nat
  OBVIOUS
<1> HIDE DEF Missing
<1>3. PICK x \in Missing : \A y \in Missing : x <= y
  BY <1>1, <1>2, MinIsIn
<1>4. x \in 1 .. N
  BY <1>3 DEF Missing
<1>5. x - 1 \in T
  <2>1. x - 1 \in 0 .. N /\ ~(x <= x - 1)
    BY <1>4
  <2> QED
    BY <1>3, <2>1 DEF Missing
<1> QED
  BY <1>3, <1>4, <1>5 DEF Missing

(* The elements of a sequence and one more. *)
LEMMA Appended ==
  ASSUME NEW C, NEW old \in Seq(C), NEW e \in C
  PROVE  /\ Append(old, e) \in Seq(C)
         /\ \A j \in DOMAIN old : j \in DOMAIN Append(old, e) /\ Append(old, e)[j] = old[j]
         /\ \A j \in DOMAIN Append(old, e) :
              \/ j \in DOMAIN old /\ Append(old, e)[j] = old[j]
              \/ j = Len(old) + 1 /\ Append(old, e)[j] = e
         /\ Len(old) + 1 \in DOMAIN Append(old, e) /\ Append(old, e)[Len(old) + 1] = e
         /\ Len(Append(old, e)) = Len(old) + 1
<1>1. /\ Append(old, e) \in Seq(C) /\ Len(old) \in Nat
      /\ DOMAIN old = 1 .. Len(old) /\ DOMAIN Append(old, e) = 1 .. Len(old) + 1
      /\ Len(Append(old, e)) = Len(old) + 1
  OBVIOUS
<1>2. /\ \A j \in 1 .. Len(old) : Append(old, e)[j] = old[j]
      /\ Append(old, e)[Len(old) + 1] = e
  OBVIOUS
<1>3. Len(old) + 1 \in 1 .. Len(old) + 1
  BY <1>1
<1>4. \A j \in 1 .. Len(old) + 1 : j \in 1 .. Len(old) \/ j = Len(old) + 1
  BY <1>1
<1>5. \A j \in 1 .. Len(old) : j \in 1 .. Len(old) + 1
  BY <1>1
<1> QED
  BY <1>1, <1>2, <1>3, <1>4, <1>5

\* f begins with first and goes on by the steps up to N.
Steps(N, X) == [1 .. N -> [X -> X]]
Iterates(f, first, step, N, X) ==
  /\ f \in [0 .. N -> X] /\ f[0] = first
  /\ \A n \in 1 .. N : f[n] = step[n][f[n - 1]]

(* There is one. *)
LEMMA Iteration ==
  ASSUME NEW X, NEW N \in Nat, NEW first \in X, NEW step \in Steps(N, X)
  PROVE  \E f : Iterates(f, first, step, N, X)
<1> DEFINE Upto(m, f) == Iterates(f, first, step, m, X)
           T == {m \in 0 .. N : \E f : Upto(m, f)}
<1> USE DEF Iterates, Steps
<1>1. 0 \in T
  <2>1. Upto(0, [n \in 0 .. 0 |-> first])
    OBVIOUS
  <2>2. 0 \in 0 .. N
    OBVIOUS
  <2> HIDE DEF Upto
  <2> QED
    BY <2>1, <2>2
<1>2. ASSUME NEW m \in 1 .. N, m - 1 \in T PROVE m \in T
  <2>1. PICK f : Upto(m - 1, f)
    BY <1>2
  <2> DEFINE g == [n \in 0 .. m |-> IF n = m THEN step[m][f[m - 1]] ELSE f[n]]
  <2>2. f[m - 1] \in X
    BY <2>1
  <2>3. step[m][f[m - 1]] \in X
    BY <2>2
  <2>4. g \in [0 .. m -> X] /\ g[0] = first
    BY <2>1, <2>3
  <2>5. ASSUME NEW n \in 1 .. m PROVE g[n] = step[n][g[n - 1]]
    <3>1. CASE n = m
      BY <3>1
    <3>2. CASE n # m
      BY <2>1, <3>2
    <3> QED
      BY <3>1, <3>2
  <2>6. Upto(m, g)
    BY <2>4, <2>5
  <2> HIDE DEF Upto, g
  <2> QED
    BY <2>6
<1> HIDE DEF T
<1>3. \A m \in 0 .. N : m \in T
  <2>1. \A m \in 1 .. N : m - 1 \in T => m \in T
    BY <1>2
  <2> QED
    BY <1>1, <2>1, UpTo
<1>4. N \in 0 .. N
  OBVIOUS
<1> QED
  BY <1>3, <1>4 DEF T

(* The function in Pick. *)
IsPicked(picked, seq, S) ==
  picked = [n \in 0 .. Len(seq) |->
              IF n = 0 THEN <<>>
              ELSE IF n \in S THEN Append(picked[n - 1], seq[n]) ELSE picked[n - 1]]

(* Pick is the last value of such a function. *)
LEMMA PickIs ==
  ASSUME NEW C, NEW seq \in Seq(C), NEW S
  PROVE  \E picked : IsPicked(picked, seq, S) /\ Pick(seq, S) = picked[Len(seq)]
<1> DEFINE N == Len(seq)
           X == Seq(C)
           first == <<>>
           step == [n \in 1 .. N |-> [s \in X |-> IF n \in S THEN Append(s, seq[n]) ELSE s]]
<1>1. N \in Nat /\ first \in X
  OBVIOUS
<1>2. step \in Steps(N, X)
  BY DEF Steps
<1>3. PICK f \in [0 .. N -> X] : f[0] = first /\ \A n \in 1 .. N : f[n] = step[n][f[n - 1]]
  <2> HIDE DEF step, N, X, first
  <2>1. PICK f : Iterates(f, first, step, N, X)
    BY <1>1, <1>2, Iteration
  <2> QED
    BY <2>1 DEF Iterates
<1>4. ASSUME NEW n \in 1 .. N
      PROVE  f[n] = IF n \in S THEN Append(f[n - 1], seq[n]) ELSE f[n - 1]
  <2>1. f[n - 1] \in X
    <3>1. n - 1 \in 0 .. N
      BY <1>1
    <3> HIDE DEF step, N, X
    <3> QED
      BY <1>3, <3>1
  <2> QED
    BY <1>3, <2>1
<1>5. IsPicked(f, seq, S)
  <2>1. \A n \in 0 .. N : n = 0 \/ n \in 1 .. N
    BY <1>1
  <2>2. \A n \in 0 .. N : f[n] = IF n = 0 THEN <<>>
                                ELSE IF n \in S THEN Append(f[n - 1], seq[n]) ELSE f[n - 1]
    BY <1>1, <1>3, <1>4, <2>1
  <2> QED
    BY <1>3, <2>2 DEF IsPicked
<1> QED
  BY <1>5 DEF Pick, IsPicked

(* One more, greater than all of a listing, comes last in it. *)
LEMMA ListedNext ==
  ASSUME NEW A, NEW n \in Nat, NEW L \in Nat, \A a \in A : a \in Nat /\ a < n,
         NEW f \in Listings(A, L)
  PROVE  [j \in 1 .. L + 1 |-> IF j = L + 1 THEN n ELSE f[j]] \in Listings(A \cup {n}, L + 1)
<1> DEFINE g == [j \in 1 .. L + 1 |-> IF j = L + 1 THEN n ELSE f[j]]
<1>1. /\ f \in [1 .. L -> A]
      /\ \A i, j \in 1 .. L : i < j => f[i] < f[j]
      /\ \A s \in A : \E i \in 1 .. L : f[i] = s
  BY DEF Listings
<1>2. \A j \in 1 .. L + 1 : j = L + 1 \/ j \in 1 .. L
  OBVIOUS
<1>3. L + 1 \in 1 .. L + 1 /\ \A j \in 1 .. L : j \in 1 .. L + 1 /\ j # L + 1
  OBVIOUS
<1>4. g[L + 1] = n /\ \A j \in 1 .. L : g[j] = f[j]
  BY <1>3
<1>5. g \in [1 .. L + 1 -> A \cup {n}]
  BY <1>1, <1>2
<1> HIDE DEF g
<1>6. ASSUME NEW i \in 1 .. L + 1, NEW j \in 1 .. L + 1, i < j PROVE g[i] < g[j]
  <2>1. i \in 1 .. L
    BY <1>6
  <2>2. f[i] \in A
    BY <1>1, <2>1
  <2> QED
    BY <1>1, <1>2, <1>4, <1>6, <2>1, <2>2
<1>7. ASSUME NEW s \in A \cup {n} PROVE \E i \in 1 .. L + 1 : g[i] = s
  <2>1. CASE s \in A
    BY <1>1, <1>3, <1>4, <2>1
  <2>2. CASE s = n
    BY <1>3, <1>4, <2>2
  <2> QED
    BY <2>1, <2>2
<1>8. g \in Listings(A \cup {n}, L + 1)
  BY <1>5, <1>6, <1>7 DEF Listings
<1> QED
  BY <1>8 DEF g

(* Pick(seq, S) is the elements of seq at S, in order. *)
LEMMA Picked ==
  ASSUME NEW C, NEW seq \in Seq(C), NEW S, S \subseteq DOMAIN seq
  PROVE  /\ Pick(seq, S) \in Seq(C)
         /\ \E f \in Listings(S, Len(Pick(seq, S))) :
              \A j \in 1 .. Len(Pick(seq, S)) : Pick(seq, S)[j] = seq[f[j]]
<1>1. PICK picked : IsPicked(picked, seq, S) /\ Pick(seq, S) = picked[Len(seq)]
  BY PickIs
<1> DEFINE N == Len(seq)
           Lists(f, n) == /\ f \in Listings(S \cap 1 .. n, Len(picked[n]))
                          /\ \A j \in 1 .. Len(picked[n]) : picked[n][j] = seq[f[j]]
           T == {n \in 0 .. N : picked[n] \in Seq(C) /\ \E f : Lists(f, n)}
<1>2. N \in Nat /\ DOMAIN seq = 1 .. N
  OBVIOUS
<1>3. picked[0] = <<>>
  BY <1>1, <1>2 DEF IsPicked
<1>4. \A n \in 1 .. N :
        picked[n] = IF n \in S THEN Append(picked[n - 1], seq[n]) ELSE picked[n - 1]
  <2>1. \A n \in 1 .. N : n \in 0 .. N /\ n # 0
    BY <1>2
  <2> QED
    BY <1>1, <2>1 DEF IsPicked
<1>5. 0 \in T
  <2>1. 0 \in 0 .. N /\ 1 .. 0 = {}
    BY <1>2
  <2>2. picked[0] \in Seq(C) /\ Len(picked[0]) = 0
    BY <1>3
  <2>3. [j \in {} |-> 0] \in Listings({}, 0)
    BY DEF Listings
  <2>4. S \cap 1 .. 0 = {}
    BY <2>1
  <2>5. Lists([j \in {} |-> 0], 0)
    BY <2>1, <2>2, <2>3, <2>4
  <2> HIDE DEF Lists
  <2> QED
    BY <2>1, <2>2, <2>5
<1>6. ASSUME NEW n \in 1 .. N, n - 1 \in T PROVE n \in T
  <2>1. PICK f : Lists(f, n - 1)
    BY <1>6
  <2>2. /\ picked[n - 1] \in Seq(C) /\ seq[n] \in C /\ n \in 0 .. N /\ n \in Nat
        /\ \A i \in 1 .. n : i = n \/ i \in 1 .. n - 1
        /\ \A i \in 1 .. n - 1 : i \in 1 .. n /\ i < n /\ i \in Nat
        /\ n \in 1 .. n
    BY <1>2, <1>6
  <2>3. CASE n \notin S
    <3>1. picked[n] = picked[n - 1]
      BY <1>4, <2>3
    <3>2. S \cap 1 .. n = S \cap 1 .. n - 1
      BY <2>2, <2>3
    <3>3. Lists(f, n)
      BY <2>1, <3>1, <3>2
    <3> HIDE DEF Lists
    <3> QED
      BY <2>2, <3>1, <3>3
  <2>4. CASE n \in S
    <3>1. PICK old, e, new :
            /\ old \in Seq(C) /\ e \in C
            /\ old = picked[n - 1] /\ e = seq[n] /\ new = picked[n] /\ new = Append(old, e)
      BY <1>4, <2>2, <2>4
    <3>2. PICK L \in Nat : L = Len(old)
      BY <3>1
    <3>3. /\ new \in Seq(C) /\ Len(new) = L + 1 /\ DOMAIN old = 1 .. L
          /\ \A j \in DOMAIN old : new[j] = old[j]
          /\ new[L + 1] = e
      BY <3>1, <3>2, Appended
    <3>4. PICK A : A = S \cap 1 .. n - 1
      OBVIOUS
    <3>5. A \cup {n} = S \cap 1 .. n /\ \A a \in A : a \in Nat /\ a < n
      BY <2>2, <2>4, <3>4
    <3>6. f \in Listings(A, L) /\ \A j \in 1 .. L : old[j] = seq[f[j]]
      BY <2>1, <3>1, <3>2, <3>4
    <3>7. PICK g : g = [j \in 1 .. L + 1 |-> IF j = L + 1 THEN n ELSE f[j]]
      OBVIOUS
    <3>8. g \in Listings(A \cup {n}, L + 1)
      BY <2>2, <3>5, <3>6, <3>7, ListedNext
    <3>9. ASSUME NEW j \in 1 .. L + 1 PROVE new[j] = seq[g[j]]
      <4>1. CASE j = L + 1
        BY <3>1, <3>3, <3>7, <4>1
      <4>2. CASE j \in 1 .. L
        <5>1. g[j] = f[j] /\ new[j] = old[j]
          BY <3>2, <3>3, <3>7, <4>2
        <5> QED
          BY <3>6, <4>2, <5>1
      <4> QED
        BY <3>2, <4>1, <4>2
    <3>10. Lists(g, n)
      BY <3>1, <3>3, <3>5, <3>8, <3>9
    <3> HIDE DEF Lists
    <3> QED
      BY <2>2, <3>1, <3>3, <3>10
  <2> QED
    BY <2>3, <2>4
<1>7. \A n \in 0 .. N : n \in T
  <2> HIDE DEF T, N
  <2> QED
    BY <1>2, <1>5, <1>6, UpTo
<1>8. picked[N] \in Seq(C) /\ \E f : Lists(f, N)
  <2>1. N \in T
    <3> HIDE DEF T, N
    <3> QED
      BY <1>2, <1>7
  <2> HIDE DEF Lists
  <2> QED
    BY <2>1
<1>9. S \cap 1 .. N = S
  BY <1>2
<1> QED
  BY <1>1, <1>8, <1>9

-------------------------------------------------------------------------------
(* Lines. *)

HasVariant(lines, v) == \E i \in DOMAIN lines : lines[i].variant = v

\* The lines a are those b begins with.
Grows(a, b) ==
  \A i \in DOMAIN a : i \in DOMAIN b /\ b[i].id = a[i].id /\ b[i].variant = a[i].variant

StagedChanges == {ch \in Sets \cup Additions : QuantityOK(ch.quantity)}

\* The change sets the line with this id.
SetsLine(change, id) == change.kind = "set" /\ change.line = id

\* The first m changes set lines, the others add some.
SetsFirst(changes, m) ==
  /\ m \in 0 .. Len(changes)
  /\ \A i \in DOMAIN changes : changes[i].kind = "set" <=> i <= m

\* Of the first n changes, the last that sets the line decides.
Decided(changes, n, line, quantity) ==
  \/ /\ \A i \in 1 .. n : ~SetsLine(changes[i], line.id)
     /\ quantity = line.quantity
  \/ \E i \in 1 .. n :
       /\ SetsLine(changes[i], line.id)
       /\ \A j \in 1 .. n : SetsLine(changes[j], line.id) => j <= i
       /\ quantity = changes[i].quantity

\* How many of the first n changes are additions, if m are not.
Added(m, n) == IF n <= m THEN 0 ELSE n - m

\* What the lines are after the first n changes.
AfterFirst(lines, changes, m, n, after) ==
  /\ Len(after) = Len(lines) + Added(m, n)
  /\ \A i \in DOMAIN lines :
       /\ after[i].id = lines[i].id /\ after[i].variant = lines[i].variant
       /\ after[i].title = lines[i].title
       /\ Decided(changes, n, lines[i], after[i].quantity)
  /\ \A j \in DOMAIN changes : m < j /\ j <= n =>
       /\ after[Len(lines) + (j - m)].variant = changes[j].variant
       /\ after[Len(lines) + (j - m)].quantity = changes[j].quantity

(* A staged change makes lines of lines. *)
LEMMA StagedIs ==
  ASSUME NEW lines \in Seq(Lines), NEW change \in StagedChanges
  PROVE  /\ Staged(lines, change) \in Seq(Lines)
         /\ change.kind = "set" =>
              /\ Len(Staged(lines, change)) = Len(lines)
              /\ \A i \in DOMAIN lines :
                   \E new \in Lines :
                     /\ Staged(lines, change)[i] = new
                     /\ new.id = lines[i].id /\ new.variant = lines[i].variant
                     /\ new.title = lines[i].title
                     /\ new.quantity = IF SetsLine(change, lines[i].id) THEN change.quantity
                                       ELSE lines[i].quantity
         /\ change.kind = "add" =>
              \E new \in Lines :
                /\ Staged(lines, change) = Append(lines, new)
                /\ new.variant = change.variant /\ new.quantity = change.quantity
<1>1. change.quantity \in Nat
  BY OrderAssumption DEF StagedChanges, QuantityOK, Sets, Additions, Numbers
<1>2. CASE change.kind = "set"
  <2> DEFINE new(i) == IF lines[i].id = change.line THEN [lines[i] EXCEPT !.quantity = change.quantity]
                       ELSE lines[i]
  <2>1. Staged(lines, change) = [i \in DOMAIN lines |-> new(i)]
    BY <1>2 DEF Staged
  <2>2. ASSUME NEW i \in DOMAIN lines
        PROVE  /\ new(i) \in Lines
               /\ new(i).id = lines[i].id /\ new(i).variant = lines[i].variant
               /\ new(i).title = lines[i].title
               /\ new(i).quantity = IF SetsLine(change, lines[i].id) THEN change.quantity
                                    ELSE lines[i].quantity
    <3>1. PICK l : l = lines[i] /\ l \in Lines
      OBVIOUS
    <3>2. PICK made : /\ made = [l EXCEPT !.quantity = change.quantity]
                      /\ made \in Lines /\ made.id = l.id /\ made.variant = l.variant
                      /\ made.title = l.title /\ made.quantity = change.quantity
      <4>1. PICK made : made = [l EXCEPT !.quantity = change.quantity]
        OBVIOUS
      <4>2. /\ made \in Lines /\ made.id = l.id /\ made.variant = l.variant
            /\ made.title = l.title /\ made.quantity = change.quantity
        BY <1>1, <3>1, <4>1 DEF Lines
      <4> QED
        BY <4>1, <4>2
    <3> QED
      BY <1>2, <3>1, <3>2 DEF SetsLine
  <2>3. Len(lines) \in Nat /\ DOMAIN lines = 1 .. Len(lines)
    OBVIOUS
  <2> HIDE DEF new
  <2>4. Staged(lines, change) \in Seq(Lines)
    BY <2>1, <2>2
  <2>5. Len(Staged(lines, change)) = Len(lines)
    BY <2>1, <2>3
  <2> QED
    BY <1>2, <2>1, <2>2, <2>4, <2>5
<1>3. CASE change.kind = "add"
  <2> DEFINE line == [id |-> Len(lines) + 1, variant |-> change.variant, title |-> NoId,
                      quantity |-> change.quantity]
  <2>1. Staged(lines, change) = Append(lines, line)
    BY <1>3 DEF Staged
  <2>2. line \in Lines /\ line.variant = change.variant /\ line.quantity = change.quantity
    BY <1>1, <1>3 DEF Lines, StagedChanges, Sets, Additions
  <2> HIDE DEF line
  <2>3. Append(lines, line) \in Seq(Lines)
    BY <2>2
  <2> QED
    BY <1>3, <2>1, <2>2, <2>3
<1> QED
  BY <1>2, <1>3 DEF StagedChanges, Sets, Additions

(* One more set of a line: its quantity is decided anew. *)
LEMMA SetDecides ==
  ASSUME NEW changes, NEW n \in Nat \ {0}, NEW line, NEW old, NEW id, id = line.id,
         Decided(changes, n - 1, line, old)
  PROVE  Decided(changes, n, line, IF SetsLine(changes[n], id) THEN changes[n].quantity ELSE old)
<1>1. /\ n \in 1 .. n
      /\ \A i \in 1 .. n : i <= n /\ (i = n \/ i \in 1 .. n - 1)
      /\ \A i \in 1 .. n - 1 : i \in 1 .. n
  OBVIOUS
<1>2. CASE SetsLine(changes[n], id)
  BY <1>1, <1>2 DEF Decided
<1>3. CASE ~SetsLine(changes[n], id)
  <2>1. CASE (\A i \in 1 .. n - 1 : ~SetsLine(changes[i], id)) /\ old = line.quantity
    BY <1>1, <1>3, <2>1 DEF Decided
  <2>2. CASE \E i \in 1 .. n - 1 : /\ SetsLine(changes[i], id)
                                 /\ \A j \in 1 .. n - 1 : SetsLine(changes[j], id) => j <= i
                                 /\ old = changes[i].quantity
    <3>1. PICK i \in 1 .. n - 1 : /\ SetsLine(changes[i], id)
                                  /\ \A j \in 1 .. n - 1 : SetsLine(changes[j], id) => j <= i
                                  /\ old = changes[i].quantity
      BY <2>2
    <3>2. i \in 1 .. n /\ \A j \in 1 .. n : SetsLine(changes[j], id) => j <= i
      BY <1>1, <1>3, <3>1
    <3> QED
      BY <1>3, <3>1, <3>2 DEF Decided
  <2> QED
    BY <2>1, <2>2 DEF Decided
<1> QED
  BY <1>2, <1>3

(* One more change, of lines after n - 1 of them. *)
LEMMA AfterNext ==
  ASSUME NEW lines \in Seq(Lines), NEW changes \in Seq(StagedChanges), NEW m, SetsFirst(changes, m),
         NEW n \in DOMAIN changes, NEW old \in Seq(Lines), AfterFirst(lines, changes, m, n - 1, old)
  PROVE  /\ Staged(old, changes[n]) \in Seq(Lines)
         /\ AfterFirst(lines, changes, m, n, Staged(old, changes[n]))
<1>1. PICK change, after :
        change \in StagedChanges /\ change = changes[n] /\ after = Staged(old, change)
  OBVIOUS
<1>2. /\ Len(lines) \in Nat /\ Len(old) \in Nat /\ DOMAIN lines = 1 .. Len(lines)
      /\ DOMAIN old = 1 .. Len(old) /\ n \in Nat \ {0} /\ m \in Nat
      /\ DOMAIN changes \subseteq Nat
  BY DEF SetsFirst
<1>3. change.kind = "set" <=> n <= m
  BY <1>1 DEF SetsFirst
<1>4. after \in Seq(Lines)
  BY <1>1, StagedIs
<1>5. /\ Len(old) = Len(lines) + Added(m, n - 1)
      /\ Len(lines) <= Len(old) /\ \A i \in DOMAIN lines : i \in DOMAIN old
  BY <1>2 DEF AfterFirst, Added
<1>6. CASE n <= m
  <2>1. /\ Len(after) = Len(old)
        /\ \A i \in DOMAIN old :
             \E new \in Lines :
               /\ after[i] = new /\ new.id = old[i].id /\ new.variant = old[i].variant
               /\ new.title = old[i].title
               /\ new.quantity = IF SetsLine(change, old[i].id) THEN change.quantity
                                 ELSE old[i].quantity
    <3>1. change.kind = "set"
      BY <1>3, <1>6
    <3>2. /\ Len(Staged(old, change)) = Len(old)
          /\ \A i \in DOMAIN old :
               \E new \in Lines :
                 /\ Staged(old, change)[i] = new
                 /\ new.id = old[i].id /\ new.variant = old[i].variant
                 /\ new.title = old[i].title
                 /\ new.quantity = IF SetsLine(change, old[i].id) THEN change.quantity
                                   ELSE old[i].quantity
      BY <1>1, <3>1, StagedIs
    <3> QED
      BY <1>1, <3>2
  <2>2. Len(after) = Len(lines) + Added(m, n)
    BY <1>2, <1>5, <1>6, <2>1 DEF Added
  <2>3. ASSUME NEW i \in DOMAIN lines
        PROVE  /\ after[i].id = lines[i].id /\ after[i].variant = lines[i].variant
               /\ after[i].title = lines[i].title
               /\ Decided(changes, n, lines[i], after[i].quantity)
    <3>1. /\ old[i].id = lines[i].id /\ old[i].variant = lines[i].variant
          /\ old[i].title = lines[i].title
          /\ Decided(changes, n - 1, lines[i], old[i].quantity)
      BY DEF AfterFirst
    <3>2. /\ after[i].id = old[i].id /\ after[i].variant = old[i].variant
          /\ after[i].title = old[i].title
          /\ after[i].quantity = IF SetsLine(change, lines[i].id) THEN change.quantity
                                 ELSE old[i].quantity
      BY <1>5, <2>1, <3>1
    <3>3. Decided(changes, n, lines[i],
                  IF SetsLine(changes[n], lines[i].id) THEN changes[n].quantity
                  ELSE old[i].quantity)
      BY <1>2, <3>1, SetDecides
    <3> QED
      BY <1>1, <3>1, <3>2, <3>3
  <2>4. \A j \in DOMAIN changes : ~(m < j /\ j <= n)
    BY <1>2, <1>6
  <2> QED
    BY <1>1, <1>4, <2>2, <2>3, <2>4 DEF AfterFirst
<1>7. CASE ~(n <= m)
  <2>0. Len(old) = Len(lines) + (n - 1 - m)
    BY <1>2, <1>5, <1>7 DEF Added
  <2>1. change.kind = "add"
    BY <1>1, <1>3, <1>7 DEF StagedChanges, Sets, Additions
  <2>2. PICK new \in Lines : /\ after = Append(old, new)
                             /\ new.variant = change.variant /\ new.quantity = change.quantity
    <3>1. \E new \in Lines :
            /\ Staged(old, change) = Append(old, new)
            /\ new.variant = change.variant /\ new.quantity = change.quantity
      BY <1>1, <2>1, StagedIs
    <3> QED
      BY <1>1, <3>1
  <2>3. /\ Len(after) = Len(old) + 1 /\ after[Len(old) + 1] = new
        /\ \A i \in DOMAIN old : after[i] = old[i]
    BY <2>2, Appended
  <2>4. Len(after) = Len(lines) + Added(m, n)
    BY <1>2, <1>5, <1>7, <2>3 DEF Added
  <2>5. ASSUME NEW i \in DOMAIN lines
        PROVE  /\ after[i].id = lines[i].id /\ after[i].variant = lines[i].variant
               /\ after[i].title = lines[i].title
               /\ Decided(changes, n, lines[i], after[i].quantity)
    <3>1. /\ old[i].id = lines[i].id /\ old[i].variant = lines[i].variant
          /\ old[i].title = lines[i].title
          /\ Decided(changes, n - 1, lines[i], old[i].quantity)
      BY DEF AfterFirst
    <3>2. after[i] = old[i]
      BY <1>5, <2>3
    <3>3. ~SetsLine(changes[n], lines[i].id)
      BY <1>1, <2>1 DEF SetsLine
    <3>4. Decided(changes, n, lines[i],
                  IF SetsLine(changes[n], lines[i].id) THEN changes[n].quantity
                  ELSE old[i].quantity)
      BY <1>2, <3>1, SetDecides
    <3> QED
      BY <3>1, <3>2, <3>3, <3>4
  <2>6. ASSUME NEW j \in DOMAIN changes, m < j, j <= n
        PROVE  /\ after[Len(lines) + (j - m)].variant = changes[j].variant
               /\ after[Len(lines) + (j - m)].quantity = changes[j].quantity
    <3>1. CASE j = n
      <4>1. Len(lines) + (j - m) = Len(old) + 1
        BY <1>2, <2>0, <3>1
      <4> QED
        BY <1>1, <2>2, <2>3, <3>1, <4>1
    <3>2. CASE j # n
      <4>1. j <= n - 1 /\ Len(lines) + (j - m) \in DOMAIN old
        BY <1>2, <2>0, <2>6, <3>2
      <4>2. /\ old[Len(lines) + (j - m)].variant = changes[j].variant
            /\ old[Len(lines) + (j - m)].quantity = changes[j].quantity
        BY <2>6, <4>1 DEF AfterFirst
      <4> QED
        BY <2>3, <4>1, <4>2
    <3> QED
      BY <3>1, <3>2
  <2> QED
    BY <1>1, <1>4, <2>4, <2>5, <2>6 DEF AfterFirst
<1> QED
  BY <1>6, <1>7

\* The function in StagedAll.
IsAfter(after, lines, changes) ==
  after = [n \in 0 .. Len(changes) |->
             IF n = 0 THEN lines ELSE Staged(after[n - 1], changes[n])]

(* StagedAll is the last value of such a function. *)
LEMMA StagedAllIs ==
  ASSUME NEW lines \in Seq(Lines), NEW changes \in Seq(StagedChanges)
  PROVE  \E after : IsAfter(after, lines, changes) /\ StagedAll(lines, changes) = after[Len(changes)]
<1> DEFINE N == Len(changes)
           X == Seq(Lines)
           step == [n \in 1 .. N |-> [l \in X |-> Staged(l, changes[n])]]
<1>1. N \in Nat /\ lines \in X
  OBVIOUS
<1>2. step \in Steps(N, X)
  <2>1. \A n \in 1 .. N : changes[n] \in StagedChanges
    OBVIOUS
  <2>2. \A n \in 1 .. N : \A l \in X : Staged(l, changes[n]) \in X
    BY <2>1, StagedIs
  <2> QED
    BY <2>2 DEF Steps
<1>3. PICK f \in [0 .. N -> X] : f[0] = lines /\ \A n \in 1 .. N : f[n] = step[n][f[n - 1]]
  <2> HIDE DEF step, N, X
  <2>1. PICK f : Iterates(f, lines, step, N, X)
    BY <1>1, <1>2, Iteration
  <2> QED
    BY <2>1 DEF Iterates
<1>4. ASSUME NEW n \in 1 .. N
      PROVE  f[n] = Staged(f[n - 1], changes[n])
  <2>1. f[n - 1] \in X
    <3>1. n - 1 \in 0 .. N
      BY <1>1
    <3> HIDE DEF step, N, X
    <3> QED
      BY <1>3, <3>1
  <2> QED
    BY <1>3, <2>1
<1>5. IsAfter(f, lines, changes)
  <2>1. \A n \in 0 .. N : n = 0 \/ n \in 1 .. N
    BY <1>1
  <2>2. \A n \in 0 .. N : f[n] = IF n = 0 THEN lines ELSE Staged(f[n - 1], changes[n])
    BY <1>1, <1>3, <1>4, <2>1
  <2> QED
    BY <1>3, <2>2 DEF IsAfter
<1> QED
  BY <1>5 DEF StagedAll, IsAfter

(* What an edit makes of the lines: it keeps each where it is, the last    *)
(* set of a line decides its quantity, and the additions follow in order.  *)
LEMMA StagedAllDoes ==
  ASSUME NEW lines \in Seq(Lines), NEW changes \in Seq(StagedChanges), NEW m, SetsFirst(changes, m)
  PROVE  /\ StagedAll(lines, changes) \in Seq(Lines)
         /\ AfterFirst(lines, changes, m, Len(changes), StagedAll(lines, changes))
<1>1. PICK after : /\ IsAfter(after, lines, changes)
                   /\ StagedAll(lines, changes) = after[Len(changes)]
  BY StagedAllIs
<1> DEFINE N == Len(changes)
           T == {n \in 0 .. N : /\ after[n] \in Seq(Lines)
                                /\ AfterFirst(lines, changes, m, n, after[n])}
<1>2. N \in Nat /\ DOMAIN changes = 1 .. N /\ m \in Nat
  BY DEF SetsFirst
<1>3. after[0] = lines
  BY <1>1, <1>2 DEF IsAfter
<1>4. \A n \in 1 .. N : after[n] = Staged(after[n - 1], changes[n])
  <2>1. \A n \in 1 .. N : n \in 0 .. N /\ n # 0
    BY <1>2
  <2> QED
    BY <1>1, <2>1 DEF IsAfter
<1>5. 0 \in T
  <2>1. 0 \in 0 .. N /\ 1 .. 0 = {} /\ Added(m, 0) = 0 /\ Len(lines) \in Nat
    BY <1>2 DEF Added
  <2>2. \A j \in DOMAIN changes : ~(j <= 0)
    BY <1>2
  <2>3. AfterFirst(lines, changes, m, 0, lines)
    BY <2>1, <2>2 DEF AfterFirst, Decided
  <2> QED
    BY <1>3, <2>1, <2>3
<1>6. ASSUME NEW n \in 1 .. N, n - 1 \in T PROVE n \in T
  <2>1. PICK old \in Seq(Lines) : old = after[n - 1] /\ AfterFirst(lines, changes, m, n - 1, old)
    BY <1>6
  <2>2. n \in 0 .. N /\ n \in DOMAIN changes /\ after[n] = Staged(old, changes[n])
    BY <1>2, <1>4, <2>1
  <2>3. after[n] \in Seq(Lines) /\ AfterFirst(lines, changes, m, n, after[n])
    BY <2>1, <2>2, AfterNext
  <2> QED
    BY <2>2, <2>3
<1>7. \A n \in 0 .. N : n \in T
  <2> HIDE DEF T, N
  <2> QED
    BY <1>2, <1>5, <1>6, UpTo
<1>8. N \in 0 .. N
  BY <1>2
<1> QED
  BY <1>1, <1>7, <1>8

(* So it loses no line, and brings one of each variant it adds. *)
LEMMA StagedAllGrows ==
  ASSUME NEW lines \in Seq(Lines), NEW changes \in Seq(StagedChanges), NEW m, SetsFirst(changes, m)
  PROVE  /\ Grows(lines, StagedAll(lines, changes))
         /\ \A i \in DOMAIN changes : changes[i].kind = "add" =>
              HasVariant(StagedAll(lines, changes), changes[i].variant)
<1>1. PICK after \in Seq(Lines) : /\ after = StagedAll(lines, changes)
                                 /\ AfterFirst(lines, changes, m, Len(changes), after)
  BY StagedAllDoes
<1>2. /\ Len(changes) \in Nat /\ m \in 0 .. Len(changes) /\ Len(lines) \in Nat
      /\ DOMAIN lines = 1 .. Len(lines) /\ DOMAIN changes = 1 .. Len(changes)
      /\ DOMAIN after = 1 .. Len(after)
  BY DEF SetsFirst
<1>3. Len(after) = Len(lines) + (Len(changes) - m)
  BY <1>1, <1>2 DEF AfterFirst, Added
<1>4. \A i \in DOMAIN lines : i \in DOMAIN after
  BY <1>2, <1>3
<1>5. Grows(lines, after)
  BY <1>1, <1>4 DEF AfterFirst, Grows
<1>6. ASSUME NEW i \in DOMAIN changes, changes[i].kind = "add"
      PROVE  HasVariant(after, changes[i].variant)
  <2>1. m < i /\ i <= Len(changes)
    BY <1>2, <1>6 DEF SetsFirst
  <2>2. Len(lines) + (i - m) \in DOMAIN after
    BY <1>2, <1>3, <2>1
  <2> QED
    BY <1>1, <2>1, <2>2 DEF AfterFirst, HasVariant
<1> QED
  BY <1>1, <1>5, <1>6

(* Lines that grow keep what they had. *)
LEMMA GrownHas ==
  ASSUME NEW a, NEW b, Grows(a, b)
  PROVE  /\ \A v : HasVariant(a, v) => HasVariant(b, v)
         /\ \A c : Grows(b, c) => Grows(a, c)
BY DEF Grows, HasVariant

-------------------------------------------------------------------------------
(* The work of an edit. *)

(* int(float(value)) is a number if the value is one. *)
LEMMA IntFromIs == {0, 1} \subseteq Numbers /\ \A value \in Numbers : IntFrom(value) \in Numbers
BY DEF IntFrom, Numbers

\* The changes of the customer's that the planner makes sets and additions of,
\* and these.
Usable(ch) == /\ ch.action \in {"remove", "swap", "change_quantity"}
              /\ NewQuantity(ch) # NoNumber
              /\ ch.line # NoId
SetOf(ch)  == [kind |-> "set", calculated |-> NoId, line |-> ch.line, variant |-> NoId,
               title |-> NoId, quantity |-> NewQuantity(ch)]
AddOf(ch)  == [kind |-> "add", variant |-> ch.variant, quantity |-> AddedQuantity(ch),
               allow |-> ch.allow]

UsableOf(changes)    == {i \in DOMAIN changes : Usable(changes[i])}
AdditionsIn(changes) == {i \in DOMAIN changes : IsAddition(changes[i])}

(* Each payload is one of them after the other. *)
LEMMA PayloadsAre ==
  ASSUME NEW changes \in Seq(Changes)
  PROVE  /\ QuantityChanges(changes) \in Seq(Sets)
         /\ \E f \in Listings(UsableOf(changes), Len(QuantityChanges(changes))) :
              \A j \in 1 .. Len(QuantityChanges(changes)) :
                f[j] \in UsableOf(changes) /\ QuantityChanges(changes)[j] = SetOf(changes[f[j]])
         /\ VariantAdditions(changes) \in Seq(Additions)
         /\ \E f \in Listings(AdditionsIn(changes), Len(VariantAdditions(changes))) :
              \A j \in 1 .. Len(VariantAdditions(changes)) :
                f[j] \in AdditionsIn(changes) /\ VariantAdditions(changes)[j] = AddOf(changes[f[j]])
<1>1. /\ QuantityChanges(changes) \in Seq(Sets)
      /\ \E f \in Listings(UsableOf(changes), Len(QuantityChanges(changes))) :
           \A j \in 1 .. Len(QuantityChanges(changes)) :
             f[j] \in UsableOf(changes) /\ QuantityChanges(changes)[j] = SetOf(changes[f[j]])
  <2>1. PICK S : S = UsableOf(changes) /\ S \subseteq DOMAIN changes
    BY DEF UsableOf
  <2>2. PICK chosen : chosen = Pick(changes, S)
    OBVIOUS
  <2>3. QuantityChanges(changes) = [i \in DOMAIN chosen |-> SetOf(chosen[i])]
    BY <2>1, <2>2 DEF QuantityChanges, UsableOf, Usable, SetOf
  <2>4. PICK f : /\ chosen \in Seq(Changes) /\ f \in Listings(S, Len(chosen))
                 /\ \A j \in 1 .. Len(chosen) : chosen[j] = changes[f[j]]
    BY <2>1, <2>2, Picked
  <2>5. ASSUME NEW ch \in Changes PROVE SetOf(ch) \in Sets
    <3>1. ch.newQuantity \in Numbers /\ ch.line \in LineIds \cup {NoId}
      BY DEF Changes
    <3>2. NewQuantity(ch) \in Numbers
      BY <3>1, IntFromIs DEF NewQuantity
    <3> QED
      BY <3>1, <3>2 DEF Sets, SetOf
  <2>6. DOMAIN chosen = 1 .. Len(chosen) /\ Len(chosen) \in Nat
    BY <2>4
  <2>7. PICK made : made = QuantityChanges(changes)
    OBVIOUS
  <2>8. /\ made \in Seq(Sets) /\ Len(made) = Len(chosen)
        /\ \A j \in 1 .. Len(chosen) : made[j] = SetOf(chosen[j])
    BY <2>3, <2>4, <2>5, <2>6, <2>7
  <2>9. \A j \in 1 .. Len(chosen) : f[j] \in S
    BY <2>4 DEF Listings
  <2>10. \A j \in 1 .. Len(made) : f[j] \in UsableOf(changes) /\ made[j] = SetOf(changes[f[j]])
    BY <2>1, <2>4, <2>8, <2>9
  <2> QED
    BY <2>1, <2>4, <2>7, <2>8, <2>10
<1>2. /\ VariantAdditions(changes) \in Seq(Additions)
      /\ \E f \in Listings(AdditionsIn(changes), Len(VariantAdditions(changes))) :
           \A j \in 1 .. Len(VariantAdditions(changes)) :
             f[j] \in AdditionsIn(changes) /\ VariantAdditions(changes)[j] = AddOf(changes[f[j]])
  <2>1. PICK S : S = AdditionsIn(changes) /\ S \subseteq DOMAIN changes
    BY DEF AdditionsIn
  <2>2. PICK chosen : chosen = Pick(changes, S)
    OBVIOUS
  <2>3. VariantAdditions(changes) = [i \in DOMAIN chosen |-> AddOf(chosen[i])]
    BY <2>1, <2>2 DEF VariantAdditions, AdditionsIn, AddOf
  <2>4. PICK f : /\ chosen \in Seq(Changes) /\ f \in Listings(S, Len(chosen))
                 /\ \A j \in 1 .. Len(chosen) : chosen[j] = changes[f[j]]
    BY <2>1, <2>2, Picked
  <2>5. ASSUME NEW ch \in Changes PROVE AddOf(ch) \in Additions
    <3>1. /\ ch.newQuantity \in Numbers /\ ch.quantity \in Numbers
          /\ ch.variant \in Variants \cup {NoId} /\ ch.allow \in BOOLEAN
      BY DEF Changes
    <3>2. AddedQuantity(ch) \in Numbers
      BY <3>1, IntFromIs DEF AddedQuantity
    <3> QED
      BY <3>1, <3>2 DEF Additions, AddOf
  <2>6. DOMAIN chosen = 1 .. Len(chosen) /\ Len(chosen) \in Nat
    BY <2>4
  <2>7. PICK made : made = VariantAdditions(changes)
    OBVIOUS
  <2>8. /\ made \in Seq(Additions) /\ Len(made) = Len(chosen)
        /\ \A j \in 1 .. Len(chosen) : made[j] = AddOf(chosen[j])
    BY <2>3, <2>4, <2>5, <2>6, <2>7
  <2>9. \A j \in 1 .. Len(chosen) : f[j] \in S
    BY <2>4 DEF Listings
  <2>10. \A j \in 1 .. Len(made) : f[j] \in AdditionsIn(changes) /\ made[j] = AddOf(changes[f[j]])
    BY <2>1, <2>4, <2>8, <2>9
  <2> QED
    BY <2>1, <2>4, <2>7, <2>8, <2>10
<1> QED
  BY <1>1, <1>2

\* What the two loops of apply_order_edit run over.
SetsOf(r) ==
  IF r.changes = <<>> THEN r.quantityChanges ELSE QuantityChanges(r.changes)
AdditionsOf(r) ==
  IF r.changes = <<>> THEN r.variantAdditions ELSE VariantAdditions(r.changes)

(* One after the other they are the work of an edit. *)
LEMMA WorkIs ==
  ASSUME NEW r \in Requests
  PROVE  /\ SetsOf(r) \in Seq(Sets) /\ AdditionsOf(r) \in Seq(Additions)
         /\ Work(r) \in Seq(Sets \cup Additions)
         /\ Len(Work(r)) = Len(SetsOf(r)) + Len(AdditionsOf(r))
         /\ SetsFirst(Work(r), Len(SetsOf(r)))
         /\ \A i \in DOMAIN SetsOf(r) : Work(r)[i] = SetsOf(r)[i]
         /\ \A j \in DOMAIN AdditionsOf(r) :
              /\ Len(SetsOf(r)) + j \in DOMAIN Work(r)
              /\ Work(r)[Len(SetsOf(r)) + j] = AdditionsOf(r)[j]
<1>1. SetsOf(r) \in Seq(Sets) /\ AdditionsOf(r) \in Seq(Additions)
  BY OrderAssumption, PayloadsAre DEF SetsOf, AdditionsOf
<1>2. PICK s \in Seq(Sets), t \in Seq(Additions) : s = SetsOf(r) /\ t = AdditionsOf(r)
  BY <1>1
<1>3. Work(r) = s \o t
  BY <1>2 DEF Work, SetsOf, AdditionsOf
<1>4. s \in Seq(Sets \cup Additions) /\ t \in Seq(Sets \cup Additions)
  <2> DEFINE U == Sets \cup Additions
  <2>1. Sets \subseteq U /\ Additions \subseteq U
    OBVIOUS
  <2> HIDE DEF U
  <2>2. s \in Seq(U)
    BY <2>1
  <2>3. t \in Seq(U)
    BY <2>1
  <2> QED
    BY <2>2, <2>3 DEF U
<1>5. PICK work : work = s \o t
  OBVIOUS
<1>6. PICK m \in Nat, n \in Nat : m = Len(s) /\ n = Len(t)
  <2>1. Len(s) \in Nat /\ Len(t) \in Nat
    OBVIOUS
  <2> QED
    BY <2>1, Zenon
<1>7. /\ Len(work) = m + n /\ DOMAIN s = 1 .. m /\ DOMAIN t = 1 .. n /\ DOMAIN work = 1 .. m + n
      /\ \A i \in 1 .. m : work[i] = s[i]
      /\ \A j \in 1 .. n : work[m + j] = t[j]
  BY <1>5, <1>6
<1>0. work \in Seq(Sets \cup Additions)
  BY <1>4, <1>5
<1>8. m \in 0 .. Len(work) /\ \A j \in 1 .. n : m + j \in 1 .. m + n
  BY <1>6, <1>7
<1>9. ASSUME NEW i \in DOMAIN work PROVE work[i].kind = "set" <=> i <= m
  <2>1. CASE i <= m
    <3>1. i \in 1 .. m
      BY <1>6, <1>7, <2>1
    <3>2. work[i] \in Sets
      BY <1>6, <1>7, <3>1
    <3> QED
      BY <2>1, <3>2 DEF Sets
  <2>2. CASE ~(i <= m)
    <3>1. PICK j \in 1 .. n : i = m + j
      <4>1. i - m \in 1 .. n /\ i = m + (i - m)
        BY <1>6, <1>7, <2>2
      <4> QED
        BY <4>1
    <3>2. work[i] \in Additions
      BY <1>6, <1>7, <3>1
    <3> QED
      BY <2>2, <3>2 DEF Additions
  <2> QED
    BY <2>1, <2>2
<1>10. SetsFirst(work, m)
  BY <1>8, <1>9 DEF SetsFirst
<1> QED
  BY <1>0, <1>1, <1>2, <1>3, <1>5, <1>6, <1>7, <1>8, <1>10

\* The request adds a variant that must not be there twice: as the customer's
\* changes say, or as the payload does.
AddsOnce(r) ==
  \/ \E n \in DOMAIN r.changes :
       /\ r.changes[n].action \in {"add", "swap"} /\ r.changes[n].variant # NoId
       /\ ~r.changes[n].allow
  \/ r.changes = <<>> /\ \E n \in DOMAIN r.variantAdditions : ~r.variantAdditions[n].allow

(* No addition of the request is lost on the way to the edit's work. *)
LEMMA AdditionsAreWork ==
  ASSUME NEW r \in Requests, AddsOnce(r)
  PROVE  \E n \in DOMAIN Work(r) : Work(r)[n].kind = "add" /\ ~Work(r)[n].allow
<1>1. PICK t : t = AdditionsOf(r) /\ t \in Seq(Additions)
  BY WorkIs
<1>2. \E j \in DOMAIN t : ~t[j].allow
  <2>1. CASE r.changes = <<>>
    BY <1>1, <2>1 DEF AddsOnce, AdditionsOf
  <2>2. CASE r.changes # <<>>
    <3>1. PICK changes \in Seq(Changes) : changes = r.changes
      BY OrderAssumption
    <3>2. t = VariantAdditions(changes)
      BY <1>1, <2>2, <3>1 DEF AdditionsOf
    <3>3. PICK i \in AdditionsIn(changes) : ~changes[i].allow
      BY <2>2, <3>1 DEF AddsOnce, AdditionsIn, IsAddition
    <3>4. PICK f : /\ f \in Listings(AdditionsIn(changes), Len(t))
                   /\ \A j \in 1 .. Len(t) : t[j] = AddOf(changes[f[j]])
      BY <3>2, PayloadsAre
    <3>5. PICK j \in 1 .. Len(t) : f[j] = i
      BY <3>3, <3>4 DEF Listings
    <3>6. j \in DOMAIN t /\ t[j] = AddOf(changes[i])
      BY <1>1, <3>4, <3>5
    <3> QED
      BY <3>3, <3>6 DEF AddOf
  <2> QED
    BY <2>1, <2>2
<1>3. PICK j \in DOMAIN t : ~t[j].allow /\ t[j] \in Additions
  BY <1>1, <1>2
<1>4. Len(SetsOf(r)) + j \in DOMAIN Work(r) /\ Work(r)[Len(SetsOf(r)) + j] = t[j]
  BY <1>1, <1>3, WorkIs
<1> QED
  BY <1>3, <1>4 DEF Additions

-------------------------------------------------------------------------------
\* The inductive invariant, in parts.

HasAdditions(lines, work) ==
  \A n \in DOMAIN work : work[n].kind = "add" => HasVariant(lines, work[n].variant)

\* The session can make this change: the line to set, as the session names it,
\* is one of the lines it began with, and what may not be there twice is not.
Makes(change, base) ==
  /\ change.kind = "set" => \E j \in DOMAIN base : base[j].id = Resolve(change, base)
  /\ change.kind = "add" /\ ~change.allow => ~HasVariant(base, change.variant)

\* What is staged is the begin of the work, as it was sent, and the session can
\* make it; if the edit was committed before, its additions are there.
SoundSession(e, work, committed) ==
  /\ Len(e.staged) <= Len(work)
  /\ \A i \in DOMAIN e.staged : e.staged[i] = AsSent(work[i], e.base) /\ Makes(work[i], e.base)
  /\ committed => HasAdditions(e.base, work)

Committed(k) == effects[k] > 0

SessionOK(c) ==
  IF edit[c].open
  THEN /\ Inserted(c) /\ IsEdit(c)
       /\ SoundSession(edit[c], WorkOf(c), Committed(txnKey[c]))
       /\ Grows(edit[c].base, order.lines)
  ELSE edit[c] = NoEdit

\* What was added is there, and what is to be added once was.
AddedOnce(lines, work, times) ==
  /\ times > 0 => HasAdditions(lines, work)
  /\ (\E n \in DOMAIN work : work[n].kind = "add" /\ ~work[n].allow) => times <= 1

KeyOK(k) ==
  request[k].tool = "shopify_apply_order_edit" =>
    AddedOnce(order.lines, Work(request[k]), effects[k])

Orders == [lines : Seq(Lines), note : Keys \cup {NoKey}, address : Keys \cup {NoKey},
           refunds : Nat, cancelledBy : SUBSET Keys, heldBy : SUBSET Keys]
Edits  == [open : BOOLEAN, base : Seq(Lines), staged : Seq(StagedChanges)]

OrderInv ==
  /\ Ledger!IndInv
  /\ request \in [Keys -> Requests] /\ order \in Orders /\ edit \in [Callers -> Edits]
  /\ \A c \in Callers : SessionOK(c)
  /\ \A k \in Keys : KeyOK(k)

-------------------------------------------------------------------------------
(* The invariant of ToolLedger.                                            *)
Proved == INSTANCE ToolLedgerProofs

(* The two instances of ToolLedger are the same.                           *)
LEMMA SameLedger ==
  /\ Ledger!Init = Proved!Init
  /\ Ledger!IndInv <=> Proved!IndInv
  /\ Ledger!Next <=> Proved!Next
  /\ UNCHANGED Ledger!vars <=> UNCHANGED Proved!vars
<1>1. Ledger!Init = Proved!Init
  BY DEF Ledger!Init, Proved!Init
<1>2. Ledger!IndInv <=> Proved!IndInv
  BY DEF Ledger!IndInv, Ledger!TypeOK, Ledger!StageShape, Ledger!OneHolderPerKey,
         Ledger!EffectsBalance, Ledger!LedgerTellsTheTruth, Ledger!RepliesAgreeWithLedger,
         Ledger!Holders, Ledger!Applied, Ledger!Outcomes,
         Proved!IndInv, Proved!TypeOK, Proved!StageShape, Proved!OneHolderPerKey,
         Proved!EffectsBalance, Proved!LedgerTellsTheTruth, Proved!RepliesAgreeWithLedger,
         Proved!Holders, Proved!Applied, Proved!Outcomes
<1>3. Ledger!Next <=> Proved!Next
  BY DEF Ledger!Next, Ledger!CallerStep, Ledger!Progress, Ledger!RefuseWithoutKey, Ledger!LookUp,
         Ledger!InsertPending, Ledger!CallProvider, Ledger!FinishAndCommit, Ledger!Abort,
         Ledger!Holders, Ledger!Applied, Ledger!Outcomes, Ledger!db, Ledger!session, Ledger!history,
         Proved!Next, Proved!CallerStep, Proved!Progress, Proved!RefuseWithoutKey, Proved!LookUp,
         Proved!InsertPending, Proved!CallProvider, Proved!FinishAndCommit, Proved!Abort,
         Proved!Holders, Proved!Applied, Proved!Outcomes, Proved!db, Proved!session, Proved!history
<1>4. UNCHANGED Ledger!vars <=> UNCHANGED Proved!vars
  BY DEF Ledger!vars, Ledger!db, Ledger!session, Ledger!history,
         Proved!vars, Proved!db, Proved!session, Proved!history
<1> QED
  BY <1>1, <1>2, <1>3, <1>4

(* The ledger's invariant holds at first ...                               *)
LEMMA LedgerFirst == Ledger!Init => Ledger!IndInv
BY Proved!IndInvInit, OrderAssumption, SameLedger

(* ... which every step of the ledger keeps. *)
LEMMA LedgerNext == Ledger!IndInv /\ [Ledger!Next]_(Ledger!vars) => Ledger!IndInv'
<1>1. Ledger!IndInv' <=> Proved!IndInv'
  BY SameLedger, PTL
<1> QED
  BY <1>1, Proved!IndInvStep, OrderAssumption, SameLedger

(* What the invariant of the ledger says of a caller and the others.       *)
LEMMA LedgerTypes ==
  ASSUME Ledger!IndInv
  PROVE  /\ effects \in [Keys -> Nat]
         /\ txn \in [Callers -> {"idle", "checked", "inserted", "operated"}]
         /\ txnKey \in [Callers -> Keys \cup {NoKey}]
         /\ outcome \in [Callers -> {"none", "ok", "error", "lateError"}]
         /\ \A c \in Callers : txn[c] # "idle" => txnKey[c] \in Keys
         /\ \A c, g \in Callers :
              Inserted(c) /\ Inserted(g) /\ txnKey[c] = txnKey[g] => c = g
<1>1. \A c, g \in Callers : Inserted(c) /\ Inserted(g) /\ txnKey[c] = txnKey[g] => c = g
  BY DEF Ledger!IndInv, Ledger!StageShape, Ledger!OneHolderPerKey, Ledger!Holders, Inserted
<1> QED
  BY <1>1 DEF Ledger!IndInv, Ledger!TypeOK, Ledger!StageShape, Ledger!Outcomes

(* A step of a caller leaves the others' transactions alone, and only its  *)
(* call of the provider has an effect.                                     *)
LEMMA CallerMoves ==
  ASSUME Ledger!IndInv, NEW c \in Callers, Ledger!CallerStep(c)
  PROVE  /\ Ledger!Next
         /\ \A g \in Callers \ {c} : txn'[g] = txn[g] /\ txnKey'[g] = txnKey[g]
         /\ UNCHANGED effects \/ Ledger!CallProvider(c)
<1>1. Ledger!Next
  BY DEF Ledger!Next
<1> QED
  BY <1>1, LedgerTypes
     DEF Ledger!CallerStep, Ledger!Progress, Ledger!RefuseWithoutKey, Ledger!LookUp,
         Ledger!InsertPending, Ledger!CallProvider, Ledger!FinishAndCommit, Ledger!Abort

(* The call of the provider. *)
LEMMA ProviderIs ==
  ASSUME Ledger!IndInv, NEW c \in Callers, Ledger!CallProvider(c)
  PROVE  /\ Ledger!CallerStep(c)
         /\ txnKey[c] \in Keys /\ txnKey' = txnKey
         /\ txn'[c] = "operated"
         /\ \A k \in Keys \ {txnKey[c]} : effects'[k] = effects[k]
         /\ outcome'[c] = "error" => effects' = effects
         /\ outcome'[c] # "error" => effects'[txnKey[c]] = effects[txnKey[c]] + 1
BY LedgerTypes DEF Ledger!CallProvider, Ledger!CallerStep, Ledger!Progress, Ledger!Outcomes

(* What a step of caller c has to show: the rest follows. *)
LEMMA OrderStep ==
  ASSUME OrderInv, NEW c \in Callers,
         Ledger!CallerStep(c) \/ UNCHANGED ledgerVars,
         UNCHANGED request, order' \in Orders, Grows(order.lines, order'.lines),
         NEW new \in Edits, edit' = [edit EXCEPT ![c] = new],
         effects' = effects \/ (Inserted(c) /\ \A k \in Keys \ {txnKey[c]} : effects'[k] = effects[k]),
         edit'[c] = new => SessionOK(c)',
         \A k \in Keys : KeyOK(k)'
  PROVE  OrderInv'
<1>1. Ledger!IndInv
  BY DEF OrderInv
<1>2. Ledger!IndInv'
  BY <1>1, CallerMoves, LedgerNext DEF ledgerVars, Ledger!vars, Ledger!db, Ledger!session, Ledger!history
<1>3. edit \in [Callers -> Edits] /\ request \in [Keys -> Requests] /\ \A g \in Callers : SessionOK(g)
  BY DEF OrderInv
<1>4. /\ edit' \in [Callers -> Edits] /\ edit'[c] = new
      /\ \A g \in Callers \ {c} : edit'[g] = edit[g]
  BY <1>3
<1>5. ASSUME NEW g \in Callers \ {c} PROVE SessionOK(g)'
  <2>1. txn'[g] = txn[g] /\ txnKey'[g] = txnKey[g] /\ edit'[g] = edit[g]
    BY <1>1, <1>4, CallerMoves DEF ledgerVars
  <2>2. edit[g].open => effects'[txnKey[g]] = effects[txnKey[g]]
    <3>1. SUFFICES ASSUME edit[g].open, effects' # effects PROVE effects'[txnKey[g]] = effects[txnKey[g]]
      OBVIOUS
    <3>2. Inserted(g)
      BY <1>3, <3>1 DEF SessionOK
    <3>3. txnKey[g] \in Keys \ {txnKey[c]}
      BY <1>1, <3>1, <3>2, LedgerTypes DEF Inserted
    <3> QED
      BY <3>1, <3>3
  <2>3. edit[g].open => Grows(edit[g].base, order'.lines)
    BY <1>3, GrownHas DEF SessionOK
  <2> QED
    BY <1>3, <2>1, <2>2, <2>3 DEF SessionOK, Inserted, IsEdit, WorkOf, Committed
<1> QED
  BY <1>2, <1>3, <1>4, <1>5 DEF OrderInv

(* A step that leaves the lines alone lets them grow by nothing. *)
LEMMA GrowsByNothing == \A a : Grows(a, a)
BY DEF Grows

-------------------------------------------------------------------------------
(* The steps. *)

(* Where the lines and the effects of a key stay, so does what is said of it. *)
LEMMA KeyKept ==
  ASSUME NEW k \in Keys, KeyOK(k), UNCHANGED request, order'.lines = order.lines,
         request[k].tool = "shopify_apply_order_edit" => effects'[k] = effects[k]
  PROVE  KeyOK(k)'
BY DEF KeyOK

(* No session is open before any call. *)
LEMMA OrderInvInit == Init => OrderInv
<1> SUFFICES ASSUME Init PROVE OrderInv
  OBVIOUS
<1>1. Ledger!IndInv
  BY LedgerFirst DEF Init
<1>2. NoEdit \in Edits /\ ~NoEdit.open
  BY DEF NoEdit, Edits
<1>3. order \in Orders /\ edit \in [Callers -> Edits]
  BY <1>2, OrderAssumption DEF Init, Orders
<1>4. \A c \in Callers : SessionOK(c)
  BY <1>2 DEF Init, SessionOK
<1>5. \A k \in Keys : KeyOK(k)
  <2>1. \A k \in Keys : effects[k] = 0
    BY DEF Init, Ledger!Init
  <2> QED
    BY <2>1 DEF KeyOK, AddedOnce
<1> QED
  BY <1>1, <1>3, <1>4, <1>5 DEF Init, OrderInv

(* What of the ledger is not the provider's is done outside of a session. *)
LEMMA LedgerStepInv ==
  ASSUME OrderInv, NEW c \in Callers, LedgerStep(c)
  PROVE  OrderInv'
<1>1. /\ edit \in [Callers -> Edits] /\ order \in Orders /\ SessionOK(c) /\ Ledger!IndInv
      /\ UNCHANGED <<request, order, edit>>
  BY DEF OrderInv, LedgerStep
<1>2. /\ Ledger!CallerStep(c) /\ effects' = effects
      /\ txn[c] # "inserted"
  BY DEF LedgerStep, Ledger!CallerStep, Ledger!Progress, Ledger!LookUp, Ledger!InsertPending,
         Ledger!FinishAndCommit
<1>3. edit' = [edit EXCEPT ![c] = NoEdit] /\ edit'[c] = NoEdit
  BY <1>1, <1>2 DEF SessionOK, Inserted
<1>4. NoEdit \in Edits /\ ~NoEdit.open
  BY DEF NoEdit, Edits
<1>5. SessionOK(c)'
  BY <1>1, <1>3, <1>4 DEF SessionOK
<1>6. \A k \in Keys : KeyOK(k)'
  BY <1>1, <1>2, KeyKept DEF OrderInv
<1> QED
  BY <1>1, <1>2, <1>3, <1>4, <1>5, <1>6, GrowsByNothing, OrderStep

(* A mutation of one request leaves the lines to the edits. *)
LEMMA MutateOrderMoves ==
  ASSUME OrderInv, NEW c \in Callers, MutateOrder(c)
  PROVE  /\ order' \in Orders /\ order'.lines = order.lines
         /\ \A q \in Keys :
              request[q].tool = "shopify_apply_order_edit" => effects'[q] = effects[q]
<1>1. /\ edit \in [Callers -> Edits] /\ order \in Orders /\ request \in [Keys -> Requests]
      /\ SessionOK(c) /\ Ledger!IndInv /\ UNCHANGED <<request, edit>>
      /\ Inserted(c) /\ ~IsEdit(c) /\ Ledger!CallProvider(c)
  BY DEF OrderInv, MutateOrder
<1>2. PICK k : k = txnKey[c]
  OBVIOUS
<1>3. /\ Ledger!CallerStep(c) /\ k \in Keys
      /\ \A q \in Keys \ {k} : effects'[q] = effects[q]
  BY <1>1, <1>2, ProviderIs
<1>4. request[k].tool \in Tools \ {"shopify_apply_order_edit"}
  BY <1>1, <1>2, <1>3, OrderAssumption DEF IsEdit
<1>5. PICK o : o = order /\ o \in Orders
  BY <1>1
<1>6. Operation(request[k].tool, o, k) \in Orders /\ Operation(request[k].tool, o, k).lines = o.lines
  <2>1. /\ UpdateOrderNote(o, k) \in Orders /\ UpdateOrderNote(o, k).lines = o.lines
        /\ UpdateShippingAddress(o, k) \in Orders /\ UpdateShippingAddress(o, k).lines = o.lines
    BY <1>3, <1>5 DEF Orders, UpdateOrderNote, UpdateShippingAddress
  <2>2. /\ CreateRefund(o, k) \in Orders /\ CreateRefund(o, k).lines = o.lines
        /\ CancelOrder(o, k) \in Orders /\ CancelOrder(o, k).lines = o.lines
        /\ HoldFulfillmentOrder(o, k) \in Orders /\ HoldFulfillmentOrder(o, k).lines = o.lines
    <3>1. PICK n, cancelled, held :
            /\ n = o.refunds + 1 /\ cancelled = o.cancelledBy \cup {k} /\ held = o.heldBy \cup {k}
      OBVIOUS
    <3>2. n \in Nat /\ cancelled \in SUBSET Keys /\ held \in SUBSET Keys
      BY <1>3, <1>5, <3>1 DEF Orders
    <3>3. /\ CreateRefund(o, k) = [o EXCEPT !.refunds = n]
          /\ CancelOrder(o, k) = [o EXCEPT !.cancelledBy = cancelled]
          /\ HoldFulfillmentOrder(o, k) = [o EXCEPT !.heldBy = held]
      BY <3>1 DEF CreateRefund, CancelOrder, HoldFulfillmentOrder
    <3> QED
      BY <1>5, <3>2, <3>3 DEF Orders
  <2>3. Operation(request[k].tool, o, k) \in
          {UpdateOrderNote(o, k), UpdateShippingAddress(o, k), CreateRefund(o, k), CancelOrder(o, k),
           HoldFulfillmentOrder(o, k)}
    BY <1>4 DEF Tools, Operation
  <2> QED
    BY <2>1, <2>2, <2>3
<1>7. order' \in Orders /\ order'.lines = order.lines
  BY <1>2, <1>5, <1>6 DEF MutateOrder
<1> QED
  BY <1>1, <1>2, <1>3, <1>7 DEF IsEdit

(* So it keeps the invariant. *)
LEMMA MutateOrderInv ==
  ASSUME OrderInv, NEW c \in Callers, MutateOrder(c)
  PROVE  OrderInv'
<1>1. /\ edit \in [Callers -> Edits] /\ SessionOK(c) /\ Ledger!IndInv
      /\ UNCHANGED <<request, edit>> /\ Inserted(c) /\ ~IsEdit(c) /\ Ledger!CallProvider(c)
  BY DEF OrderInv, MutateOrder
<1>2. /\ Ledger!CallerStep(c)
      /\ \A q \in Keys \ {txnKey[c]} : effects'[q] = effects[q]
  BY <1>1, ProviderIs
<1>3. edit' = [edit EXCEPT ![c] = NoEdit] /\ edit'[c] = NoEdit /\ NoEdit \in Edits /\ ~NoEdit.open
  BY <1>1 DEF SessionOK, NoEdit, Edits
<1>4. SessionOK(c)'
  BY <1>1, <1>3 DEF SessionOK
<1>5. \A q \in Keys : KeyOK(q)'
  BY <1>1, KeyKept, MutateOrderMoves DEF OrderInv
<1> QED
  BY <1>1, <1>2, <1>3, <1>4, <1>5, MutateOrderMoves, GrowsByNothing, OrderStep

(* A session begins with what earlier commits have left. *)
LEMMA BeginEditInv ==
  ASSUME OrderInv, NEW c \in Callers, BeginEdit(c)
  PROVE  OrderInv'
<1>1. /\ edit \in [Callers -> Edits] /\ order \in Orders /\ request \in [Keys -> Requests]
      /\ Ledger!IndInv /\ Inserted(c) /\ IsEdit(c) /\ UNCHANGED <<request, order, ledgerVars>>
  BY DEF OrderInv, BeginEdit
<1> DEFINE new == [open |-> TRUE, base |-> order.lines, staged |-> <<>>]
<1>2. edit' = [edit EXCEPT ![c] = new] /\ new \in Edits
  BY <1>1 DEF BeginEdit, Orders, Edits
<1>3. txnKey[c] \in Keys /\ WorkOf(c) \in Seq(Sets \cup Additions)
  BY <1>1, LedgerTypes, WorkIs DEF Inserted, WorkOf
<1>4. SoundSession(new, WorkOf(c), Committed(txnKey[c]))
  <2>1. Committed(txnKey[c]) => HasAdditions(order.lines, WorkOf(c))
    BY <1>1, <1>3 DEF OrderInv, KeyOK, AddedOnce, Committed, IsEdit, WorkOf
  <2>2. Len(<<>>) <= Len(WorkOf(c)) /\ DOMAIN <<>> = {}
    BY <1>3
  <2> QED
    BY <2>1, <2>2 DEF SoundSession
<1>5. edit'[c] = new => SessionOK(c)'
  <2>1. new.open /\ Grows(new.base, order.lines)
    BY GrowsByNothing
  <2> HIDE DEF new
  <2> QED
    BY <1>1, <1>4, <2>1 DEF SessionOK, Inserted, IsEdit, WorkOf, Committed, ledgerVars
<1>6. \A q \in Keys : KeyOK(q)'
  BY <1>1, KeyKept DEF OrderInv, ledgerVars
<1> HIDE DEF new
<1> QED
  BY <1>1, <1>2, <1>5, <1>6, GrowsByNothing, OrderStep DEF ledgerVars

(* _resolve_calculated_line_item_id answers with an id it was given or the *)
(* id of a line, if the edit goes on.                                      *)
LEMMA ResolveIs ==
  ASSUME NEW change \in Sets, NEW lines \in Seq(Lines)
  PROVE  Resolve(change, lines) \in LineIds \cup Nat \cup {NoId}
<1> DEFINE ofVariant == SelectInSeq(lines, LAMBDA l : l.variant = change.variant)
           ofTitle   == SelectInSeq(lines, LAMBDA l : l.title = change.title)
           byVariant == {i \in 1 .. Len(lines) : lines[i].variant = change.variant}
           byTitle   == {i \in 1 .. Len(lines) : lines[i].title = change.title}
<1>1. /\ ofVariant = IF byVariant # {} THEN Min(byVariant) ELSE 0
      /\ ofTitle = IF byTitle # {} THEN Min(byTitle) ELSE 0
  BY DEF SelectInSeq
<1>2. /\ ofVariant # 0 => ofVariant \in DOMAIN lines
      /\ ofTitle # 0 => ofTitle \in DOMAIN lines
  <2>1. byVariant \subseteq Nat /\ byVariant \subseteq DOMAIN lines
    OBVIOUS
  <2>2. byTitle \subseteq Nat /\ byTitle \subseteq DOMAIN lines
    OBVIOUS
  <2> HIDE DEF ofVariant, ofTitle, byVariant, byTitle
  <2>3. byVariant # {} => Min(byVariant) \in byVariant
    BY <2>1, MinIsIn
  <2>4. byTitle # {} => Min(byTitle) \in byTitle
    BY <2>2, MinIsIn
  <2> QED
    BY <1>1, <2>1, <2>2, <2>3, <2>4
<1>3. ASSUME NEW i \in DOMAIN lines PROVE lines[i].id \in LineIds \cup Nat
  <2>1. lines[i] \in Lines
    OBVIOUS
  <2> QED
    BY <2>1 DEF Lines
<1>4. change.calculated \in LineIds \cup {NoId} /\ change.line \in LineIds \cup Nat \cup {NoId}
  BY DEF Sets
<1> QED
  BY <1>2, <1>3, <1>4, OrderAssumption DEF Resolve

(* The lines' quantities do not matter to it. *)
LEMMA ResolveSame ==
  ASSUME NEW change, NEW base \in Seq(Lines), NEW lines \in Seq(Lines), Len(lines) = Len(base),
         \A i \in DOMAIN base : /\ lines[i].id = base[i].id /\ lines[i].variant = base[i].variant
                               /\ lines[i].title = base[i].title
  PROVE  Resolve(change, lines) = Resolve(change, base)
<1> DEFINE variantIn(s) == {i \in 1 .. Len(s) : s[i].variant = change.variant}
           titleIn(s)   == {i \in 1 .. Len(s) : s[i].title = change.title}
           First(S)     == IF S # {} THEN Min(S) ELSE 0
           ofVariant(s) == SelectInSeq(s, LAMBDA l : l.variant = change.variant)
           ofTitle(s)   == SelectInSeq(s, LAMBDA l : l.title = change.title)
<1>1. \A s : ofVariant(s) = First(variantIn(s)) /\ ofTitle(s) = First(titleIn(s))
  BY DEF SelectInSeq
<1>2. DOMAIN base = 1 .. Len(base) /\ Len(base) \in Nat
  OBVIOUS
<1>3. variantIn(lines) = variantIn(base) /\ titleIn(lines) = titleIn(base)
  BY <1>2
<1>4. /\ variantIn(base) \subseteq Nat /\ titleIn(base) \subseteq Nat
      /\ variantIn(base) \subseteq DOMAIN base /\ titleIn(base) \subseteq DOMAIN base
  BY <1>2
<1> HIDE DEF variantIn, titleIn
<1>5. /\ First(variantIn(base)) # 0 => First(variantIn(base)) \in DOMAIN base
      /\ First(titleIn(base)) # 0 => First(titleIn(base)) \in DOMAIN base
  BY <1>4, MinIsIn
<1> HIDE DEF First
<1>6. /\ ofVariant(lines) = ofVariant(base) /\ ofTitle(lines) = ofTitle(base)
      /\ ofVariant(base) # 0 => lines[ofVariant(base)].id = base[ofVariant(base)].id
      /\ ofTitle(base) # 0 => lines[ofTitle(base)].id = base[ofTitle(base)].id
  BY <1>1, <1>3, <1>5
<1> QED
  BY <1>6 DEF Resolve

(* What is sent is the change, but for the line it names. *)
LEMMA SentIs ==
  ASSUME NEW change \in Sets \cup Additions, NEW base \in Seq(Lines)
  PROVE  /\ AsSent(change, base) \in Sets \cup Additions
         /\ AsSent(change, base).kind = change.kind
         /\ AsSent(change, base).quantity = change.quantity
         /\ change.kind = "set" => AsSent(change, base).line = Resolve(change, base)
         /\ change.kind = "add" => AsSent(change, base) = change
<1>1. CASE change.kind = "set"
  <2>1. change \in Sets
    BY <1>1 DEF Additions
  <2>2. PICK id : id = Resolve(change, base) /\ id \in LineIds \cup Nat \cup {NoId}
    BY <2>1, ResolveIs
  <2>3. AsSent(change, base) = [change EXCEPT !.line = id]
    BY <1>1, <2>2 DEF AsSent
  <2>4. PICK sent : sent = [change EXCEPT !.line = id]
    OBVIOUS
  <2>5. /\ sent \in Sets /\ sent.quantity = change.quantity /\ sent.kind = "set"
        /\ sent.line = id
    BY <2>1, <2>2, <2>4 DEF Sets
  <2> QED
    BY <1>1, <2>2, <2>3, <2>4, <2>5
<1>2. CASE change.kind = "add"
  BY <1>2 DEF AsSent
<1> QED
  BY <1>1, <1>2 DEF Sets, Additions

(* What is staged has its sets first, as the work has. *)
LEMMA StagedFirst ==
  ASSUME NEW work \in Seq(Sets \cup Additions), NEW m, SetsFirst(work, m),
         NEW staged \in Seq(StagedChanges), Len(staged) <= Len(work), NEW base \in Seq(Lines),
         \A i \in DOMAIN staged : staged[i] = AsSent(work[i], base),
         NEW n, n = IF Len(staged) <= m THEN Len(staged) ELSE m
  PROVE  SetsFirst(staged, n)
<1>1. /\ Len(staged) \in Nat /\ Len(work) \in Nat /\ m \in 0 .. Len(work)
      /\ DOMAIN staged = 1 .. Len(staged) /\ DOMAIN work = 1 .. Len(work)
  BY DEF SetsFirst
<1>2. n \in 0 .. Len(staged)
  BY <1>1
<1>3. ASSUME NEW i \in DOMAIN staged PROVE staged[i].kind = "set" <=> i <= n
  <2>1. i \in DOMAIN work
    BY <1>1
  <2>2. work[i] \in Sets \cup Additions
    BY <2>1
  <2>3. staged[i].kind = work[i].kind
    BY <2>2, SentIs
  <2>4. i <= n <=> i <= m
    BY <1>1
  <2> QED
    BY <2>1, <2>3, <2>4 DEF SetsFirst
<1> QED
  BY <1>2, <1>3 DEF SetsFirst

(* What the code and Shopify accept, the session can make. *)
LEMMA AcceptedIs ==
  ASSUME NEW next \in Sets \cup Additions, NEW base \in Seq(Lines), NEW lines \in Seq(Lines),
         Grows(base, lines), Possible(next, lines),
         next.kind = "set" =>
           /\ Resolve(next, lines) = Resolve(next, base)
           /\ DOMAIN lines = DOMAIN base
  PROVE  AsSent(next, base) \in StagedChanges /\ Makes(next, base)
<1>1. QuantityOK(next.quantity)
  BY DEF Possible
<1>2. AsSent(next, base) \in StagedChanges
  BY <1>1, SentIs DEF StagedChanges
<1>3. CASE next.kind = "set"
  <2>1. PICK j \in DOMAIN lines : lines[j].id = Resolve(next, lines)
    BY <1>3 DEF Possible
  <2>2. base[j].id = lines[j].id
    BY <1>3, <2>1 DEF Grows
  <2> QED
    BY <1>2, <1>3, <2>1, <2>2 DEF Makes
<1>4. CASE next.kind = "add"
  <2>1. next.allow \/ ~HasVariant(lines, next.variant)
    BY <1>4 DEF Possible, HasVariant
  <2>2. HasVariant(base, next.variant) => HasVariant(lines, next.variant)
    BY GrownHas
  <2> QED
    BY <1>2, <1>4, <2>1, <2>2 DEF Makes
<1> QED
  BY <1>3, <1>4 DEF Sets, Additions

(* One more change is staged. *)
LEMMA StageChangeInv ==
  ASSUME OrderInv, NEW c \in Callers, StageChange(c)
  PROVE  OrderInv'
<1>1. /\ edit \in [Callers -> Edits] /\ order \in Orders /\ request \in [Keys -> Requests]
      /\ Ledger!IndInv /\ Inserted(c) /\ SessionOK(c) /\ UNCHANGED <<request, order, ledgerVars>>
  BY DEF OrderInv, StageChange
<1>2. PICK e, work, next, m :
        /\ e = edit[c] /\ work = WorkOf(c) /\ next = NextChange(c)
        /\ m = Len(SetsOf(request[txnKey[c]]))
        /\ e \in Edits /\ e.open
  BY <1>1 DEF StageChange
<1>3. /\ txnKey[c] \in Keys /\ work \in Seq(Sets \cup Additions) /\ SetsFirst(work, m)
  BY <1>1, <1>2, LedgerTypes, WorkIs DEF Inserted, WorkOf
<1>4. SoundSession(e, work, Committed(txnKey[c])) /\ IsEdit(c) /\ Grows(e.base, order.lines)
  BY <1>1, <1>2 DEF SessionOK
<1>5. PICK staged : /\ staged = e.staged /\ staged \in Seq(StagedChanges)
                    /\ Len(staged) < Len(work) /\ next = work[Len(staged) + 1]
  BY <1>2 DEF StageChange, NextChange, Edits
<1>6. Len(staged) + 1 \in DOMAIN work /\ next \in Sets \cup Additions
  BY <1>3, <1>5
<1>7. PICK base \in Seq(Lines) : base = e.base
  BY <1>2 DEF Edits
<1>8. PICK sent : sent = AsSent(next, base) /\ sent \in StagedChanges /\ Makes(next, base)
  <2>1. PICK n : n = IF Len(staged) <= m THEN Len(staged) ELSE m
    OBVIOUS
  <2>2. SetsFirst(staged, n)
    <3>1. Len(staged) <= Len(work)
      BY <1>3, <1>5
    <3>2. \A i \in DOMAIN staged : staged[i] = AsSent(work[i], base)
      BY <1>4, <1>5, <1>7 DEF SoundSession
    <3> QED
      BY <1>3, <1>5, <1>7, <2>1, <3>1, <3>2, StagedFirst
  <2>3. PICK lines \in Seq(Lines) :
          /\ lines = Calculated(c) /\ Grows(base, lines)
          /\ AfterFirst(base, staged, n, Len(staged), lines)
    BY <1>2, <1>5, <1>7, <2>2, StagedAllDoes, StagedAllGrows DEF Calculated
  <2>4. Possible(next, lines)
    BY <1>2, <2>3 DEF StageChange
  <2>5. ASSUME next.kind = "set"
        PROVE  Resolve(next, lines) = Resolve(next, base) /\ DOMAIN lines = DOMAIN base
    <3>1. n = Len(staged) /\ Len(staged) \in Nat
      BY <1>3, <1>5, <1>6, <2>1, <2>5 DEF SetsFirst
    <3>2. Len(lines) = Len(base)
      BY <2>3, <3>1 DEF AfterFirst, Added
    <3>3. Resolve(next, lines) = Resolve(next, base)
      BY <2>3, <3>2, ResolveSame DEF AfterFirst
    <3> QED
      BY <3>2, <3>3
  <2> QED
    BY <1>6, <2>3, <2>4, <2>5, AcceptedIs
<1>9. PICK more : /\ more = Append(staged, sent) /\ more \in Seq(StagedChanges)
                  /\ Len(more) = Len(staged) + 1
                  /\ \A i \in DOMAIN more :
                       \/ i \in DOMAIN staged /\ more[i] = staged[i]
                       \/ i = Len(staged) + 1 /\ more[i] = sent
  <2>1. PICK more : more = Append(staged, sent)
    OBVIOUS
  <2>2. more \in Seq(StagedChanges) /\ Len(more) = Len(staged) + 1
    BY <1>5, <1>8, <2>1, Appended
  <2>3. \A i \in DOMAIN more :
          \/ i \in DOMAIN staged /\ more[i] = staged[i]
          \/ i = Len(staged) + 1 /\ more[i] = sent
    BY <1>5, <1>8, <2>1, Appended
  <2> QED
    BY <2>1, <2>2, <2>3
<1>10. PICK new : /\ new = [e EXCEPT !.staged = more]
                  /\ new \in Edits /\ new.open /\ new.base = base /\ new.staged = more
  <2>1. PICK new : new = [e EXCEPT !.staged = more]
    OBVIOUS
  <2>2. more \in Seq(StagedChanges)
    BY <1>9
  <2>3. new \in Edits /\ new.open /\ new.base = e.base /\ new.staged = more
    BY <1>2, <2>1, <2>2 DEF Edits
  <2> QED
    BY <1>7, <2>1, <2>3
<1>11. edit' = [edit EXCEPT ![c] = new]
  <2>1. edit' = [edit EXCEPT ![c].staged = Append(@, sent)]
    BY <1>2, <1>7, <1>8 DEF StageChange
  <2> QED
    BY <1>1, <1>2, <1>5, <1>9, <1>10, <2>1
<1>12. SoundSession(new, work, Committed(txnKey[c]))
  <2>1. Len(more) <= Len(work)
    BY <1>3, <1>5, <1>9
  <2>2. ASSUME NEW i \in DOMAIN more
        PROVE  more[i] = AsSent(work[i], base) /\ Makes(work[i], base)
    <3>1. CASE i \in DOMAIN staged /\ more[i] = staged[i]
      BY <1>4, <1>5, <1>7, <3>1 DEF SoundSession
    <3>2. CASE i = Len(staged) + 1 /\ more[i] = sent
      BY <1>5, <1>8, <3>2
    <3> QED
      BY <1>9, <3>1, <3>2
  <2>3. Committed(txnKey[c]) => HasAdditions(base, work)
    BY <1>4, <1>7 DEF SoundSession
  <2> QED
    BY <1>10, <2>1, <2>2, <2>3 DEF SoundSession
<1>13. edit'[c] = new => SessionOK(c)'
  BY <1>1, <1>2, <1>4, <1>7, <1>10, <1>12
     DEF SessionOK, Inserted, IsEdit, WorkOf, Committed, ledgerVars
<1>14. \A q \in Keys : KeyOK(q)'
  BY <1>1, KeyKept DEF OrderInv, ledgerVars
<1> QED
  BY <1>1, <1>10, <1>11, <1>13, <1>14, GrowsByNothing, OrderStep DEF ledgerVars

\* The session of a caller is over.
Over(c) == edit' = [edit EXCEPT ![c] = NoEdit]

(* Then nothing is left to show of it. *)
LEMMA SessionOver ==
  ASSUME OrderInv, NEW c \in Callers, Over(c)
  PROVE  /\ NoEdit \in Edits
         /\ edit'[c] = NoEdit => SessionOK(c)'
BY DEF Over, SessionOK, NoEdit, Edits

(* An edit that failed leaves the order as it was ... *)
LEMMA FailEditInv ==
  ASSUME OrderInv, NEW c \in Callers, FailEdit(c)
  PROVE  OrderInv'
<1>1. /\ order \in Orders /\ Ledger!IndInv /\ UNCHANGED <<request, order>> /\ Over(c)
      /\ Ledger!CallProvider(c) /\ outcome'[c] = "error"
  BY DEF OrderInv, FailEdit, Over
<1>2. Ledger!CallerStep(c) /\ effects' = effects
  BY <1>1, ProviderIs
<1>3. \A q \in Keys : KeyOK(q)'
  BY <1>1, <1>2, KeyKept DEF OrderInv
<1> QED
  BY <1>1, <1>2, <1>3, SessionOver, GrowsByNothing, OrderStep DEF Over

(* ... and so does a transaction that is rolled back. *)
LEMMA AbortInv ==
  ASSUME OrderInv, NEW c \in Callers, Abort(c)
  PROVE  OrderInv'
<1>1. /\ order \in Orders /\ Ledger!IndInv /\ UNCHANGED <<request, order>> /\ Over(c)
      /\ Ledger!CallerStep(c) /\ effects' = effects
  BY DEF OrderInv, Abort, Over, Ledger!Abort, Ledger!CallerStep
<1>2. \A q \in Keys : KeyOK(q)'
  BY <1>1, KeyKept DEF OrderInv
<1> QED
  BY <1>1, <1>2, SessionOver, GrowsByNothing, OrderStep DEF Over

(* A commit brings the additions of the edit, of a variant that must not   *)
(* be there twice only if the edit was not committed before.               *)
LEMMA CommitEditInv ==
  ASSUME OrderInv, NEW c \in Callers, CommitEdit(c)
  PROVE  OrderInv'
<1>1. /\ edit \in [Callers -> Edits] /\ order \in Orders /\ request \in [Keys -> Requests]
      /\ Ledger!IndInv /\ Inserted(c) /\ SessionOK(c) /\ UNCHANGED request /\ Over(c)
      /\ Ledger!CallProvider(c) /\ outcome'[c] # "error"
  BY DEF OrderInv, CommitEdit, Over
<1>2. PICK e, work, k, lines :
        /\ e = edit[c] /\ work = WorkOf(c) /\ k = txnKey[c]
        /\ e \in Edits /\ e.open /\ Len(e.staged) = Len(work)
        /\ lines = StagedAll(order.lines, e.staged)
        /\ order' = [order EXCEPT !.lines = lines]
  BY <1>1 DEF CommitEdit
<1>3. /\ Ledger!CallerStep(c) /\ k \in Keys
      /\ \A q \in Keys \ {k} : effects'[q] = effects[q]
      /\ effects'[k] = effects[k] + 1
  BY <1>1, <1>2, ProviderIs
<1>4. PICK m : /\ work \in Seq(Sets \cup Additions) /\ work = Work(request[k])
               /\ SetsFirst(work, m)
  BY <1>1, <1>2, <1>3, WorkIs DEF WorkOf
<1>5. SoundSession(e, work, Committed(k)) /\ IsEdit(c)
  BY <1>1, <1>2 DEF SessionOK
<1>6. PICK staged \in Seq(StagedChanges), base \in Seq(Lines), before \in Seq(Lines) :
        staged = e.staged /\ base = e.base /\ before = order.lines
  BY <1>1, <1>2 DEF Edits, Orders
<1>7. /\ DOMAIN staged = DOMAIN work
      /\ \A i \in DOMAIN work : staged[i] = AsSent(work[i], base) /\ Makes(work[i], base)
  <2>1. Len(staged) = Len(work)
    BY <1>2, <1>6
  <2>2. DOMAIN staged = DOMAIN work
    BY <1>4, <2>1
  <2> QED
    BY <1>5, <1>6, <2>2 DEF SoundSession
<1>8. SetsFirst(staged, m)
  <2>1. Len(staged) = Len(work) /\ Len(work) \in Nat /\ m \in 0 .. Len(work)
    BY <1>2, <1>4, <1>6 DEF SetsFirst
  <2>2. Len(staged) <= Len(work) /\ m = IF Len(staged) <= m THEN Len(staged) ELSE m
    BY <2>1
  <2> QED
    BY <1>4, <1>6, <1>7, <2>2, StagedFirst
<1>9. lines \in Seq(Lines) /\ Grows(before, lines)
  BY <1>2, <1>6, <1>8, StagedAllDoes, StagedAllGrows
<1>10. HasAdditions(lines, work)
  <2>1. \A i \in DOMAIN staged : staged[i].kind = "add" => HasVariant(lines, staged[i].variant)
    BY <1>2, <1>6, <1>8, StagedAllGrows
  <2>2. \A i \in DOMAIN work : work[i].kind = "add" => staged[i] = work[i]
    BY <1>4, <1>6, <1>7, SentIs
  <2> QED
    BY <1>7, <2>1, <2>2 DEF HasAdditions
<1>11. order' \in Orders /\ order'.lines = lines
  BY <1>1, <1>2, <1>9 DEF Orders
<1>12. (\E n \in DOMAIN work : work[n].kind = "add" /\ ~work[n].allow) => effects[k] = 0
  <2>1. SUFFICES ASSUME NEW n \in DOMAIN work, work[n].kind = "add", ~work[n].allow, effects[k] # 0
                 PROVE  FALSE
    OBVIOUS
  <2>2. effects[k] \in Nat
    BY <1>1, <1>3, LedgerTypes
  <2>3. HasVariant(base, work[n].variant)
    BY <1>5, <1>6, <2>1, <2>2 DEF SoundSession, Committed, HasAdditions
  <2> QED
    BY <1>7, <2>1, <2>3 DEF Makes
<1>13. ASSUME NEW q \in Keys PROVE KeyOK(q)'
  <2>1. CASE q = k
    BY <1>1, <1>3, <1>4, <1>10, <1>11, <1>12, <2>1 DEF KeyOK, AddedOnce
  <2>2. CASE q # k
    <3>1. effects'[q] = effects[q] /\ KeyOK(q)
      BY <1>3, <2>2 DEF OrderInv
    <3>2. HasAdditions(order.lines, Work(request[q])) => HasAdditions(lines, Work(request[q]))
      BY <1>6, <1>9, GrownHas DEF HasAdditions
    <3> QED
      BY <1>1, <1>11, <3>1, <3>2 DEF KeyOK, AddedOnce
  <2> QED
    BY <2>1, <2>2
<1>14. Grows(order.lines, order'.lines)
  BY <1>6, <1>9, <1>11
<1> QED
  BY <1>1, <1>2, <1>3, <1>11, <1>13, <1>14, SessionOver, OrderStep DEF Over

(* Every step keeps the invariant. *)
LEMMA StepInv == OrderInv /\ [Next]_orderVars => OrderInv'
<1> SUFFICES ASSUME OrderInv, [Next]_orderVars PROVE OrderInv'
  OBVIOUS
<1>1. CASE Next
  <2>1. PICK c \in Callers : LedgerStep(c) \/ ToolStep(c) \/ Abort(c)
    BY <1>1 DEF Next
  <2> QED
    BY <2>1, LedgerStepInv, MutateOrderInv, BeginEditInv, StageChangeInv, FailEditInv, CommitEditInv,
       AbortInv DEF ToolStep
<1>2. CASE UNCHANGED orderVars
  <2>1. Ledger!IndInv'
    BY <1>2, LedgerNext
       DEF OrderInv, orderVars, ledgerVars, Ledger!vars, Ledger!db, Ledger!session, Ledger!history
  <2>2. UNCHANGED <<request, order, edit, txn, txnKey, effects>>
    BY <1>2 DEF orderVars, ledgerVars
  <2>3. \A c \in Callers : SessionOK(c)'
    BY <2>2 DEF OrderInv, SessionOK, Inserted, IsEdit, WorkOf, Committed
  <2>4. \A k \in Keys : KeyOK(k)'
    BY <2>2 DEF OrderInv, KeyOK
  <2> QED
    BY <2>1, <2>2, <2>3, <2>4 DEF OrderInv
<1> QED
  BY <1>1, <1>2

(* The invariant, from its start and its steps. *)
LEMMA OrderInvariant == Spec => []OrderInv
BY OrderInvInit, StepInv, PTL DEF Spec

-------------------------------------------------------------------------------
(* Types, with what a session may be: it is open only inside the call that *)
(* began it, and stages no more than its work (the with block and the two  *)
(* loops of apply_order_edit).                                             *)
THEOREM OrderTypeCorrect == Spec => []TypeOK
<1>1. OrderInv => TypeOK
  <2> SUFFICES ASSUME OrderInv PROVE TypeOK
    OBVIOUS
  <2>1. /\ request \in [Keys -> Requests] /\ order \in Orders /\ edit \in [Callers -> Edits]
        /\ \A c \in Callers : SessionOK(c)
    BY DEF OrderInv
  <2>2. \A c \in Callers :
          IF edit[c].open THEN Inserted(c) /\ IsEdit(c) /\ Len(edit[c].staged) <= Len(WorkOf(c))
          ELSE edit[c] = NoEdit
    BY <2>1 DEF SessionOK, SoundSession
  <2> QED
    BY <2>1, <2>2 DEF TypeOK, Orders, Edits, StagedChanges
<1> QED
  BY <1>1, OrderInvariant, PTL

(* An edit that adds a variant once does so once, also when its first      *)
(* transaction was rolled back after orderEditCommit and the call is made  *)
(* again: orderEditAddVariant with allowDuplicates: false then answers     *)
(* with a user error, and apply_order_edit raises before the commit.       *)
THEOREM AdditionsHappenOnce == Spec => []AdditionsAreNotRepeated
<1>1. OrderInv => AdditionsAreNotRepeated
  <2> SUFFICES ASSUME OrderInv, NEW k \in Keys, request[k].tool = "shopify_apply_order_edit",
                      AddsOnce(request[k])
               PROVE  effects[k] <= 1
    BY DEF AdditionsAreNotRepeated, AddsOnce
  <2>1. request[k] \in Requests /\ KeyOK(k)
    BY DEF OrderInv
  <2>2. \E n \in DOMAIN Work(request[k]) :
          Work(request[k])[n].kind = "add" /\ ~Work(request[k])[n].allow
    BY <2>1, AdditionsAreWork
  <2> QED
    BY <2>1, <2>2 DEF KeyOK, AddedOnce
<1> QED
  BY <1>1, OrderInvariant, PTL

-------------------------------------------------------------------------------
(* What a commit makes of the order. *)

\* The work made of the lines before those after: m sets, then additions.  The
\* last set of a line decides, the additions follow the lines in their order.
Made(work, m, base, before, after) ==
  /\ SetsFirst(work, m)
  /\ \A n \in DOMAIN work :
       /\ QuantityOK(work[n].quantity)
       /\ work[n].kind = "set" => \E i \in DOMAIN before : before[i].id = Resolve(work[n], base)
  /\ \A i \in DOMAIN before :
       \/ /\ \A n \in DOMAIN work :
               ~(work[n].kind = "set" /\ Resolve(work[n], base) = before[i].id)
          /\ after[i].quantity = before[i].quantity
       \/ \E n \in DOMAIN work :
            /\ work[n].kind = "set" /\ Resolve(work[n], base) = before[i].id
            /\ \A l \in DOMAIN work :
                 work[l].kind = "set" /\ Resolve(work[l], base) = before[i].id => l <= n
            /\ after[i].quantity = work[n].quantity
  /\ Len(after) = Len(before) + (Len(work) - m)
  /\ \A j \in 1 .. Len(work) - m :
       /\ after[Len(before) + j].variant = work[m + j].variant
       /\ after[Len(before) + j].quantity = work[m + j].quantity

(* Staged as it was sent, all the work is made of the lines. *)
LEMMA StagedIsMade ==
  ASSUME NEW work \in Seq(Sets \cup Additions), NEW m, SetsFirst(work, m),
         NEW base \in Seq(Lines), NEW before \in Seq(Lines), Grows(base, before),
         NEW staged \in Seq(StagedChanges), Len(staged) = Len(work), SetsFirst(staged, m),
         \A i \in DOMAIN work : staged[i] = AsSent(work[i], base) /\ Makes(work[i], base)
  PROVE  Made(work, m, base, before, StagedAll(before, staged))
<1>1. PICK after \in Seq(Lines) : /\ after = StagedAll(before, staged)
                                 /\ AfterFirst(before, staged, m, Len(staged), after)
  BY StagedAllDoes
<1>2. PICK N \in Nat : N = Len(work) /\ N = Len(staged)
  OBVIOUS
<1>3. /\ m \in 0 .. N /\ m \in Nat /\ DOMAIN work = 1 .. N /\ DOMAIN staged = 1 .. N
  BY <1>2 DEF SetsFirst
<1>4. ASSUME NEW n \in DOMAIN work
      PROVE  /\ work[n] \in Sets \cup Additions
             /\ work[n].kind = staged[n].kind /\ work[n].quantity = staged[n].quantity
             /\ \A id : SetsLine(staged[n], id) <=>
                         work[n].kind = "set" /\ Resolve(work[n], base) = id
             /\ work[n].kind = "add" => staged[n] = work[n]
  <2>1. work[n] \in Sets \cup Additions
    OBVIOUS
  <2> QED
    BY <2>1, SentIs DEF SetsLine
<1>5. ASSUME NEW n \in DOMAIN work
      PROVE  /\ QuantityOK(work[n].quantity)
             /\ work[n].kind = "set" =>
                  \E i \in DOMAIN before : before[i].id = Resolve(work[n], base)
  <2>1. staged[n] \in StagedChanges
    BY <1>3
  <2>2. QuantityOK(work[n].quantity)
    BY <1>4, <2>1 DEF StagedChanges
  <2>3. PICK id : id = Resolve(work[n], base)
    OBVIOUS
  <2>4. work[n].kind = "set" => \E i \in DOMAIN base : base[i].id = id
    BY <2>3 DEF Makes
  <2>5. (\E i \in DOMAIN base : base[i].id = id) => \E i \in DOMAIN before : before[i].id = id
    BY DEF Grows
  <2> QED
    BY <2>2, <2>3, <2>4, <2>5
<1>6. ASSUME NEW i \in DOMAIN before
      PROVE  \/ /\ \A n \in DOMAIN work :
                     ~(work[n].kind = "set" /\ Resolve(work[n], base) = before[i].id)
                /\ after[i].quantity = before[i].quantity
             \/ \E n \in DOMAIN work :
                  /\ work[n].kind = "set" /\ Resolve(work[n], base) = before[i].id
                  /\ \A l \in DOMAIN work :
                       work[l].kind = "set" /\ Resolve(work[l], base) = before[i].id => l <= n
                  /\ after[i].quantity = work[n].quantity
  <2>1. Decided(staged, N, before[i], after[i].quantity)
    BY <1>1, <1>2 DEF AfterFirst
  <2> QED
    BY <1>3, <1>4, <2>1 DEF Decided
<1>7. Len(after) = Len(before) + (N - m)
  <2>1. Added(m, N) = N - m
    BY <1>3 DEF Added
  <2>2. Len(after) = Len(before) + Added(m, N)
    BY <1>1, <1>2 DEF AfterFirst
  <2> QED
    BY <2>1, <2>2
<1>8. ASSUME NEW j \in 1 .. N - m
      PROVE  /\ after[Len(before) + j].variant = work[m + j].variant
             /\ after[Len(before) + j].quantity = work[m + j].quantity
  <2>1. PICK n : n = m + j /\ n \in DOMAIN work /\ n \in DOMAIN staged /\ m < n /\ n <= N /\ n - m = j
    BY <1>2, <1>3
  <2>2. /\ after[Len(before) + j].variant = staged[n].variant
        /\ after[Len(before) + j].quantity = staged[n].quantity
    BY <1>1, <1>2, <2>1 DEF AfterFirst
  <2>3. staged[n] = work[n]
    <3>1. work[n].kind # "set" /\ work[n] \in Sets \cup Additions
      BY <1>3, <1>4, <2>1 DEF SetsFirst
    <3> QED
      BY <1>4, <2>1, <3>1 DEF Sets, Additions
  <2> QED
    BY <2>1, <2>2, <2>3
<1> QED
  BY <1>1, <1>2, <1>5, <1>6, <1>7, <1>8 DEF Made

(* A commit makes the work of its caller's edit, and only this. *)
LEMMA CommitMakes ==
  ASSUME OrderInv, NEW c \in Callers, CommitEdit(c)
  PROVE  /\ txnKey[c] \in Keys
         /\ \A q \in Keys \ {txnKey[c]} : effects'[q] = effects[q]
         /\ effects'[txnKey[c]] = effects[txnKey[c]] + 1
         /\ Made(WorkOf(c), Len(SetsOf(request[txnKey[c]])), edit[c].base, order.lines, order'.lines)
<1>1. /\ edit \in [Callers -> Edits] /\ order \in Orders /\ request \in [Keys -> Requests]
      /\ Ledger!IndInv /\ SessionOK(c) /\ edit[c].open
      /\ Ledger!CallProvider(c) /\ outcome'[c] # "error"
      /\ Len(edit[c].staged) = Len(WorkOf(c))
      /\ order' = [order EXCEPT !.lines = StagedAll(order.lines, edit[c].staged)]
  BY DEF OrderInv, CommitEdit
<1>2. /\ txnKey[c] \in Keys
      /\ \A q \in Keys \ {txnKey[c]} : effects'[q] = effects[q]
      /\ effects'[txnKey[c]] = effects[txnKey[c]] + 1
  BY <1>1, ProviderIs
<1>3. PICK work, m :
        /\ work \in Seq(Sets \cup Additions) /\ work = WorkOf(c)
        /\ SetsFirst(work, m) /\ m = Len(SetsOf(request[txnKey[c]]))
  BY <1>1, <1>2, WorkIs DEF WorkOf
<1>4. PICK staged \in Seq(StagedChanges), base \in Seq(Lines), before \in Seq(Lines) :
        staged = edit[c].staged /\ base = edit[c].base /\ before = order.lines
  BY <1>1 DEF Edits, Orders
<1>5. SoundSession(edit[c], work, Committed(txnKey[c])) /\ Grows(base, before)
  BY <1>1, <1>3, <1>4 DEF SessionOK
<1>6. Len(staged) = Len(work) /\ DOMAIN staged = DOMAIN work
  BY <1>1, <1>3, <1>4
<1>7. \A i \in DOMAIN work : staged[i] = AsSent(work[i], base) /\ Makes(work[i], base)
  BY <1>4, <1>5, <1>6 DEF SoundSession
<1>8. SetsFirst(staged, m)
  <2>1. Len(staged) = Len(work) /\ Len(work) \in Nat /\ m \in 0 .. Len(work)
    BY <1>3, <1>6 DEF SetsFirst
  <2>2. Len(staged) <= Len(work) /\ m = IF Len(staged) <= m THEN Len(staged) ELSE m
    BY <2>1
  <2> QED
    BY <1>3, <1>6, <1>7, <2>2, StagedFirst
<1>9. Made(work, m, base, before, StagedAll(before, staged))
  BY <1>3, <1>5, <1>6, <1>7, <1>8, StagedIsMade
<1>10. order'.lines = StagedAll(before, staged)
  BY <1>1, <1>4 DEF Orders
<1> QED
  BY <1>2, <1>3, <1>4, <1>9, <1>10

(* Nothing else changes the lines, or is an effect of an edit. *)
LEMMA OnlyCommits ==
  ASSUME OrderInv, [Next]_orderVars, ~ \E c \in Callers : CommitEdit(c)
  PROVE  /\ order'.lines = order.lines
         /\ \A k \in Keys :
              request[k].tool = "shopify_apply_order_edit" => effects'[k] = effects[k]
<1>1. CASE UNCHANGED orderVars
  BY <1>1 DEF orderVars, ledgerVars
<1>2. CASE Next
  <2>1. PICK c \in Callers : LedgerStep(c) \/ ToolStep(c) \/ Abort(c)
    BY <1>2 DEF Next
  <2>2. CASE MutateOrder(c)
    BY <2>2, MutateOrderMoves
  <2>3. CASE FailEdit(c)
    BY <2>3, ProviderIs DEF OrderInv, FailEdit
  <2>4. CASE LedgerStep(c)
    BY <2>4 DEF LedgerStep, Ledger!LookUp, Ledger!InsertPending, Ledger!FinishAndCommit
  <2>5. CASE BeginEdit(c) \/ StageChange(c)
    BY <2>5 DEF BeginEdit, StageChange, ledgerVars
  <2>6. CASE Abort(c)
    BY <2>6 DEF Abort, Ledger!Abort
  <2> QED
    BY <2>1, <2>2, <2>3, <2>4, <2>5, <2>6 DEF ToolStep
<1> QED
  BY <1>1, <1>2

(* m + 1 .. n in their order. *)
LEMMA Numbered ==
  ASSUME NEW m \in Nat, NEW n \in Nat, m <= n
  PROVE  [j \in 1 .. n - m |-> m + j] \in Listings(m + 1 .. n, n - m)
<1> DEFINE f == [j \in 1 .. n - m |-> m + j]
<1>1. f \in [1 .. n - m -> m + 1 .. n]
  OBVIOUS
<1>2. \A i, j \in 1 .. n - m : i < j => f[i] < f[j]
  OBVIOUS
<1>3. ASSUME NEW s \in m + 1 .. n PROVE \E i \in 1 .. n - m : f[i] = s
  <2>1. s - m \in 1 .. n - m /\ m + (s - m) = s
    OBVIOUS
  <2>2. f[s - m] = s
    BY <2>1
  <2> QED
    BY <2>1, <2>2
<1> HIDE DEF f
<1>4. f \in Listings(m + 1 .. n, n - m)
  BY <1>1, <1>2, <1>3 DEF Listings
<1> QED
  BY <1>4 DEF f

(* That is the edit, said of each line at once. *)
LEMMA MadeIsEdited ==
  ASSUME NEW work \in Seq(Sets \cup Additions), NEW m, NEW base, NEW before \in Seq(Lines),
         NEW after, Made(work, m, base, before, after)
  PROVE  Edited(work, base, before, after)
<1>1. /\ Len(work) \in Nat /\ DOMAIN work = 1 .. Len(work) /\ m \in 0 .. Len(work)
      /\ Len(before) \in Nat /\ SetsFirst(work, m)
      /\ Len(after) = Len(before) + (Len(work) - m)
  BY DEF Made, SetsFirst
<1>2. PICK f : f = [j \in 1 .. Len(work) - m |-> m + j]
  OBVIOUS
<1>3. {n \in DOMAIN work : work[n].kind = "add"} = m + 1 .. Len(work)
  <2>1. ASSUME NEW n \in DOMAIN work PROVE work[n].kind = "add" <=> ~(n <= m)
    <3>1. work[n] \in Sets \cup Additions
      OBVIOUS
    <3>2. work[n].kind = "set" <=> n <= m
      BY <1>1 DEF SetsFirst
    <3> QED
      BY <3>1, <3>2 DEF Sets, Additions
  <2> QED
    BY <1>1, <2>1
<1>4. f \in Listings({n \in DOMAIN work : work[n].kind = "add"}, Len(after) - Len(before))
  <2>1. Len(after) - Len(before) = Len(work) - m
    BY <1>1
  <2>2. PICK n \in Nat : n = Len(work)
    BY <1>1
  <2>3. m \in Nat /\ m <= n
    BY <1>1, <2>2
  <2>4. f \in Listings(m + 1 .. n, n - m)
    BY <1>2, <2>2, <2>3, Numbered
  <2> QED
    BY <1>3, <2>1, <2>2, <2>4
<1>5. \A n \in DOMAIN f : /\ after[Len(before) + n].variant = work[f[n]].variant
                          /\ after[Len(before) + n].quantity = work[f[n]].quantity
  BY <1>2 DEF Made
<1>6. \A i \in DOMAIN before :
        \/ /\ \A n \in DOMAIN work :
                ~(work[n].kind = "set" /\ Resolve(work[n], base) = before[i].id)
           /\ after[i].quantity = before[i].quantity
        \/ \E n \in DOMAIN work :
             /\ work[n].kind = "set" /\ Resolve(work[n], base) = before[i].id
             /\ \A l \in DOMAIN work :
                  work[l].kind = "set" /\ Resolve(work[l], base) = before[i].id => l <= n
             /\ after[i].quantity = work[n].quantity
  BY DEF Made
<1> QED
  BY <1>4, <1>5, <1>6 DEF Edited

(* Several requests make one edit, but the lines change by the whole work  *)
(* of it at once, made on the order as it is then, whoever else has edited *)
(* it since orderEditBegin.                                                *)
THEOREM EditsChangeWholly == Spec => EditsAreWhole
<1>1. OrderInv /\ [Next]_orderVars =>
        (order'.lines # order.lines =>
           \E c \in Callers :
             /\ txnKey[c] \in Keys
             /\ effects'[txnKey[c]] = effects[txnKey[c]] + 1
             /\ \A n \in DOMAIN Work(request[txnKey[c]]) :
                  /\ QuantityOK(Work(request[txnKey[c]])[n].quantity)
                  /\ Work(request[txnKey[c]])[n].kind = "set" =>
                       \E i \in DOMAIN order.lines :
                         order.lines[i].id = Resolve(Work(request[txnKey[c]])[n], edit[c].base)
             /\ Edited(Work(request[txnKey[c]]), edit[c].base, order.lines, order'.lines))
  <2> SUFFICES ASSUME OrderInv, [Next]_orderVars, order'.lines # order.lines
               PROVE  \E c \in Callers :
                        /\ txnKey[c] \in Keys
                        /\ effects'[txnKey[c]] = effects[txnKey[c]] + 1
                        /\ \A n \in DOMAIN Work(request[txnKey[c]]) :
                             /\ QuantityOK(Work(request[txnKey[c]])[n].quantity)
                             /\ Work(request[txnKey[c]])[n].kind = "set" =>
                                  \E i \in DOMAIN order.lines :
                                    order.lines[i].id = Resolve(Work(request[txnKey[c]])[n], edit[c].base)
                        /\ Edited(Work(request[txnKey[c]]), edit[c].base, order.lines, order'.lines)
    OBVIOUS
  <2>1. PICK c \in Callers : CommitEdit(c)
    BY OnlyCommits
  <2>2. PICK r, work, m, base, before, after :
          /\ r = request[txnKey[c]] /\ work = Work(r) /\ m = Len(SetsOf(r))
          /\ base = edit[c].base /\ before = order.lines /\ after = order'.lines
    OBVIOUS
  <2>3. /\ txnKey[c] \in Keys /\ effects'[txnKey[c]] = effects[txnKey[c]] + 1
        /\ Made(work, m, base, before, after)
    BY <2>1, <2>2, CommitMakes DEF WorkOf
  <2>4. work \in Seq(Sets \cup Additions) /\ before \in Seq(Lines)
    BY <2>2, <2>3, WorkIs DEF OrderInv, Orders
  <2>5. Edited(work, base, before, after)
    BY <2>3, <2>4, MadeIsEdited
  <2>6. \A n \in DOMAIN work :
          /\ QuantityOK(work[n].quantity)
          /\ work[n].kind = "set" => \E i \in DOMAIN before : before[i].id = Resolve(work[n], base)
    BY <2>3 DEF Made
  <2> QED
    BY <2>2, <2>3, <2>5, <2>6
<1> QED
  BY <1>1, OrderInvariant, PTL DEF Spec, EditsAreWhole

-------------------------------------------------------------------------------
(* From what the customer wants to the work. *)

\* What Exact says of each change.
ExactChange(ch) ==
  /\ ch.action \in {"remove", "swap", "add", "change_quantity"}
  /\ ch.action # "add" => ch.line # NoId
  /\ ch.action \in {"swap", "add"} => ch.variant # NoId /\ Whole(ch.quantity) /\ ch.quantity > 0
  /\ IF ch.action = "change_quantity" THEN Whole(ch.newQuantity) ELSE ch.newQuantity = NoNumber

(* A whole number is read as it is. *)
LEMMA WholeIs ==
  ASSUME NEW halves \in Numbers, Whole(halves)
  PROVE  IntFrom(halves) \in Int /\ 2 * IntFrom(halves) = halves
<1>1. halves \in Int /\ halves >= 0 /\ halves % 2 = 0 /\ halves # NoNumber
  BY OrderAssumption DEF Numbers, Whole
<1>2. 2 * (halves \div 2) = halves /\ halves \div 2 \in Int
  BY <1>1
<1> QED
  BY <1>1, <1>2 DEF IntFrom

(* The planner passes over no exact change, and takes the quantity of each *)
(* as it is; a line that is removed or swapped goes to 0.                  *)
LEMMA ExactIs ==
  ASSUME NEW ch \in Changes, ExactChange(ch)
  PROVE  /\ IsAddition(ch) <=> ch.action \in {"add", "swap"}
         /\ ch.action # "add" =>
              /\ Usable(ch)
              /\ 2 * NewQuantity(ch) = IF ch.action = "change_quantity" THEN ch.newQuantity ELSE 0
         /\ ch.action \in {"add", "swap"} => 2 * AddedQuantity(ch) = ch.quantity
<1>1. ch.newQuantity \in Numbers /\ ch.quantity \in Numbers
  BY DEF Changes
<1>2. IsAddition(ch) <=> ch.action \in {"add", "swap"}
  BY DEF ExactChange, IsAddition
<1>3. ASSUME ch.action # "add"
      PROVE  /\ Usable(ch)
             /\ 2 * NewQuantity(ch) = IF ch.action = "change_quantity" THEN ch.newQuantity ELSE 0
  <2>1. CASE ch.action = "change_quantity"
    <3>1. NewQuantity(ch) = IntFrom(ch.newQuantity)
      BY <2>1 DEF NewQuantity
    <3>2. IntFrom(ch.newQuantity) \in Int /\ 2 * IntFrom(ch.newQuantity) = ch.newQuantity
      BY <1>1, <2>1, WholeIs DEF ExactChange
    <3>3. NewQuantity(ch) # NoNumber
      BY <3>1, <3>2, OrderAssumption
    <3> QED
      BY <1>3, <2>1, <3>1, <3>2, <3>3 DEF ExactChange, Usable
  <2>2. CASE ch.action \in {"remove", "swap"}
    <3>1. NewQuantity(ch) = 0
      BY <2>2 DEF ExactChange, NewQuantity
    <3>2. NewQuantity(ch) # NoNumber
      BY <3>1, OrderAssumption
    <3> QED
      BY <1>3, <2>2, <3>1, <3>2 DEF ExactChange, Usable
  <2> QED
    BY <1>3, <2>1, <2>2 DEF ExactChange
<1>4. ASSUME ch.action \in {"add", "swap"} PROVE 2 * AddedQuantity(ch) = ch.quantity
  <2>1. Whole(ch.quantity) /\ ch.quantity > 0 /\ ch.quantity \in Int
    BY <1>1, <1>4, OrderAssumption DEF ExactChange, Whole, Numbers
  <2>2. IntFrom(ch.quantity) \in Int /\ 2 * IntFrom(ch.quantity) = ch.quantity
    BY <1>1, <2>1, WholeIs
  <2>3. ch.quantity \notin {0, NoNumber} /\ IntFrom(ch.quantity) \notin {0, NoNumber}
    BY <2>1, <2>2, OrderAssumption
  <2>4. AddedQuantity(ch) = IntFrom(ch.quantity)
    BY <2>3 DEF AddedQuantity
  <2> QED
    BY <2>2, <2>4
<1> QED
  BY <1>2, <1>3, <1>4

(* A planned set that the session can make is of the line the change names. *)
LEMMA PlannedLine ==
  ASSUME NEW ch \in Changes, NEW base, Resolve(SetOf(ch), base) # NoId
  PROVE  Resolve(SetOf(ch), base) = ch.line
BY DEF Resolve, SetOf

(* The work of an exact request, made on the order, is what was asked.     *)
LEMMA ExactIsAsked ==
  ASSUME NEW r \in Requests, Exact(r.changes), NEW base, NEW before \in Seq(Lines),
         NEW after, Made(Work(r), Len(SetsOf(r)), base, before, after)
  PROVE  Asked(r.changes, before, after)
<1>1. PICK changes \in Seq(Changes) :
        /\ changes = r.changes /\ changes # <<>>
        /\ \A i \in DOMAIN changes : ExactChange(changes[i])
        /\ \A i, j \in DOMAIN changes :
             changes[i].action # "add" /\ changes[j].action # "add"
               /\ changes[i].line = changes[j].line => i = j
  BY OrderAssumption DEF Exact, ExactChange
<1>2. PICK work \in Seq(Sets \cup Additions), sets \in Seq(Sets), adds \in Seq(Additions) :
        /\ work = Work(r) /\ sets = SetsOf(r) /\ adds = AdditionsOf(r)
        /\ sets = QuantityChanges(changes) /\ adds = VariantAdditions(changes)
  BY <1>1, WorkIs DEF SetsOf, AdditionsOf
<1>3. /\ Len(work) = Len(sets) + Len(adds) /\ SetsFirst(work, Len(sets))
      /\ \A i \in DOMAIN sets : work[i] = sets[i]
      /\ \A j \in DOMAIN adds : work[Len(sets) + j] = adds[j]
  BY <1>2, WorkIs
<1>4. PICK f, g :
        /\ f \in Listings(UsableOf(changes), Len(sets))
        /\ \A j \in 1 .. Len(sets) : f[j] \in UsableOf(changes) /\ sets[j] = SetOf(changes[f[j]])
        /\ g \in Listings(AdditionsIn(changes), Len(adds))
        /\ \A j \in 1 .. Len(adds) : g[j] \in AdditionsIn(changes) /\ adds[j] = AddOf(changes[g[j]])
  <2>1. \E f \in Listings(UsableOf(changes), Len(sets)) :
          \A j \in 1 .. Len(sets) : f[j] \in UsableOf(changes) /\ sets[j] = SetOf(changes[f[j]])
    <3>1. \E f \in Listings(UsableOf(changes), Len(QuantityChanges(changes))) :
            \A j \in 1 .. Len(QuantityChanges(changes)) :
              f[j] \in UsableOf(changes) /\ QuantityChanges(changes)[j] = SetOf(changes[f[j]])
      BY PayloadsAre
    <3> QED
      BY <1>2, <3>1
  <2>2. \E g \in Listings(AdditionsIn(changes), Len(adds)) :
          \A j \in 1 .. Len(adds) : g[j] \in AdditionsIn(changes) /\ adds[j] = AddOf(changes[g[j]])
    <3>1. \E g \in Listings(AdditionsIn(changes), Len(VariantAdditions(changes))) :
            \A j \in 1 .. Len(VariantAdditions(changes)) :
              g[j] \in AdditionsIn(changes) /\ VariantAdditions(changes)[j] = AddOf(changes[g[j]])
      BY PayloadsAre
    <3> QED
      BY <1>2, <3>1
  <2> QED
    BY <2>1, <2>2
<1>5. Made(work, Len(sets), base, before, after)
  BY <1>2
<1>6. /\ DOMAIN sets = 1 .. Len(sets) /\ DOMAIN adds = 1 .. Len(adds) /\ Len(sets) \in Nat
      /\ DOMAIN work = 1 .. Len(work) /\ Len(adds) \in Nat /\ Len(before) \in Nat
  OBVIOUS
<1>7. ASSUME NEW n \in DOMAIN work, work[n].kind = "set"
      PROVE  /\ n \in 1 .. Len(sets) /\ f[n] \in DOMAIN changes /\ changes[f[n]] \in Changes
             /\ changes[f[n]].action # "add"
             /\ work[n].quantity = NewQuantity(changes[f[n]])
             /\ Resolve(work[n], base) = changes[f[n]].line
  <2>1. n \in 1 .. Len(sets)
    BY <1>3, <1>6, <1>7 DEF SetsFirst
  <2>2. f[n] \in UsableOf(changes) /\ work[n] = SetOf(changes[f[n]])
    BY <1>3, <1>4, <1>6, <2>1
  <2>3. f[n] \in DOMAIN changes /\ Usable(changes[f[n]]) /\ changes[f[n]] \in Changes
    BY <2>2 DEF UsableOf
  <2>4. PICK i \in DOMAIN before : before[i].id = Resolve(work[n], base)
    BY <1>5, <1>7 DEF Made
  <2>5. Resolve(work[n], base) # NoId
    <3>1. before[i] \in Lines
      OBVIOUS
    <3> QED
      BY <2>4, <3>1, OrderAssumption DEF Lines
  <2>6. Resolve(work[n], base) = changes[f[n]].line
    BY <2>2, <2>3, <2>5, PlannedLine
  <2> QED
    BY <2>1, <2>2, <2>3, <2>6 DEF Usable, SetOf
<1>8. ASSUME NEW i \in DOMAIN before, \A n \in DOMAIN changes :
               ~(changes[n].action # "add" /\ changes[n].line = before[i].id)
      PROVE  after[i].quantity = before[i].quantity
  <2>1. \A n \in DOMAIN work : ~(work[n].kind = "set" /\ Resolve(work[n], base) = before[i].id)
    BY <1>7, <1>8
  <2> QED
    BY <1>5, <2>1 DEF Made
<1>9. ASSUME NEW i \in DOMAIN before, NEW n \in DOMAIN changes,
             changes[n].action # "add", changes[n].line = before[i].id
      PROVE  2 * after[i].quantity =
               IF changes[n].action = "change_quantity" THEN changes[n].newQuantity ELSE 0
  <2>1. changes[n] \in Changes /\ ExactChange(changes[n])
    BY <1>1
  <2>2. n \in UsableOf(changes)
    BY <1>9, <2>1, ExactIs DEF UsableOf
  <2>3. PICK j \in 1 .. Len(sets) : f[j] = n
    BY <1>4, <2>2 DEF Listings
  <2>4. j \in DOMAIN work /\ work[j].kind = "set"
    <3>1. PICK m \in Nat, k \in Nat : m = Len(sets) /\ k = Len(adds) /\ Len(work) = m + k
      BY <1>3, <1>6
    <3>2. j \in DOMAIN work /\ j <= m
      BY <1>6, <3>1
    <3>3. \A l \in DOMAIN work : work[l].kind = "set" <=> l <= m
      BY <1>3, <3>1 DEF SetsFirst
    <3> QED
      BY <3>2, <3>3
  <2>5. Resolve(work[j], base) = before[i].id
    BY <1>7, <1>9, <2>3, <2>4
  <2>6. PICK l \in DOMAIN work : /\ work[l].kind = "set" /\ Resolve(work[l], base) = before[i].id
                                /\ after[i].quantity = work[l].quantity
    BY <1>5, <2>4, <2>5 DEF Made
  <2>7. f[l] = n /\ after[i].quantity = NewQuantity(changes[n])
    BY <1>1, <1>7, <1>9, <2>6
  <2> QED
    BY <1>9, <2>1, <2>7, ExactIs
<1>10. g \in Listings({n \in DOMAIN changes : changes[n].action \in {"add", "swap"}},
                      Len(after) - Len(before))
  <2>1. AdditionsIn(changes) = {n \in DOMAIN changes : changes[n].action \in {"add", "swap"}}
    <3>1. \A n \in DOMAIN changes : IsAddition(changes[n]) <=> changes[n].action \in {"add", "swap"}
      BY <1>1, ExactIs
    <3> QED
      BY <3>1 DEF AdditionsIn
  <2>2. Len(after) - Len(before) = Len(adds)
    <3>1. Len(after) = Len(before) + (Len(work) - Len(sets))
      BY <1>5 DEF Made
    <3> QED
      BY <1>3, <1>6, <3>1
  <2> QED
    BY <1>4, <2>1, <2>2
<1>11. ASSUME NEW n \in DOMAIN g
       PROVE  /\ after[Len(before) + n].variant = changes[g[n]].variant
              /\ 2 * after[Len(before) + n].quantity = changes[g[n]].quantity
  <2>1. n \in 1 .. Len(adds)
    BY <1>4 DEF Listings
  <2>2. g[n] \in AdditionsIn(changes) /\ work[Len(sets) + n] = AddOf(changes[g[n]])
    BY <1>3, <1>4, <1>6, <2>1
  <2>3. n \in 1 .. Len(work) - Len(sets)
    BY <1>3, <1>6, <2>1
  <2>4. /\ after[Len(before) + n].variant = work[Len(sets) + n].variant
        /\ after[Len(before) + n].quantity = work[Len(sets) + n].quantity
    BY <1>5, <2>3 DEF Made
  <2>5. g[n] \in DOMAIN changes /\ IsAddition(changes[g[n]])
    BY <2>2 DEF AdditionsIn
  <2>6. 2 * AddedQuantity(changes[g[n]]) = changes[g[n]].quantity
    BY <1>1, <2>5, ExactIs
  <2> QED
    BY <2>2, <2>4, <2>6 DEF AddOf
<1>12. Asked(changes, before, after)
  BY <1>8, <1>9, <1>10, <1>11 DEF Asked
<1> QED
  BY <1>1, <1>12

(* An edit that is made is the one the customer asked for, if they said    *)
(* which line, which variant and how many: from the requested changes over *)
(* the planner's payload (QuantityChanges, VariantAdditions) and the       *)
(* requests of the session to the order after the commit.                  *)
THEOREM ExactRequestsMet == Spec => ExactRequestsAreMet
<1>1. OrderInv /\ [Next]_orderVars =>
        \A k \in Keys :
          /\ request[k].tool = "shopify_apply_order_edit"
          /\ effects'[k] > effects[k]
          /\ Exact(request[k].changes)
          => Asked(request[k].changes, order.lines, order'.lines)
  <2> SUFFICES ASSUME OrderInv, [Next]_orderVars, NEW k \in Keys,
                      request[k].tool = "shopify_apply_order_edit", effects'[k] > effects[k],
                      Exact(request[k].changes)
               PROVE  Asked(request[k].changes, order.lines, order'.lines)
    OBVIOUS
  <2>1. effects[k] \in Nat /\ request[k] \in Requests /\ order.lines \in Seq(Lines)
    BY LedgerTypes DEF OrderInv, Orders
  <2>2. effects'[k] # effects[k]
    BY <2>1
  <2>3. PICK c \in Callers : CommitEdit(c)
    BY <2>2, OnlyCommits
  <2>4. txnKey[c] = k
    BY <2>2, <2>3, CommitMakes
  <2>5. PICK r, base, before, after :
          /\ r = request[k] /\ base = edit[c].base /\ before = order.lines
          /\ after = order'.lines
    OBVIOUS
  <2>6. Made(Work(r), Len(SetsOf(r)), base, before, after)
    BY <2>3, <2>4, <2>5, CommitMakes DEF WorkOf
  <2> QED
    BY <2>1, <2>5, <2>6, ExactIsAsked
<1> QED
  BY <1>1, OrderInvariant, PTL DEF Spec, ExactRequestsAreMet

-------------------------------------------------------------------------------
(* Without a rollback after a provider call the mutation of a key happens  *)
(* at most once, for every write tool of shopify.py.                       *)
THEOREM MutationsHappenOnce == Spec => []Ledger!AtMostOnceUnlessRolledBack
<1>1. Ledger!IndInv => Ledger!EffectsAccounted
  BY DEF Ledger!IndInv, Ledger!EffectsBalance, Ledger!EffectsAccounted,
         Ledger!Holders, Ledger!Applied
<1>2. Ledger!TypeOK /\ Ledger!EffectsAccounted => Ledger!AtMostOnceUnlessRolledBack
  BY DEF Ledger!TypeOK, Ledger!EffectsAccounted, Ledger!AtMostOnceUnlessRolledBack
<1> QED
  BY <1>1, <1>2, OrderInvariant, PTL DEF OrderInv, Ledger!IndInv
=============================================================================
