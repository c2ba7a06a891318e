---------------------------- MODULE RecvBufProof ----------------------------
(***************************************************************************)
(* Proofs about RecvBuf: the buffer holds the peer's bytes and loses none, *)
(* its fragments stay apart, a segment that passed the check against the   *)
(* window fits, and what mtcp_recv gives implements ByteStream.            *)
(*                                                                         *)
(* Sequence numbers are compared modulo Word, so the proofs first turn     *)
(* every comparison into one of distances from the head of the buffer (or  *)
(* from the start of the stream), which are less than half of Word.  Then  *)
(* the loop of RBPut over the fragments is shown to give fragments that    *)
(* are apart and cover what was covered and the new bytes; RBPut and       *)
(* RBRemove to keep the meaning of the buffer; and every step the          *)
(* invariant RecvInv.                                                      *)
(***************************************************************************)
EXTENDS RecvBuf, WellFoundedInduction, TLAPS

-----------------------------------------------------------------------------
(* Sequence numbers.  Far is the farthest that two of them are ever apart. *)

Far == Length + MaxWnd

\* The constants as numbers.
LEMMA Constants ==
    /\ Word \in Nat /\ Size \in Nat /\ Irs \in Nat /\ InitWnd \in Nat /\ Length \in Nat
    /\ Scale \in Nat /\ Mss \in Nat /\ MaxField \in Nat /\ Size > 0 /\ Length > 0 /\ Scale > 0
    /\ MaxWnd \in Nat /\ Size <= MaxWnd /\ InitWnd <= MaxWnd
    /\ Irs < Word /\ Far \in Nat /\ 2 * Far < Word /\ Size + 1 <= Far /\ InitWnd <= Far
  BY RecvBounds DEF Far, MaxWnd

\* Sequence numbers wrap around at most once.
LEMMA Wraps ==
    ASSUME NEW x \in Int, -Word <= x, x < 2 * Word
    PROVE  x % Word = IF x < 0 THEN x + Word ELSE IF x < Word THEN x ELSE x - Word
<1>1. Word \in Nat \ {0} BY RecvBounds
<1> QED BY <1>1

\* Adding, without the remainder.
LEMMA AddIs ==
    ASSUME NEW a \in 0 .. Word - 1, NEW n \in 0 .. Word
    PROVE  /\ Add(a, n) \in 0 .. Word - 1
           /\ Add(a, n) = IF a + n < Word THEN a + n ELSE a + n - Word
<1>1. PICK x \in Int : x = a + n /\ -Word <= x /\ x < 2 * Word /\ ~(x < 0) BY Constants
<1>2. x % Word = IF x < 0 THEN x + Word ELSE IF x < Word THEN x ELSE x - Word
  BY Zenon, <1>1, Wraps
<1> QED BY <1>1, <1>2, Constants DEF Add

\* Subtracting, without the remainder.
LEMMA MinusIs ==
    ASSUME NEW a \in 0 .. Word - 1, NEW b \in 0 .. Word - 1
    PROVE  /\ Minus(a, b) \in 0 .. Word - 1
           /\ Minus(a, b) = IF b <= a THEN a - b ELSE a - b + Word
<1>1. a - b \in Int /\ -Word <= a - b /\ a - b < 2 * Word BY Constants
<1>2. (a - b) % Word = IF a - b < 0 THEN a - b + Word ELSE IF a - b < Word THEN a - b ELSE a - b - Word
  BY Zenon, <1>1, Wraps
<1> QED BY <1>1, <1>2, Constants DEF Minus

\* Going x forward from h, and back.
LEMMA AddFar ==
    ASSUME NEW h \in 0 .. Word - 1, NEW x \in 0 .. Far
    PROVE  /\ Add(h, x) \in 0 .. Word - 1
           /\ Add(h, x) = IF h + x < Word THEN h + x ELSE h + x - Word
           /\ Minus(Add(h, x), h) = x
<1>1. x \in 0 .. Word BY Constants
<1>2. /\ Add(h, x) \in 0 .. Word - 1
      /\ Add(h, x) = IF h + x < Word THEN h + x ELSE h + x - Word
  BY Zenon, <1>1, AddIs
<1>3. PICK a \in 0 .. Word - 1 : a = Add(h, x) BY Zenon, <1>2
<1>4. Minus(a, h) = IF h <= a THEN a - h ELSE a - h + Word BY Zenon, MinusIs
<1>5. Minus(a, h) = x BY <1>2, <1>3, <1>4, Constants
<1> QED BY Zenon, <1>2, <1>3, <1>5

\* Every number is some way forward from h.
LEMMA AddMinus ==
    ASSUME NEW h \in 0 .. Word - 1, NEW a \in 0 .. Word - 1
    PROVE  Minus(a, h) \in 0 .. Word - 1 /\ Add(h, Minus(a, h)) = a
<1>1. PICK x \in 0 .. Word - 1 : x = Minus(a, h) /\ x = IF h <= a THEN a - h ELSE a - h + Word
  BY Zenon, MinusIs
<1>2. x \in 0 .. Word BY Constants
<1>3. Add(h, x) = IF h + x < Word THEN h + x ELSE h + x - Word BY Zenon, <1>2, AddIs
<1>4. Add(h, x) = a BY <1>1, <1>3, Constants
<1> QED BY Zenon, <1>1, <1>4

\* Going x forward, and y more.
LEMMA AddAdd ==
    ASSUME NEW h \in 0 .. Word - 1, NEW x \in 0 .. Far, NEW y \in 0 .. Far
    PROVE  Add(Add(h, x), y) = Add(h, x + y)
<1>1. PICK a \in 0 .. Word - 1 : a = Add(h, x) /\ a = IF h + x < Word THEN h + x ELSE h + x - Word
  BY Zenon, AddFar
<1>2. Add(a, y) = IF a + y < Word THEN a + y ELSE a + y - Word BY Zenon, AddFar
<1>3. x + y \in 0 .. Word BY Constants
<1>4. Add(h, x + y) = IF h + (x + y) < Word THEN h + (x + y) ELSE h + (x + y) - Word
  BY Zenon, <1>3, AddIs
<1>5. Add(a, y) = Add(h, x + y) BY <1>1, <1>2, <1>4, Constants
<1> QED BY Zenon, <1>1, <1>5

\* How far apart two numbers are that are x and y forward from h.
LEMMA MinusApart ==
    ASSUME NEW h \in 0 .. Word - 1, NEW x \in 0 .. Far, NEW y \in 0 .. Far, x <= y
    PROVE  Minus(Add(h, y), Add(h, x)) = y - x
<1>1. PICK a \in 0 .. Word - 1 : a = Add(h, x) /\ a = IF h + x < Word THEN h + x ELSE h + x - Word
  BY Zenon, AddFar
<1>2. PICK b \in 0 .. Word - 1 : b = Add(h, y) /\ b = IF h + y < Word THEN h + y ELSE h + y - Word
  BY Zenon, AddFar
<1>3. Minus(b, a) = IF a <= b THEN b - a ELSE b - a + Word BY Zenon, MinusIs
<1>4. Minus(b, a) = y - x BY <1>1, <1>2, <1>3, Constants
<1> QED BY Zenon, <1>1, <1>2, <1>4

\* Comparing two numbers is comparing how far they are from a third.
LEMMA MinMaxSeq ==
    ASSUME NEW h \in 0 .. Word - 1, NEW x \in 0 .. Far, NEW y \in 0 .. Far
    PROVE  /\ GetMinSeq(Add(h, x), Add(h, y)) = IF x <= y THEN Add(h, x) ELSE Add(h, y)
           /\ GetMaxSeq(Add(h, x), Add(h, y)) = IF x <= y THEN Add(h, y) ELSE Add(h, x)
           /\ Add(h, x) = Add(h, y) => x = y
<1>1. PICK a \in 0 .. Word - 1 : a = Add(h, x) /\ a = IF h + x < Word THEN h + x ELSE h + x - Word
  BY Zenon, AddFar
<1>2. PICK b \in 0 .. Word - 1 : b = Add(h, y) /\ b = IF h + y < Word THEN h + y ELSE h + y - Word
  BY Zenon, AddFar
<1>3. PICK half \in Nat : half = (Word - 1) \div 2 /\ 2 * half <= Word - 1 /\ Word - 1 <= 2 * half + 1
  BY Constants
<1>4. /\ GetMinSeq(a, b) = IF x <= y THEN a ELSE b
      /\ GetMaxSeq(a, b) = IF x <= y THEN b ELSE a
      /\ a = b => x = y
  BY Constants, <1>1, <1>2, <1>3 DEF GetMinSeq, GetMaxSeq, Near, Greater, Lesser
<1> QED BY Zenon, <1>1, <1>2, <1>4

\* GetMinSeq, of two numbers that are x and y forward from h.
LEMMA MinSeq ==
    ASSUME NEW h \in 0 .. Word - 1, NEW x \in 0 .. Far, NEW y \in 0 .. Far
    PROVE  GetMinSeq(Add(h, x), Add(h, y)) = IF x <= y THEN Add(h, x) ELSE Add(h, y)
BY Zenon, MinMaxSeq

\* GetMaxSeq, of the same.
LEMMA MaxSeq ==
    ASSUME NEW h \in 0 .. Word - 1, NEW x \in 0 .. Far, NEW y \in 0 .. Far
    PROVE  GetMaxSeq(Add(h, x), Add(h, y)) = IF x <= y THEN Add(h, y) ELSE Add(h, x)
BY Zenon, MinMaxSeq

-----------------------------------------------------------------------------
(* Fragments, by their distance from the head h of the buffer. *)

Off(h, f) == Minus(f.seq, h)
End(h, f) == Off(h, f) + f.len
In(h, f, x) == Off(h, f) <= x /\ x < End(h, f)
Frags(h) == {f \in Fragment : End(h, f) <= Size}

\* Ascending, with a gap before each but the first.
Apart(h, fs) == \A i, j \in DOMAIN fs : i < j => End(h, fs[i]) < Off(h, fs[j])

\* The distances from the head of the bytes that are there.
Cover(h, fs) == {x \in 0 .. Size - 1 : \E i \in DOMAIN fs : In(h, fs[i], x)}

\* The numbers that describe a fragment.
LEMMA FragIs ==
    ASSUME NEW h \in 0 .. Word - 1, NEW f \in Frags(h)
    PROVE  /\ f.seq \in 0 .. Word - 1 /\ f.len \in 1 .. Size
           /\ Off(h, f) \in 0 .. Size - 1 /\ End(h, f) \in 1 .. Size
           /\ End(h, f) = Off(h, f) + f.len
           /\ f.seq = Add(h, Off(h, f)) /\ Add(f.seq, f.len) = Add(h, End(h, f))
           /\ f = [seq |-> f.seq, len |-> f.len]
<1>1. f.seq \in 0 .. Word - 1 /\ f.len \in 1 .. Size /\ f = [seq |-> f.seq, len |-> f.len]
  BY DEF Frags, Fragment
<1>2. PICK x \in 0 .. Word - 1 : x = Off(h, f) /\ f.seq = Add(h, x)
  BY Zenon, <1>1, AddMinus DEF Off
<1>3. End(h, f) <= Size /\ End(h, f) = x + f.len BY Zenon, <1>2 DEF Frags, End
<1>4. x \in 0 .. Size - 1 /\ x + f.len \in 1 .. Size /\ x \in 0 .. Far /\ f.len \in 0 .. Far
  BY <1>1, <1>2, <1>3, Constants
<1>5. Add(Add(h, x), f.len) = Add(h, x + f.len) BY Zenon, <1>4, AddAdd
<1> QED BY Zenon, <1>1, <1>2, <1>3, <1>4, <1>5

\* A fragment from its first byte and its length.
FragAt(h, x, n) == [seq |-> Add(h, x), len |-> n]

\* Such a fragment is one of the buffer's, if it ends within it.
LEMMA FragOf ==
    ASSUME NEW h \in 0 .. Word - 1, NEW x \in 0 .. Size - 1, NEW n \in 1 .. Size, x + n <= Size
    PROVE  /\ FragAt(h, x, n) \in Frags(h)
           /\ Off(h, FragAt(h, x, n)) = x /\ End(h, FragAt(h, x, n)) = x + n
<1> DEFINE f == FragAt(h, x, n)
<1>1. x \in 0 .. Far BY Constants
<1>2. Add(h, x) \in 0 .. Word - 1 /\ Minus(Add(h, x), h) = x BY Zenon, <1>1, AddFar
<1>3. f.seq = Add(h, x) /\ f.len = n BY Zenon DEF FragAt
<1>4. f \in Fragment BY Zenon, <1>2 DEF Fragment, FragAt
<1> HIDE DEF f
<1>5. Off(h, f) = x BY Zenon, <1>2, <1>3 DEF Off
<1>6. End(h, f) = x + n BY Zenon, <1>3, <1>5 DEF End
<1> QED BY Zenon, <1>4, <1>5, <1>6 DEF Frags, f

\* Fragments merge when they overlap or touch.
LEMMA CanMergeIs ==
    ASSUME NEW h \in 0 .. Word - 1, NEW f \in Frags(h), NEW g \in Frags(h)
    PROVE  CanMerge(f, g) <=> Off(h, g) <= End(h, f) /\ Off(h, f) <= End(h, g)
<1>1. PICK x \in 0 .. Size - 1, m \in 1 .. Size :
        /\ x = Off(h, f) /\ m = End(h, f) /\ f.seq = Add(h, x) /\ f.len \in 1 .. Size
        /\ m = x + f.len
  BY Zenon, FragIs
<1>2. PICK y \in 0 .. Size - 1, n \in 1 .. Size :
        /\ y = Off(h, g) /\ n = End(h, g) /\ g.seq = Add(h, y) /\ g.len \in 1 .. Size
        /\ n = y + g.len
  BY Zenon, FragIs
<1>3. /\ x \in 0 .. Far /\ y \in 0 .. Far /\ m + 1 \in 0 .. Far /\ n + 1 \in 0 .. Far
      /\ f.len + 1 \in 0 .. Far /\ g.len + 1 \in 0 .. Far
      /\ m + 1 = x + (f.len + 1) /\ n + 1 = y + (g.len + 1)
  BY <1>1, <1>2, Constants
<1>4. Add(f.seq, f.len + 1) = Add(h, m + 1) /\ Add(g.seq, g.len + 1) = Add(h, n + 1)
  <2>1. Add(Add(h, x), f.len + 1) = Add(h, x + (f.len + 1)) BY Zenon, <1>3, AddAdd
  <2>2. Add(Add(h, y), g.len + 1) = Add(h, y + (g.len + 1)) BY Zenon, <1>3, AddAdd
  <2> QED BY Zenon, <1>1, <1>2, <1>3, <2>1, <2>2
<1>5. /\ GetMinSeq(Add(h, m + 1), Add(h, y)) = IF m + 1 <= y THEN Add(h, m + 1) ELSE Add(h, y)
      /\ Add(h, m + 1) = Add(h, y) => m + 1 = y
  BY Zenon, <1>3, MinMaxSeq
<1>6. /\ GetMinSeq(Add(h, n + 1), Add(h, x)) = IF n + 1 <= x THEN Add(h, n + 1) ELSE Add(h, x)
      /\ Add(h, n + 1) = Add(h, x) => n + 1 = x
  BY ZenonT(30), <1>3, MinMaxSeq
<1>7. CanMerge(f, g) <=> /\ GetMinSeq(Add(h, m + 1), Add(h, y)) # Add(h, m + 1)
                         /\ GetMinSeq(Add(h, n + 1), Add(h, x)) # Add(h, n + 1)
  BY Zenon, <1>1, <1>2, <1>4 DEF CanMerge
<1>8. GetMinSeq(Add(h, m + 1), Add(h, y)) # Add(h, m + 1) <=> y <= m
  <2>1. CASE m + 1 <= y BY <1>1, <1>2, <1>5, <2>1
  <2>2. CASE ~(m + 1 <= y)
    <3>1. y <= m /\ m + 1 # y BY <2>2
    <3> QED BY Zenon, <1>5, <2>2, <3>1
  <2> QED BY Zenon, <2>1, <2>2
<1>9. GetMinSeq(Add(h, n + 1), Add(h, x)) # Add(h, n + 1) <=> x <= n
  <2>1. CASE n + 1 <= x BY <1>1, <1>2, <1>6, <2>1
  <2>2. CASE ~(n + 1 <= x)
    <3>1. x <= n /\ n + 1 # x BY <2>2
    <3> QED BY Zenon, <1>6, <2>2, <3>1
  <2> QED BY Zenon, <2>1, <2>2
<1> QED BY Zenon, <1>1, <1>2, <1>7, <1>8, <1>9

\* The fragment that two become reaches from the first start to the last end.
LEMMA MergeIs ==
    ASSUME NEW h \in 0 .. Word - 1, NEW f \in Frags(h), NEW g \in Frags(h)
    PROVE  /\ MergeFragments(f, g) \in Frags(h)
           /\ Off(h, MergeFragments(f, g)) = Lesser(Off(h, f), Off(h, g))
           /\ End(h, MergeFragments(f, g)) = Greater(End(h, f), End(h, g))
<1>1. PICK x \in 0 .. Size - 1, m \in 1 .. Size :
        /\ x = Off(h, f) /\ m = End(h, f) /\ f.seq = Add(h, x) /\ f.len \in 1 .. Size
        /\ m = x + f.len /\ Add(f.seq, f.len) = Add(h, m)
  BY Zenon, FragIs
<1>2. PICK y \in 0 .. Size - 1, n \in 1 .. Size :
        /\ y = Off(h, g) /\ n = End(h, g) /\ g.seq = Add(h, y) /\ g.len \in 1 .. Size
        /\ n = y + g.len /\ Add(g.seq, g.len) = Add(h, n)
  BY Zenon, FragIs
<1>3. PICK lo \in 0 .. Size - 1 : lo = Lesser(x, y) /\ lo = IF x <= y THEN x ELSE y
  BY DEF Lesser
<1>4. PICK hi \in 1 .. Size : hi = Greater(m, n) /\ hi = IF m <= n THEN n ELSE m
  BY DEF Greater
<1>5. /\ x \in 0 .. Far /\ y \in 0 .. Far /\ m \in 0 .. Far /\ n \in 0 .. Far
      /\ lo \in 0 .. Far /\ hi \in 0 .. Far /\ lo <= hi
      /\ hi - lo \in 1 .. Size /\ lo + (hi - lo) <= Size /\ lo + (hi - lo) = hi
  BY <1>1, <1>2, <1>3, <1>4, Constants
<1>6. GetMinSeq(f.seq, g.seq) = Add(h, lo)
  <2>1. GetMinSeq(Add(h, x), Add(h, y)) = IF x <= y THEN Add(h, x) ELSE Add(h, y)
    BY Zenon, <1>5, MinSeq
  <2>2. GetMinSeq(Add(h, x), Add(h, y)) = Add(h, lo) BY Zenon, <1>3, <2>1
  <2> QED BY Zenon, <1>1, <1>2, <2>2
<1>7. GetMaxSeq(Add(f.seq, f.len), Add(g.seq, g.len)) = Add(h, hi)
  <2>1. GetMaxSeq(Add(h, m), Add(h, n)) = IF m <= n THEN Add(h, n) ELSE Add(h, m)
    BY Zenon, <1>5, MaxSeq
  <2>2. GetMaxSeq(Add(h, m), Add(h, n)) = Add(h, hi) BY Zenon, <1>4, <2>1
  <2> QED BY Zenon, <1>1, <1>2, <2>2
<1>8. PICK d \in 1 .. Size : d = hi - lo /\ lo + d <= Size /\ lo + d = hi BY Zenon, <1>5
<1>9. Minus(Add(h, hi), Add(h, lo)) = d BY Zenon, <1>5, <1>8, MinusApart
<1>11. MergeFragments(f, g) = FragAt(h, lo, d) BY Zenon, <1>6, <1>7, <1>9 DEF MergeFragments, FragAt
<1>12. /\ FragAt(h, lo, d) \in Frags(h)
       /\ Off(h, FragAt(h, lo, d)) = lo /\ End(h, FragAt(h, lo, d)) = lo + d
  BY Zenon, <1>8, FragOf
<1> QED BY Zenon, <1>1, <1>2, <1>3, <1>4, <1>8, <1>11, <1>12

\* The test for a fragment that lies behind.
LEMMA BehindIs ==
    ASSUME NEW h \in 0 .. Word - 1, NEW f \in Frags(h), NEW g \in Frags(h)
    PROVE  GetMaxSeq(Add(f.seq, f.len), g.seq) = g.seq <=> End(h, f) <= Off(h, g)
<1>1. PICK m \in 1 .. Size : m = End(h, f) /\ Add(f.seq, f.len) = Add(h, m) BY Zenon, FragIs
<1>2. PICK y \in 0 .. Size - 1 : y = Off(h, g) /\ g.seq = Add(h, y) BY Zenon, FragIs
<1>3. m \in 0 .. Far /\ y \in 0 .. Far BY Constants
<1>4. /\ GetMaxSeq(Add(h, m), Add(h, y)) = IF m <= y THEN Add(h, y) ELSE Add(h, m)
      /\ Add(h, m) = Add(h, y) => m = y
  BY Zenon, <1>3, MinMaxSeq
<1>5. GetMaxSeq(Add(h, m), Add(h, y)) = Add(h, y) <=> m <= y
  <2>1. CASE m <= y BY Zenon, <1>4, <2>1
  <2>2. CASE ~(m <= y)
    <3>1. m # y BY <2>2
    <3> QED BY Zenon, <1>4, <2>2, <3>1
  <2> QED BY Zenon, <2>1, <2>2
<1> QED BY Zenon, <1>1, <1>2, <1>5

-----------------------------------------------------------------------------
(* The loop over the fragments. *)

\* After k turns of the loop that puts new among the fragments f.
LoopInv(h, new, f, l, k) ==
    /\ l \in Loop /\ l.ctx \in Frags(h)
    /\ l.before \in 0 .. k /\ l.next \in l.before + 1 .. k + 1
    /\ \A i \in 1 .. l.before : End(h, f[i]) < Off(h, l.ctx)
    /\ \A x \in Int : In(h, l.ctx, x) <=>
           In(h, new, x) \/ \E i \in l.before + 1 .. l.next - 1 : In(h, f[i], x)
    /\ l.next <= k => End(h, l.ctx) < Off(h, f[l.next])

\* A turn of the loop keeps it.  Once a fragment was merged a later one starts behind
\* its end, so one that does not merge lies behind the whole of ctx.
LEMMA TurnStep ==
    ASSUME NEW h \in 0 .. Word - 1, NEW new \in Frags(h), NEW f \in Seq(Frags(h)), Apart(h, f),
           NEW k \in 1 .. Len(f), NEW l, LoopInv(h, new, f, l, k - 1)
    PROVE  LoopInv(h, new, f, Turn(f, k)[l], k)
<1>1. /\ l \in Loop /\ l.ctx \in Frags(h) /\ l.before \in 0 .. k - 1 /\ l.next \in l.before + 1 .. k
      /\ \A i \in 1 .. l.before : End(h, f[i]) < Off(h, l.ctx)
      /\ \A x \in Int : In(h, l.ctx, x) <=>
             In(h, new, x) \/ \E i \in l.before + 1 .. l.next - 1 : In(h, f[i], x)
      /\ l.next <= k - 1 => End(h, l.ctx) < Off(h, f[l.next])
  <2>1. (k - 1) + 1 = k OBVIOUS
  <2> QED BY Zenon, <2>1 DEF LoopInv
<1>2. DOMAIN f = 1 .. Len(f) /\ Len(f) \in Nat /\ \A i \in 1 .. Len(f) : f[i] \in Frags(h) OBVIOUS
<1>3. PICK g \in Frags(h) : g = f[k] BY Zenon, <1>2
<1>4. PICK c \in Frags(h) : c = l.ctx BY Zenon, <1>1
<1>5. PICK b \in Int, n \in Int : b = l.before /\ n = l.next /\ b \in 0 .. k - 1 /\ n \in b + 1 .. k
  BY <1>1
<1>6. /\ Off(h, g) \in Int /\ End(h, g) \in Int /\ Off(h, c) \in Int /\ End(h, c) \in Int
      /\ Off(h, g) < End(h, g) /\ Off(h, c) < End(h, c)
  <2>1. \A r \in Frags(h) : /\ Off(h, r) \in 0 .. Size - 1 /\ End(h, r) \in 1 .. Size
                            /\ End(h, r) = Off(h, r) + r.len /\ r.len \in 1 .. Size
    BY Zenon, FragIs
  <2>2. \A o \in 0 .. Size - 1, e \in 1 .. Size, m \in 1 .. Size :
            e = o + m => o \in Int /\ e \in Int /\ o < e
    BY Constants
  <2> QED BY Zenon, <2>1, <2>2
<1>7. \A i \in 1 .. k - 1 : End(h, f[i]) < Off(h, g)
  <2>1. \A i \in 1 .. k - 1 : i \in 1 .. Len(f) /\ i < k /\ k \in 1 .. Len(f) BY <1>2
  <2> QED BY Zenon, <1>2, <1>3, <2>1 DEF Apart
<1> DEFINE last == n > b + 1 \/ GetMaxSeq(Add(c.seq, c.len), g.seq) = g.seq
<1>0. PICK T : T = Turn(f, k)[l] BY Zenon
<1> SUFFICES LoopInv(h, new, f, T, k) BY Zenon, <1>0
<1>8. T = IF n # k THEN l
          ELSE IF CanMerge(c, g) THEN [l EXCEPT !.ctx = MergeFragments(c, g), !.next = k + 1]
          ELSE IF last THEN l ELSE [l EXCEPT !.before = k, !.next = k + 1]
  <2>1. Turn(f, k)[l] =
            IF l.next # k THEN l
            ELSE IF CanMerge(l.ctx, f[k])
            THEN [l EXCEPT !.ctx = MergeFragments(@, f[k]), !.next = k + 1]
            ELSE IF l.next > l.before + 1
                    \/ GetMaxSeq(Add(l.ctx.seq, l.ctx.len), f[k].seq) = f[k].seq
            THEN l ELSE [l EXCEPT !.before = k, !.next = k + 1]
    BY Zenon, <1>1 DEF Turn
  <2> QED BY Zenon, <1>0, <1>3, <1>4, <1>5, <2>1
<1>9. CanMerge(c, g) <=> Off(h, g) <= End(h, c) /\ Off(h, c) <= End(h, g) BY Zenon, CanMergeIs
<1>10. GetMaxSeq(Add(c.seq, c.len), g.seq) = g.seq <=> End(h, c) <= Off(h, g) BY Zenon, BehindIs
<1>11. CASE n # k
  <2>1. T = l BY Zenon, <1>8, <1>11
  <2>2. n <= k - 1 /\ b \in 0 .. k /\ n \in b + 1 .. k + 1 BY <1>5, <1>11
  <2> QED BY Zenon, <1>1, <1>5, <2>1, <2>2 DEF LoopInv
<1>12. CASE n = k /\ CanMerge(c, g)
  <2> DEFINE r == MergeFragments(c, g)
  <2>1. r \in Frags(h) /\ Off(h, r) = Lesser(Off(h, c), Off(h, g))
        /\ End(h, r) = Greater(End(h, c), End(h, g))
    BY Zenon, MergeIs
  <2> HIDE DEF r
  <2>2. T = [l EXCEPT !.ctx = r, !.next = k + 1] BY Zenon, <1>8, <1>12 DEF r
  <2>3. T \in Loop /\ T.ctx = r /\ T.before = b /\ T.next = k + 1
    <3>1. r.seq \in Nat /\ r.len \in Nat /\ r = [seq |-> r.seq, len |-> r.len]
      <4>1. r.seq \in 0 .. Word - 1 /\ r.len \in 1 .. Size /\ r = [seq |-> r.seq, len |-> r.len]
        BY Zenon, <2>1, FragIs
      <4> QED BY <4>1
    <3>2. r \in [seq : Nat, len : Nat] /\ k + 1 \in Nat BY <3>1
    <3> QED BY <1>1, <1>5, <2>2, <3>2 DEF Loop
  <2>4. b \in 0 .. k /\ k + 1 \in b + 1 .. k + 1 /\ ~(k + 1 <= k) BY <1>5
  <2>5. \A i \in 1 .. b : End(h, f[i]) < Off(h, r)
    <3>1. \A i \in 1 .. b : i \in 1 .. k - 1 BY <1>5
    <3>2. Off(h, r) = Off(h, c) \/ Off(h, r) = Off(h, g) BY Zenon, <2>1 DEF Lesser
    <3> QED BY Zenon, <1>1, <1>4, <1>5, <1>7, <3>1, <3>2
  <2>6. \A x \in Int : In(h, r, x) <=> In(h, c, x) \/ In(h, g, x)
    BY <1>6, <1>9, <1>12, <2>1 DEF In, Lesser, Greater
  <2>7. ASSUME NEW x \in Int
        PROVE  In(h, r, x) <=> In(h, new, x) \/ \E i \in b + 1 .. (k + 1) - 1 : In(h, f[i], x)
    <3>1. \A i : i \in b + 1 .. (k + 1) - 1 <=> i \in b + 1 .. n - 1 \/ i = k
      BY <1>5, <1>12
    <3>2. In(h, c, x) <=> In(h, new, x) \/ \E i \in b + 1 .. n - 1 : In(h, f[i], x)
      BY Zenon, <1>1, <1>4, <1>5
    <3> QED BY Zenon, <1>3, <2>6, <3>1, <3>2
  <2> QED BY Zenon, <2>1, <2>3, <2>4, <2>5, <2>7 DEF LoopInv
<1>13. CASE n = k /\ ~CanMerge(c, g) /\ last
  <2>1. T = l BY Zenon, <1>8, <1>13
  <2>2. End(h, c) < Off(h, g)
    <3>1. CASE n > b + 1
      <4>1. PICK j \in 1 .. k - 1 : j = k - 1 /\ j \in b + 1 .. n - 1 BY <1>5, <1>13, <3>1
      <4>2. f[j] \in Frags(h) BY <1>2, <4>1
      <4>3. PICK o \in Int, e \in Int : o = Off(h, f[j]) /\ e = End(h, f[j]) /\ o < e /\ e < Off(h, g)
        <5>1. Off(h, f[j]) \in 0 .. Size - 1 /\ End(h, f[j]) \in 1 .. Size
              /\ End(h, f[j]) = Off(h, f[j]) + f[j].len /\ f[j].len \in 1 .. Size
          BY Zenon, <4>2, FragIs
        <5>2. End(h, f[j]) < Off(h, g) BY Zenon, <1>7
        <5> QED BY <5>1, <5>2, Constants
      <4>4. In(h, f[j], o)
        <5>1. o <= o OBVIOUS
        <5> QED BY Zenon, <4>3, <5>1 DEF In
      <4>5. In(h, c, o) BY Zenon, <1>1, <1>4, <1>5, <4>1, <4>4
      <4>6. Off(h, c) <= o BY Zenon, <4>5 DEF In
      <4> QED BY <1>6, <1>9, <1>13, <4>3, <4>6
    <3>2. CASE GetMaxSeq(Add(c.seq, c.len), g.seq) = g.seq
      <4>1. End(h, c) <= Off(h, g) BY Zenon, <1>10, <3>2
      <4> QED BY <1>6, <1>9, <1>13, <4>1
    <3> QED BY Zenon, <1>13, <3>1, <3>2
  <2>3. b \in 0 .. k /\ n \in b + 1 .. k + 1 BY <1>5, <1>13
  <2> QED BY Zenon, <1>1, <1>3, <1>4, <1>5, <1>13, <2>1, <2>2, <2>3 DEF LoopInv
<1>14. CASE n = k /\ ~CanMerge(c, g) /\ ~last
  <2>1. T = [l EXCEPT !.before = k, !.next = k + 1] BY Zenon, <1>8, <1>14
  <2>2. T \in Loop /\ T.ctx = c /\ T.before = k /\ T.next = k + 1
    <3>1. k \in Nat /\ k + 1 \in Nat OBVIOUS
    <3> QED BY <1>1, <1>4, <2>1, <3>1 DEF Loop
  <2>3. End(h, g) < Off(h, c)
    <3>1. ~(End(h, c) <= Off(h, g)) BY Zenon, <1>10, <1>14
    <3> QED BY <1>6, <1>9, <1>14, <3>1
  <2>4. k \in 0 .. k /\ k + 1 \in k + 1 .. k + 1 /\ ~(k + 1 <= k) /\ b = k - 1 BY <1>5, <1>14
  <2>5. \A i \in 1 .. k : End(h, f[i]) < Off(h, c)
    <3>1. \A i \in 1 .. k : i \in 1 .. b \/ i = k BY <2>4
    <3> QED BY Zenon, <1>1, <1>3, <1>4, <1>5, <2>3, <3>1
  <2>6. ASSUME NEW x \in Int
        PROVE  In(h, c, x) <=> In(h, new, x) \/ \E i \in k + 1 .. (k + 1) - 1 : In(h, f[i], x)
    <3>1. \A i : i \notin k + 1 .. (k + 1) - 1 /\ i \notin b + 1 .. n - 1 BY <1>5, <1>14, <2>4
    <3>2. In(h, c, x) <=> In(h, new, x) \/ \E i \in b + 1 .. n - 1 : In(h, f[i], x)
      BY Zenon, <1>1, <1>4, <1>5
    <3> QED BY Zenon, <3>1, <3>2
  <2> QED BY Zenon, <1>4, <2>2, <2>4, <2>5, <2>6 DEF LoopInv
<1> QED BY Zenon, <1>11, <1>12, <1>13, <1>14

\* A nonempty set of numbers has a least element.
LEMMA Least ==
    ASSUME NEW T \in SUBSET Nat, T # {}
    PROVE  \E x \in T : \A y \in T : x <= y
<1> DEFINE R == {ss \in Nat \X Nat : ss[1] < ss[2]}
<1>1. R = OpToRel(<, Nat) BY DEF OpToRel
<1>2. IsWellFoundedOn(R, Nat) BY Zenon, <1>1, NatLessThanWellFounded
<1> HIDE DEF R
<1>3. PICK x \in T : \A y \in T : ~ (<<y, x>> \in R) BY Zenon, <1>2, WFMin
<1>4. \A y \in T : ~(y < x) BY <1>3 DEF R
<1> QED BY <1>4

\* Induction, on the set of the numbers that have the property.
LEMMA NatSet ==
    ASSUME NEW S \in SUBSET Nat, 0 \in S, \A n \in S : n + 1 \in S
    PROVE  S = Nat
<1> SUFFICES ASSUME Nat \ S # {} PROVE FALSE OBVIOUS
<1>1. PICK x \in Nat \ S : \A y \in Nat \ S : x <= y BY Zenon, Least
<1>2. x # 0 /\ x - 1 \in Nat OBVIOUS
<1>3. x - 1 \in S BY <1>1, <1>2
<1>4. (x - 1) + 1 \in S BY <1>3
<1> QED BY <1>4

\* What a sequence is.
LEMMA SeqIs ==
    ASSUME NEW S, NEW u \in Seq(S)
    PROVE  /\ Len(u) \in Nat /\ DOMAIN u = 1 .. Len(u) /\ u = [i \in 1 .. Len(u) |-> u[i]]
           /\ \A i \in 1 .. Len(u) : u[i] \in S
OBVIOUS

\* What is where in two sequences put together.
LEMMA Concat ==
    ASSUME NEW S, NEW u \in Seq(S), NEW v \in Seq(S)
    PROVE  /\ u \o v \in Seq(S) /\ Len(u \o v) = Len(u) + Len(v)
           /\ \A i \in 1 .. Len(u) : (u \o v)[i] = u[i]
           /\ \A i \in Len(u) + 1 .. Len(u) + Len(v) : (u \o v)[i] = v[i - Len(u)]
<1>1. u \o v \in Seq(S) /\ Len(u \o v) = Len(u) + Len(v) OBVIOUS
<1>2. \A i \in 1 .. Len(u) : (u \o v)[i] = u[i] OBVIOUS
<1>3. \A i \in Len(u) + 1 .. Len(u) + Len(v) : (u \o v)[i] = v[i - Len(u)] OBVIOUS
<1> QED BY Zenon, <1>1, <1>2, <1>3

\* A sequence in which c takes the place of what is between b and n.
Spliced(f, b, c, n) == SubSeq(f, 1, b) \o <<c>> \o SubSeq(f, n, Len(f))

\* The loop of Walk ends as LoopInv says.
LEMMA WalkLoop ==
    ASSUME NEW h \in 0 .. Word - 1, NEW new \in Frags(h), NEW f \in Seq(Frags(h)), Apart(h, f)
    PROVE  \E l : /\ LoopInv(h, new, f, l, Len(f))
                  /\ Walk(new, f) = Spliced(f, l.before, l.ctx, l.next)
<1> DEFINE start == [ctx |-> new, before |-> 0, next |-> 1]
           F(m, g) == [k \in 0 .. m |-> IF k = 0 THEN start ELSE Turn(f, k)[g[k - 1]]]
           S == {m \in Nat : \E g : g = F(m, g)}
<1>1. 0 \in S
  <2>1. [k \in 0 .. 0 |-> start] = F(0, [k \in 0 .. 0 |-> start])
    <3>1. \A k \in 0 .. 0 : k = 0 OBVIOUS
    <3> QED BY Zenon, <3>1
  <2> QED BY Zenon, <2>1, 0 \in Nat
<1>2. ASSUME NEW m \in S PROVE m + 1 \in S
  <2>1. m \in Nat /\ m + 1 \in Nat OBVIOUS
  <2>2. PICK g : g = F(m, g) BY Zenon
  <2> DEFINE e == [k \in 0 .. m + 1 |-> IF k = m + 1 THEN Turn(f, m + 1)[g[m]] ELSE g[k]]
  <2>3. ASSUME NEW k \in 0 .. m + 1 PROVE e[k] = IF k = 0 THEN start ELSE Turn(f, k)[e[k - 1]]
    <3>1. CASE k = m + 1
      <4>1. k # 0 /\ k - 1 = m /\ m \in 0 .. m + 1 /\ m # m + 1 BY <2>1, <3>1
      <4>2. e[k] = Turn(f, k)[g[m]] /\ e[m] = g[m] BY Zenon, <3>1, <4>1
      <4> QED BY Zenon, <4>1, <4>2
    <3>2. CASE k # m + 1
      <4>1. k \in 0 .. m /\ (k # 0 => k - 1 \in 0 .. m + 1 /\ k - 1 # m + 1) BY <2>1, <3>2
      <4>2. g[k] = IF k = 0 THEN start ELSE Turn(f, k)[g[k - 1]] BY Zenon, <2>2, <4>1
      <4>3. e[k] = g[k] BY Zenon, <3>2
      <4>4. k # 0 => e[k - 1] = g[k - 1] BY Zenon, <4>1
      <4> QED BY Zenon, <4>2, <4>3, <4>4
    <3> QED BY Zenon, <3>1, <3>2
  <2>4. e = [k \in 0 .. m + 1 |-> e[k]] BY Zenon
  <2> HIDE DEF e
  <2>5. [k \in 0 .. m + 1 |-> e[k]] = F(m + 1, e) BY Zenon, <2>3
  <2> QED BY Zenon, <2>1, <2>4, <2>5
<1>3. Len(f) \in S
  <2> HIDE DEF F
  <2>1. S \in SUBSET Nat BY Zenon
  <2> HIDE DEF S
  <2>2. S = Nat BY Zenon, <1>1, <1>2, <2>1, NatSet
  <2> QED BY <2>2
<1>4. PICK loop : loop = CHOOSE g : g = F(Len(f), g) BY Zenon
<1>5. PICK g : g = F(Len(f), g) BY Zenon, <1>3
<1>6. loop = F(Len(f), loop) BY Zenon, <1>4, <1>5
<1>7. PICK l : l = loop[Len(f)] BY Zenon
<1>8. Walk(new, f) = Spliced(f, l.before, l.ctx, l.next)
  BY Zenon, <1>4, <1>7 DEF Walk, Spliced
<1> DEFINE V == {m \in Nat : m <= Len(f) => LoopInv(h, new, f, loop[m], m)}
<1>9. 0 \in V
  <2>1. Len(f) \in Nat /\ 0 \in 0 .. Len(f) OBVIOUS
  <2>2. loop[0] = start BY Zenon, <1>6, <2>1
  <2>3. new \in [seq : Nat, len : Nat]
    <3>1. new.seq \in 0 .. Word - 1 /\ new.len \in 1 .. Size /\ new = [seq |-> new.seq, len |-> new.len]
      BY Zenon, FragIs
    <3> QED BY <3>1
  <2>4. start \in Loop /\ start.ctx = new /\ start.before = 0 /\ start.next = 1
    BY <2>3 DEF Loop
  <2> HIDE DEF start
  <2>5. /\ start.before \in 0 .. 0 /\ start.next \in start.before + 1 .. 0 + 1
        /\ \A i : i \notin 1 .. start.before
        /\ \A i : i \notin start.before + 1 .. start.next - 1
        /\ ~(start.next <= 0)
    BY <2>4
  <2>6. LoopInv(h, new, f, start, 0) BY Zenon, <2>4, <2>5 DEF LoopInv
  <2> QED BY Zenon, <2>2, <2>6, 0 \in Nat
<1>10. ASSUME NEW m \in V PROVE m + 1 \in V
  <2>0. m \in Nat BY Zenon
  <2>1. m + 1 \in Nat BY <2>0
  <2> SUFFICES ASSUME m + 1 <= Len(f) PROVE LoopInv(h, new, f, loop[m + 1], m + 1)
    BY Zenon, <2>1
  <2>2. /\ m + 1 \in 1 .. Len(f) /\ m + 1 \in 0 .. Len(f) /\ m + 1 # 0 /\ (m + 1) - 1 = m
        /\ m <= Len(f)
    BY <2>0
  <2>3. loop[m + 1] = Turn(f, m + 1)[loop[m]] BY Zenon, <1>6, <2>2
  <2>4. LoopInv(h, new, f, loop[m], (m + 1) - 1) BY Zenon, <2>2
  <2>5. LoopInv(h, new, f, Turn(f, m + 1)[loop[m]], m + 1) BY Zenon, <2>2, <2>4, TurnStep
  <2> QED BY Zenon, <2>3, <2>5
<1>11. LoopInv(h, new, f, l, Len(f))
  <2>1. V \in SUBSET Nat BY Zenon
  <2> HIDE DEF V
  <2>2. V = Nat BY Zenon, <1>9, <1>10, <2>1, NatSet
  <2>3. Len(f) \in V /\ Len(f) <= Len(f) BY <2>2
  <2> QED BY Zenon, <1>7, <2>3 DEF V
<1> QED BY Zenon, <1>8, <1>11

\* Its parts.
Parts(w, f, b, c, n) ==
    /\ Len(w) = b + 2 + Len(f) - n
    /\ \A i \in 1 .. b : w[i] = f[i]
    /\ w[b + 1] = c
    /\ \A i \in b + 2 .. Len(w) : w[i] = f[i - b - 2 + n]

\* What is where in it.
LEMMA Splice ==
    ASSUME NEW h, NEW f \in Seq(Frags(h)), NEW c \in Frags(h),
           NEW b \in 0 .. Len(f), NEW n \in b + 1 .. Len(f) + 1
    PROVE  \E w \in Seq(Frags(h)) : w = Spliced(f, b, c, n) /\ Parts(w, f, b, c, n)
<1> DEFINE S == Frags(h)
<1> HIDE DEF S
<1>0. f \in Seq(S) /\ c \in S /\ Len(f) \in Nat /\ b \in Nat BY DEF S
<1> DEFINE u == SubSeq(f, 1, b)
           v == SubSeq(f, n, Len(f))
           t == <<c>>
           a == u \o t
           w == a \o v
<1>1. u \in Seq(S) /\ Len(u) = b BY <1>0
<1>2. \A i \in 1 .. b : u[i] = f[i] BY <1>0
<1>3. v \in Seq(S) /\ Len(v) = Len(f) - n + 1 BY <1>0
<1>4. \A i \in 1 .. Len(f) - n + 1 : v[i] = f[n + i - 1] BY <1>0
<1>5. t \in Seq(S) /\ Len(t) = 1 /\ t[1] = c BY <1>0
<1>6. w = Spliced(f, b, c, n) BY Zenon DEF Spliced
<1> HIDE DEF u, v, t
<1>7. /\ a \in Seq(S) /\ Len(a) = Len(u) + Len(t)
      /\ \A i \in 1 .. Len(u) : a[i] = u[i]
      /\ \A i \in Len(u) + 1 .. Len(u) + Len(t) : a[i] = t[i - Len(u)]
  BY Zenon, <1>1, <1>5, Concat
<1> HIDE DEF a
<1>8. /\ w \in Seq(S) /\ Len(w) = Len(a) + Len(v)
      /\ \A i \in 1 .. Len(a) : w[i] = a[i]
      /\ \A i \in Len(a) + 1 .. Len(a) + Len(v) : w[i] = v[i - Len(a)]
  <2>1. a \in Seq(S) BY Zenon, <1>7
  <2> QED BY Zenon, <1>3, <2>1, Concat
<1> HIDE DEF w
<1>9. Len(a) = b + 1 /\ a[b + 1] = c
  <2>1. Len(a) = b + 1 /\ b + 1 \in b + 1 .. b + 1 /\ (b + 1) - b = 1 BY <1>0, <1>1, <1>5, <1>7
  <2> QED BY Zenon, <1>1, <1>5, <1>7, <2>1
<1>10. w \in Seq(S) /\ Len(w) = b + 2 + Len(f) - n BY <1>0, <1>3, <1>8, <1>9
<1>11. \A i \in 1 .. b + 1 : w[i] = a[i] BY Zenon, <1>8, <1>9
<1>12. \A i \in b + 2 .. b + 2 + Len(f) - n : w[i] = v[i - (b + 1)]
  <2>1. \A i \in b + 2 .. b + 2 + Len(f) - n : i \in (b + 1) + 1 .. (b + 1) + (Len(f) - n + 1)
    BY <1>0
  <2> QED BY Zenon, <1>3, <1>8, <1>9, <2>1
<1>13. \A i \in 1 .. b : w[i] = f[i]
  <2>1. \A i \in 1 .. b : i \in 1 .. b + 1 OBVIOUS
  <2> QED BY Zenon, <1>1, <1>2, <1>7, <1>11, <2>1
<1>14. w[b + 1] = c
  <2>1. b + 1 \in 1 .. b + 1 OBVIOUS
  <2> QED BY Zenon, <1>9, <1>11, <2>1
<1>15. ASSUME NEW i \in b + 2 .. Len(w) PROVE w[i] = f[i - b - 2 + n]
  <2>1. PICK j \in 1 .. Len(f) - n + 1 : j = i - (b + 1) /\ n + j - 1 = i - b - 2 + n
    BY <1>0, <1>10
  <2>2. w[i] = v[j] BY Zenon, <1>10, <1>12, <2>1
  <2> QED BY Zenon, <1>4, <2>1, <2>2
<1>16. Parts(w, f, b, c, n) BY Zenon, <1>10, <1>13, <1>14, <1>15 DEF Parts
<1> QED BY Zenon, <1>6, <1>10, <1>16 DEF S

\* The loop of RBPut puts the new fragment in its place: the fragments stay apart, and
\* cover what they covered before and what the new one does.
LEMMA WalkIs ==
    ASSUME NEW h \in 0 .. Word - 1, NEW new \in Frags(h), NEW f \in Seq(Frags(h)), Apart(h, f)
    PROVE  \E w \in Seq(Frags(h)) :
               /\ w = Walk(new, f) /\ Len(w) > 0 /\ Apart(h, w)
               /\ \A x \in Int : (\E i \in DOMAIN w : In(h, w[i], x)) <=>
                                 In(h, new, x) \/ \E i \in DOMAIN f : In(h, f[i], x)
<1>1. PICK l : LoopInv(h, new, f, l, Len(f)) /\ Walk(new, f) = Spliced(f, l.before, l.ctx, l.next)
  BY Zenon, WalkLoop
<1>0. PICK b \in 0 .. Len(f), c \in Frags(h) : b = l.before /\ c = l.ctx BY Zenon, <1>1 DEF LoopInv
<1>2. PICK n \in b + 1 .. Len(f) + 1 : b = l.before /\ c = l.ctx /\ n = l.next
  BY Zenon, <1>0, <1>1 DEF LoopInv
<1>3. /\ \A i \in 1 .. b : End(h, f[i]) < Off(h, c)
      /\ \A x \in Int : In(h, c, x) <=> In(h, new, x) \/ \E i \in b + 1 .. n - 1 : In(h, f[i], x)
      /\ n <= Len(f) => End(h, c) < Off(h, f[n])
  BY Zenon, <1>1, <1>2 DEF LoopInv
<1>w. PICK w \in Seq(Frags(h)) : w = Spliced(f, b, c, n) /\ Parts(w, f, b, c, n) BY Zenon, Splice
<1>4. /\ w = Spliced(f, b, c, n) /\ Len(w) = b + 2 + Len(f) - n
      /\ \A i \in 1 .. b : w[i] = f[i]
      /\ w[b + 1] = c
      /\ \A i \in b + 2 .. Len(w) : w[i] = f[i - b - 2 + n]
  BY Zenon, <1>w DEF Parts
<1>5. /\ Len(f) \in Nat /\ DOMAIN f = 1 .. Len(f) /\ DOMAIN w = 1 .. Len(w)
      /\ \A i \in 1 .. Len(f) : f[i] \in Frags(h)
  <2>1. Len(f) \in Nat /\ DOMAIN f = 1 .. Len(f) /\ \A i \in 1 .. Len(f) : f[i] \in Frags(h)
    BY Zenon, SeqIs
  <2>2. DOMAIN w = 1 .. Len(w) BY Zenon, SeqIs
  <2> QED BY Zenon, <2>1, <2>2
<1>6. Len(w) > 0 /\ b + 1 \in 1 .. Len(w) BY <1>4, <1>5
<1>7. \A i \in 1 .. Len(w) :
          \/ i \in 1 .. b /\ i \in 1 .. Len(f) /\ w[i] = f[i]
          \/ i = b + 1 /\ w[i] = c
          \/ i > b + 1 /\ \E j \in n .. Len(f) : j = i - b - 2 + n /\ j \in 1 .. Len(f) /\ w[i] = f[j]
  <2> TAKE i \in 1 .. Len(w)
  <2>1. CASE i <= b
    <3>1. i \in 1 .. b /\ i \in 1 .. Len(f) BY <1>5, <2>1
    <3> QED BY Zenon, <1>4, <3>1
  <2>2. CASE i = b + 1 BY Zenon, <1>4, <2>2
  <2>3. CASE i > b + 1
    <3>1. i \in b + 2 .. Len(w) /\ i - b - 2 + n \in n .. Len(f) /\ i - b - 2 + n \in 1 .. Len(f)
      BY <1>4, <1>5, <2>3
    <3> QED BY Zenon, <1>4, <2>3, <3>1
  <2> QED BY <2>1, <2>2, <2>3
<1>8. \A i \in 1 .. Len(f), j \in 1 .. Len(f) : i < j => End(h, f[i]) < Off(h, f[j])
  BY Zenon, <1>5 DEF Apart
<1>9. \A j \in n .. Len(f) : End(h, c) < Off(h, f[j])
  <2> TAKE j \in n .. Len(f)
  <2>1. j \in 1 .. Len(f) /\ n \in 1 .. Len(f) /\ n <= Len(f) /\ (n = j \/ n < j) BY <1>5
  <2>2. CASE n = j BY Zenon, <1>3, <2>1, <2>2
  <2>3. CASE n < j
    <3>1. End(h, c) < Off(h, f[n]) /\ End(h, f[n]) < Off(h, f[j]) BY Zenon, <1>3, <1>8, <2>1, <2>3
    <3>2. f[n] \in Frags(h) /\ f[j] \in Frags(h) BY Zenon, <1>5, <2>1
    <3>3. /\ Off(h, f[n]) \in 0 .. Size - 1 /\ End(h, f[n]) \in 1 .. Size /\ f[n].len \in 1 .. Size
          /\ End(h, f[n]) = Off(h, f[n]) + f[n].len /\ Off(h, f[j]) \in 0 .. Size - 1
          /\ End(h, c) \in 1 .. Size
      BY Zenon, <3>2, FragIs
    <3> QED BY <3>1, <3>3, Constants
  <2> QED BY Zenon, <2>1, <2>2, <2>3
<1>10. ASSUME NEW i \in 1 .. Len(w), NEW j \in 1 .. Len(w), i < j
       PROVE  End(h, w[i]) < Off(h, w[j])
  <2>1. CASE i \in 1 .. b
    <3>1. i \in 1 .. Len(f) /\ w[i] = f[i] /\ ~(i > b + 1) /\ i # b + 1 BY <1>4, <1>5, <2>1
    <3>2. CASE j \in 1 .. b
      <4>1. j \in 1 .. Len(f) /\ w[j] = f[j] BY <1>4, <1>5, <3>2
      <4> QED BY Zenon, <1>8, <1>10, <3>1, <4>1
    <3>3. CASE j = b + 1 BY Zenon, <1>3, <1>4, <2>1, <3>1, <3>3
    <3>4. CASE j > b + 1
      <4>1. PICK k \in n .. Len(f) : k \in 1 .. Len(f) /\ w[j] = f[k]
        <5>1. ~(j \in 1 .. b) /\ j # b + 1 BY <3>4
        <5> QED BY Zenon, <1>7, <5>1
      <4>2. i < k BY <2>1
      <4> QED BY Zenon, <1>8, <3>1, <4>1, <4>2
    <3> QED BY <3>2, <3>3, <3>4
  <2>2. CASE i = b + 1
    <3>1. ~(j \in 1 .. b) /\ j # b + 1 BY <1>10, <2>2
    <3>2. PICK k \in n .. Len(f) : k \in 1 .. Len(f) /\ w[j] = f[k] BY Zenon, <1>7, <3>1
    <3> QED BY Zenon, <1>4, <1>9, <2>2, <3>2
  <2>3. CASE i > b + 1
    <3>1. ~(j \in 1 .. b) /\ j # b + 1 /\ ~(i \in 1 .. b) /\ i # b + 1 BY <1>10, <2>3
    <3>2. PICK k \in n .. Len(f) : k = i - b - 2 + n /\ k \in 1 .. Len(f) /\ w[i] = f[k]
      BY Zenon, <1>7, <3>1
    <3>3. PICK m \in n .. Len(f) : m = j - b - 2 + n /\ m \in 1 .. Len(f) /\ w[j] = f[m]
      BY Zenon, <1>7, <3>1
    <3>4. k < m BY <1>10, <3>2, <3>3
    <3> QED BY Zenon, <1>8, <3>2, <3>3, <3>4
  <2> QED BY <2>1, <2>2, <2>3
<1>11. Apart(h, w) BY Zenon, <1>5, <1>10 DEF Apart
<1>12. ASSUME NEW x \in Int
       PROVE  (\E i \in DOMAIN w : In(h, w[i], x)) <=>
                  In(h, new, x) \/ \E i \in DOMAIN f : In(h, f[i], x)
  <2>1. ASSUME NEW i \in DOMAIN w, In(h, w[i], x)
        PROVE  In(h, new, x) \/ \E j \in DOMAIN f : In(h, f[j], x)
    <3>1. CASE i \in 1 .. Len(f) /\ w[i] = f[i] BY Zenon, <1>5, <2>1, <3>1
    <3>2. CASE w[i] = c
      <4>1. In(h, new, x) \/ \E j \in b + 1 .. n - 1 : In(h, f[j], x) BY Zenon, <1>3, <2>1, <3>2
      <4>2. \A j \in b + 1 .. n - 1 : j \in 1 .. Len(f) BY <1>5
      <4> QED BY Zenon, <1>5, <4>1, <4>2
    <3>3. CASE \E j \in n .. Len(f) : j \in 1 .. Len(f) /\ w[i] = f[j] BY Zenon, <1>5, <2>1, <3>3
    <3> QED BY Zenon, <1>5, <1>7, <3>1, <3>2, <3>3
  <2>2. ASSUME In(h, new, x) PROVE \E i \in DOMAIN w : In(h, w[i], x)
    BY Zenon, <1>3, <1>4, <1>5, <1>6, <2>2
  <2>3. ASSUME NEW j \in 1 .. Len(f), In(h, f[j], x) PROVE \E i \in DOMAIN w : In(h, w[i], x)
    <3>1. CASE j \in 1 .. b
      <4>1. j \in 1 .. Len(w) BY <1>4, <1>5, <3>1
      <4> QED BY Zenon, <1>4, <1>5, <2>3, <3>1, <4>1
    <3>2. CASE j \in b + 1 .. n - 1 BY Zenon, <1>3, <1>4, <1>5, <1>6, <2>3, <3>2
    <3>3. CASE j >= n
      <4>0. PICK i : i = j + b + 2 - n OBVIOUS
      <4>a. j \in 1 .. Len(f) /\ Len(f) \in Nat /\ Len(w) = b + 2 + Len(f) - n BY Zenon, <1>4, <1>5
      <4>1. i \in b + 2 .. Len(w) /\ i - b - 2 + n = j BY <3>3, <4>0, <4>a
      <4>2. i \in 1 .. Len(w) BY <1>5, <4>1
      <4>3. w[i] = f[j] BY Zenon, <1>4, <4>1
      <4> QED BY Zenon, <1>5, <2>3, <4>2, <4>3
    <3> QED BY <1>5, <3>1, <3>2, <3>3
  <2> QED BY Zenon, <1>5, <2>1, <2>2, <2>3
<1> QED BY Zenon, <1>1, <1>2, <1>4, <1>6, <1>11, <1>12

-----------------------------------------------------------------------------
(* The inductive invariant. *)

Buffer ==
    [data : [0 .. Size - 1 -> 0 .. Length], head_offset : 0 .. Size, tail_offset : 0 .. Size,
     last_len : 0 .. Size, merged_len : 0 .. Size, head_seq : 0 .. Word - 1, fctx : Seq(Fragment)]

Segment ==
    {s \in (-1 .. Length) \X (0 .. Mss) \X BOOLEAN :
        /\ s[2] > 0 => s[1] >= 0
        /\ s[1] + s[2] <= Length /\ (s[3] => s[1] + s[2] = Length)}

\* The bytes at distances d from the head, position n of the stream, are the peer's.
Peers(b, n, d) ==
    \A x \in d : x < b.last_len /\ n + x < Length /\ b.data[b.head_offset + x] = n + x + 1

\* How many bytes are in order.
Merged(h, fs) == IF fs # <<>> /\ fs[1].seq = h THEN fs[1].len ELSE 0

\* A buffer whose head is position n of the stream.
BufferOK(b, n) ==
    /\ b \in Buffer /\ n \in 0 .. Length
    /\ b.last_len = b.tail_offset - b.head_offset /\ b.head_seq = SeqOf(n)
    /\ b.fctx \in Seq(Frags(b.head_seq)) /\ Apart(b.head_seq, b.fctx)
    /\ Peers(b, n, Cover(b.head_seq, b.fctx))
    /\ b.merged_len = Merged(b.head_seq, b.fctx)

\* The position up to which everything was received, and with the FIN.
InOrder == Len(output) + rcvbuf.merged_len
FinSeen == rcv_nxt = SeqOf(Length + 1)
Received == IF FinSeen THEN Length + 1 ELSE InOrder

\* The stack's numbers against the buffer.
StackOK ==
    /\ state \in {"established", "close_wait"}
    /\ state = "close_wait" => segment = None /\ (FinSeen \/ reset)
    /\ FinSeen => state = "close_wait" /\ InOrder = Length
    /\ rcv_nxt = SeqOf(Received)
    /\ rcv_wnd = Size - rcvbuf.merged_len \/ (rcv_wnd = InitWnd /\ InOrder = 0)
    /\ segment # None => segment \in Segment /\ segment[1] + segment[2] <= InOrder + rcv_wnd
    /\ window # None => window \in Seq(Nat) /\ Len(window) = 1
    /\ {ack, need_wnd_adv, reset} \subseteq BOOLEAN

\* What the peer knows, and what the application was given.
EndsOK ==
    /\ una \in 0 .. Received /\ edge \in Nat /\ una <= edge
    /\ output = [k \in 1 .. Len(output) |-> k]
    /\ ended \in BOOLEAN /\ (ended => state = "close_wait" /\ rcvbuf.merged_len = 0)

RecvInv == BufferOK(rcvbuf, Len(output)) /\ StackOK /\ EndsOK

-----------------------------------------------------------------------------
(* Putting a segment into the buffer. *)

\* A byte is covered when it is in a fragment.
LEMMA CoverIs ==
    ASSUME NEW h \in 0 .. Word - 1, NEW fs \in Seq(Frags(h)), NEW x \in Int
    PROVE  x \in Cover(h, fs) <=> \E i \in DOMAIN fs : In(h, fs[i], x)
<1>1. ASSUME NEW i \in DOMAIN fs, In(h, fs[i], x) PROVE x \in 0 .. Size - 1
  <2>1. DOMAIN fs = 1 .. Len(fs) /\ \A j \in 1 .. Len(fs) : fs[j] \in Frags(h) BY Zenon, SeqIs
  <2>2. Off(h, fs[i]) \in 0 .. Size - 1 /\ End(h, fs[i]) \in 1 .. Size BY Zenon, <2>1, FragIs
  <2>3. Off(h, fs[i]) <= x /\ x < End(h, fs[i]) BY Zenon, <1>1 DEF In
  <2> QED BY <2>2, <2>3, Constants
<1> QED BY Zenon, <1>1 DEF Cover

\* What is in order is what is covered from the head on, up to the first gap.
LEMMA MergedIs ==
    ASSUME NEW h \in 0 .. Word - 1, NEW fs \in Seq(Frags(h)), Apart(h, fs)
    PROVE  /\ Merged(h, fs) \in 0 .. Size /\ Merged(h, fs) \notin Cover(h, fs)
           /\ \A x \in 0 .. Merged(h, fs) - 1 : x \in Cover(h, fs)
           /\ fs # <<>> /\ fs[1].seq # h => Merged(h, fs) = 0
           /\ Merged(h, fs) > 0 => /\ Len(fs) > 0 /\ Off(h, fs[1]) = 0 /\ fs[1].seq = h
                                   /\ fs[1].len = Merged(h, fs) /\ End(h, fs[1]) = fs[1].len
<1>1. /\ DOMAIN fs = 1 .. Len(fs) /\ Len(fs) \in Nat
      /\ \A j \in 1 .. Len(fs) : fs[j] \in Frags(h)
  BY Zenon, SeqIs
<1>2. \A j \in 1 .. Len(fs) :
         /\ Off(h, fs[j]) \in 0 .. Size - 1 /\ End(h, fs[j]) \in 1 .. Size /\ fs[j].len \in 1 .. Size
         /\ End(h, fs[j]) = Off(h, fs[j]) + fs[j].len /\ fs[j].seq = Add(h, Off(h, fs[j]))
  BY Zenon, <1>1, FragIs
<1>3. fs # <<>> => Len(fs) > 0 /\ 1 \in 1 .. Len(fs) OBVIOUS
<1>4. h = Add(h, 0)
  <2>1. 0 \in 0 .. Far /\ h + 0 = h /\ h < Word BY Constants
  <2> QED BY <2>1, AddFar, Constants
<1>5. \A j \in 1 .. Len(fs) : fs[j].seq = h <=> Off(h, fs[j]) = 0
  <2> TAKE j \in 1 .. Len(fs)
  <2>1. PICK o \in 0 .. Far : o = Off(h, fs[j]) BY <1>2, Constants
  <2>2. 0 \in 0 .. Far BY Constants
  <2>3. Add(h, o) = Add(h, 0) => o = 0 BY Zenon, <2>2, MinMaxSeq
  <2> QED BY Zenon, <1>2, <1>4, <2>1, <2>3
<1>6. CASE fs # <<>> /\ fs[1].seq = h
  <2>1. Merged(h, fs) = fs[1].len BY Zenon, <1>6 DEF Merged
  <2>2. Off(h, fs[1]) = 0 BY Zenon, <1>3, <1>5, <1>6
  <2>3. PICK m \in 1 .. Size : m = fs[1].len /\ End(h, fs[1]) = m
    <3>1. /\ End(h, fs[1]) = Off(h, fs[1]) + fs[1].len /\ fs[1].len \in 1 .. Size
      BY Zenon, <1>2, <1>3, <1>6
    <3> QED BY <2>2, <3>1
  <2>4. \A x \in 0 .. m - 1 : x \in Int /\ In(h, fs[1], x) BY <2>2, <2>3 DEF In
  <2>5. \A x \in 0 .. m - 1 : x \in Cover(h, fs) BY Zenon, <1>1, <1>3, <1>6, <2>4, CoverIs
  <2>6. m \notin Cover(h, fs)
    <3>0. m \in Int OBVIOUS
    <3>1. SUFFICES ASSUME NEW j \in 1 .. Len(fs), In(h, fs[j], m) PROVE FALSE
      BY Zenon, <1>1, <2>3, <3>0, CoverIs
    <3>2. Off(h, fs[j]) <= m /\ m < End(h, fs[j]) BY Zenon, <3>1 DEF In
    <3>3. CASE j = 1 BY <2>3, <3>2, <3>3
    <3>4. CASE j > 1
      <4>1. End(h, fs[1]) < Off(h, fs[j]) BY Zenon, <1>1, <1>3, <1>6, <3>4 DEF Apart
      <4>2. Off(h, fs[j]) \in 0 .. Size - 1 BY Zenon, <1>2
      <4> QED BY <2>3, <3>2, <4>1, <4>2
    <3> QED BY <3>3, <3>4
  <2>7. m \in 0 .. Size BY Constants
  <2> QED BY Zenon, <1>3, <1>6, <2>1, <2>2, <2>3, <2>5, <2>6, <2>7
<1>7. CASE ~(fs # <<>> /\ fs[1].seq = h)
  <2>1. Merged(h, fs) = 0 BY Zenon, <1>7 DEF Merged
  <2>2. 0 \notin Cover(h, fs)
    <3>0. 0 \in Int OBVIOUS
    <3>1. SUFFICES ASSUME NEW j \in 1 .. Len(fs), In(h, fs[j], 0) PROVE FALSE
      BY Zenon, <1>1, <3>0, CoverIs
    <3>2. fs # <<>> /\ 1 \in 1 .. Len(fs) BY <1>1
    <3>3. Off(h, fs[j]) = 0
      <4>1. Off(h, fs[j]) <= 0 BY Zenon, <3>1 DEF In
      <4>2. Off(h, fs[j]) \in 0 .. Size - 1 BY Zenon, <1>2
      <4> QED BY <4>1, <4>2
    <3>4. CASE j = 1 BY Zenon, <1>5, <1>7, <3>2, <3>3, <3>4
    <3>5. CASE j > 1
      <4>1. End(h, fs[1]) < Off(h, fs[j]) BY Zenon, <1>1, <3>2, <3>5 DEF Apart
      <4>2. End(h, fs[1]) \in 1 .. Size BY Zenon, <1>2, <3>2
      <4> QED BY <3>3, <4>1, <4>2
    <3> QED BY <3>4, <3>5
  <2>3. 0 \in 0 .. Size /\ ~(0 > 0) /\ \A x : x \notin 0 .. 0 - 1 BY Constants
  <2> QED BY Zenon, <2>1, <2>2, <2>3
<1> QED BY Zenon, <1>6, <1>7

\* More is in order when more is covered.
LEMMA MergedGrows ==
    ASSUME NEW h \in 0 .. Word - 1, NEW fs \in Seq(Frags(h)), Apart(h, fs),
           NEW gs \in Seq(Frags(h)), Apart(h, gs), Cover(h, fs) \subseteq Cover(h, gs)
    PROVE  Merged(h, fs) <= Merged(h, gs)
<1>1. /\ Merged(h, fs) \in 0 .. Size /\ \A x \in 0 .. Merged(h, fs) - 1 : x \in Cover(h, fs)
  BY Zenon, MergedIs
<1>2. Merged(h, gs) \in 0 .. Size /\ Merged(h, gs) \notin Cover(h, gs) BY Zenon, MergedIs
<1>3. Merged(h, gs) \notin 0 .. Merged(h, fs) - 1 BY Zenon, <1>1, <1>2
<1> QED BY <1>1, <1>2, <1>3, Constants

\* Making room at the end moves what is there to the front, and keeps it.
LEMMA MoveIs ==
    ASSUME NEW b \in Buffer, b.last_len = b.tail_offset - b.head_offset, NEW e \in 1 .. Size,
           NEW m, m = Move(b, e)
    PROVE  /\ m \in Buffer /\ m.last_len = b.last_len /\ m.tail_offset = m.head_offset + b.last_len
           /\ m.head_offset + e <= Size
           /\ m.merged_len = b.merged_len /\ m.head_seq = b.head_seq /\ m.fctx = b.fctx
           /\ \A y \in 0 .. b.last_len - 1 : m.data[m.head_offset + y] = b.data[b.head_offset + y]
<1>1. /\ b.data \in [0 .. Size - 1 -> 0 .. Length] /\ b.head_offset \in 0 .. Size
      /\ b.tail_offset \in 0 .. Size /\ b.last_len \in 0 .. Size
  BY DEF Buffer
<1>2. b.tail_offset = b.head_offset + b.last_len BY <1>1, Constants
<1>3. CASE Size <= b.head_offset + e
  <2> DEFINE d == [i \in 0 .. Size - 1 |->
                       IF i < b.last_len THEN b.data[b.head_offset + i] ELSE b.data[i]]
  <2>1. m = [b EXCEPT !.data = d, !.tail_offset = b.tail_offset - b.head_offset, !.head_offset = 0]
    BY Zenon, <1>3 DEF Move
  <2>2. d \in [0 .. Size - 1 -> 0 .. Length]
    <3>0. \A i \in 0 .. Size - 1, o, t, n \in 0 .. Size :
              t = o + n /\ i < n => o + i \in 0 .. Size - 1
      BY Constants
    <3>1. ASSUME NEW i \in 0 .. Size - 1, i < b.last_len PROVE b.head_offset + i \in 0 .. Size - 1
      BY Zenon, <1>1, <1>2, <3>0, <3>1
    <3>2. ASSUME NEW i \in 0 .. Size - 1 PROVE d[i] \in 0 .. Length
      <4>1. CASE i < b.last_len
        <5>1. b.head_offset + i \in 0 .. Size - 1 BY Zenon, <3>1, <4>1
        <5>2. d[i] = b.data[b.head_offset + i] BY Zenon, <4>1
        <5> QED BY Zenon, <1>1, <5>1, <5>2
      <4>2. CASE ~(i < b.last_len)
        <5>1. d[i] = b.data[i] BY Zenon, <4>2
        <5> QED BY Zenon, <1>1, <5>1
      <4> QED BY Zenon, <4>1, <4>2
    <3> QED BY Zenon, <3>2
  <2>3. \A y \in 0 .. b.last_len - 1 : d[y] = b.data[b.head_offset + y]
    <3>1. \A y \in 0 .. b.last_len - 1 : y \in 0 .. Size - 1 /\ y < b.last_len BY SMTT(20), <1>1, Constants
    <3> QED BY Zenon, <3>1
  <2> HIDE DEF d
  <2>4. b.tail_offset - b.head_offset \in 0 .. Size /\ 0 \in 0 .. Size BY <1>1, Constants
  <2>5. m \in Buffer BY Zenon, <2>1, <2>2, <2>4 DEF Buffer
  <2>6. /\ m.data = d /\ m.tail_offset = b.last_len /\ m.head_offset = 0 /\ m.last_len = b.last_len
        /\ m.merged_len = b.merged_len /\ m.head_seq = b.head_seq /\ m.fctx = b.fctx
    BY <2>1 DEF Buffer
  <2>7. \A y \in 0 .. b.last_len - 1 : 0 + y = y BY <1>1
  <2>8. b.last_len = 0 + b.last_len /\ 0 + e <= Size BY <1>1
  <2> QED BY Zenon, <2>3, <2>5, <2>6, <2>7, <2>8
<1>4. CASE ~(Size <= b.head_offset + e)
  <2>1. m = b BY Zenon, <1>4 DEF Move
  <2>2. b.head_offset + e <= Size BY <1>1, <1>4, Constants
  <2> QED BY Zenon, <1>2, <2>1, <2>2
<1> QED BY Zenon, <1>3, <1>4

\* The sequence numbers of the stream's positions.
LEMMA SeqOfIs ==
    ASSUME NEW p \in 0 .. Far
    PROVE  SeqOf(p) \in 0 .. Word - 1 /\ SeqOf(0) \in 0 .. Word - 1 /\ SeqOf(p) = Add(SeqOf(0), p)
<1>1. Irs \in 0 .. Word - 1 /\ 1 \in 0 .. Far /\ 1 + 0 = 1 BY Constants
<1>2. SeqOf(0) = Add(Irs, 1) BY Zenon, <1>1 DEF SeqOf
<1>3. SeqOf(0) \in 0 .. Word - 1 BY Zenon, <1>1, <1>2, AddFar
<1>4. Add(Add(Irs, 1), p) = Add(Irs, 1 + p) BY Zenon, <1>1, AddAdd
<1>5. SeqOf(p) = Add(SeqOf(0), p) BY Zenon, <1>2, <1>4 DEF SeqOf
<1>6. Add(SeqOf(0), p) \in 0 .. Word - 1 BY Zenon, <1>3, AddFar
<1> QED BY Zenon, <1>3, <1>5, <1>6

\* They compare as the positions do.
LEMMA SeqOfTwo ==
    ASSUME NEW p \in 0 .. Far, NEW q \in 0 .. Far
    PROVE  /\ p <= q => Minus(SeqOf(q), SeqOf(p)) = q - p
           /\ GetMinSeq(SeqOf(p), SeqOf(q)) = SeqOf(p) <=> p <= q
           /\ SeqOf(p) = SeqOf(q) => p = q
<1>1. PICK s \in 0 .. Word - 1 : SeqOf(p) = Add(s, p) /\ SeqOf(q) = Add(s, q) BY Zenon, SeqOfIs
<1>2. p <= q => Minus(Add(s, q), Add(s, p)) = q - p BY Zenon, MinusApart
<1>3. GetMinSeq(Add(s, p), Add(s, q)) = IF p <= q THEN Add(s, p) ELSE Add(s, q) BY Zenon, MinSeq
<1>4. Add(s, p) = Add(s, q) => p = q BY Zenon, MinMaxSeq
<1>5. GetMinSeq(Add(s, p), Add(s, q)) = Add(s, p) <=> p <= q
  <2>1. CASE p <= q BY Zenon, <1>3, <2>1
  <2>2. CASE ~(p <= q)
    <3>1. p # q BY <2>2
    <3> QED BY Zenon, <1>3, <1>4, <2>2, <3>1
  <2> QED BY Zenon, <2>1, <2>2
<1> QED BY Zenon, <1>1, <1>2, <1>4, <1>5

\* Going n forward from the number of position p.
LEMMA SeqOfAdd ==
    ASSUME NEW p \in 0 .. Far, NEW n \in 0 .. Far, p + n \in 0 .. Far
    PROVE  Add(SeqOf(p), n) = SeqOf(p + n)
<1>1. SeqOf(0) \in 0 .. Word - 1 /\ SeqOf(p) = Add(SeqOf(0), p) BY Zenon, SeqOfIs
<1>2. SeqOf(p + n) = Add(SeqOf(0), p + n) BY Zenon, SeqOfIs
<1>3. Add(Add(SeqOf(0), p), n) = Add(SeqOf(0), p + n) BY Zenon, <1>1, AddAdd
<1> QED BY Zenon, <1>1, <1>2, <1>3

\* RBPut, when it takes the segment: bytes p + 1 .. p + k, at distance x from the head.
Written(m, x, p, k) ==
    [i \in 0 .. Size - 1 |-> IF i - m.head_offset - x + 1 \in 1 .. k
                             THEN p + (i - m.head_offset - x + 1) ELSE m.data[i]]

Stored(b, p, k, x, m, w, tail) ==
    [m EXCEPT !.data = Written(m, x, p, k), !.tail_offset = tail, !.last_len = tail - m.head_offset,
              !.fctx = w, !.merged_len = IF w[1].seq = b.head_seq THEN w[1].len ELSE m.merged_len]

\* RBPut is that, or leaves the buffer as it is.
LEMMA PutIs ==
    ASSUME NEW b, NEW p \in Nat, NEW k \in Nat \ {0}, NEW s
    PROVE  LET x == Minus(s, b.head_seq)
               m == Move(b, x + k)
           IN  RBPut(b, s, [j \in 1 .. k |-> p + j]) =
                   IF GetMinSeq(b.head_seq, s) # b.head_seq \/ Size < x + k THEN b
                   ELSE Stored(b, p, k, x, m, Walk([seq |-> s, len |-> k], b.fctx),
                             Greater(m.tail_offset, m.head_offset + (x + k)))
<1> DEFINE bytes == [j \in 1 .. k |-> p + j]
           x == Minus(s, b.head_seq)
           m == Move(b, x + k)
<1>1. Len(bytes) = k /\ k # 0 OBVIOUS
<1>2. [i \in 0 .. Size - 1 |->
          LET j == i - m.head_offset - x + 1 IN IF j \in 1 .. k THEN bytes[j] ELSE m.data[i]]
       = Written(m, x, p, k)
  BY Zenon DEF Written
<1> HIDE DEF m, x
<1> QED BY Zenon, <1>1, <1>2 DEF RBPut, Stored, m, x

\* The end of the data, when e bytes from the head on are written.
LEMMA TailIs ==
    ASSUME NEW o \in 0 .. Size, NEW l \in 0 .. Size, NEW e \in 1 .. Size,
           o + l \in 0 .. Size, o + e <= Size, NEW tail, tail = Greater(o + l, o + e)
    PROVE  \E t \in 0 .. Size : /\ t = tail - o /\ tail \in 0 .. Size /\ l <= t /\ e <= t
                               /\ o + t <= Size
<1>1. tail = IF l > e THEN o + l ELSE o + e BY Constants DEF Greater
<1> QED BY <1>1, Constants

\* A byte that was below the end of the data is below the new one.
LEMMA Below ==
    ASSUME NEW o \in 0 .. Size, NEW l \in 0 .. Size, NEW t \in 0 .. Size, l <= t, o + t <= Size,
           NEW y \in 0 .. Size - 1, y < l
    PROVE  y < t /\ y \in 0 .. Size - 1 - o /\ y \in 0 .. l - 1
  BY Constants

\* A sequence over S is one over every larger set.
LEMMA SeqSub ==
    ASSUME NEW S, NEW T, S \subseteq T, NEW u \in Seq(S)
    PROVE  u \in Seq(T)
  OBVIOUS

\* The bytes of the segment are where they belong, and the others where they were.
WrittenOK(m, x, p, k, o) ==
    /\ Written(m, x, p, k) \in [0 .. Size - 1 -> 0 .. Length]
    /\ \A y \in 0 .. Size - 1 - o :
           Written(m, x, p, k)[o + y] =
               IF y \in x .. x + k - 1 THEN p + (y - x + 1) ELSE m.data[o + y]

\* Writing within the buffer does that.
LEMMA WrittenIs ==
    ASSUME NEW m \in Buffer, NEW x \in Nat, NEW p \in Nat, NEW k \in Nat \ {0}, p + k <= Length,
           m.head_offset + x + k <= Size
    PROVE  WrittenOK(m, x, p, k, m.head_offset)
<1>1. PICK o \in 0 .. Size : o = m.head_offset BY DEF Buffer
<1>2. m.data \in [0 .. Size - 1 -> 0 .. Length] BY DEF Buffer
<1>3. Written(m, x, p, k) = [i \in 0 .. Size - 1 |-> IF i - o - x + 1 \in 1 .. k
                                                  THEN p + (i - o - x + 1) ELSE m.data[i]]
  BY Zenon, <1>1 DEF Written
<1>4. \A i \in 0 .. Size - 1 : i - o - x + 1 \in 1 .. k => p + (i - o - x + 1) \in 0 .. Length
  BY Constants
<1>5. Written(m, x, p, k) \in [0 .. Size - 1 -> 0 .. Length]
  <2>1. ASSUME NEW i \in 0 .. Size - 1
        PROVE  (IF i - o - x + 1 \in 1 .. k THEN p + (i - o - x + 1) ELSE m.data[i]) \in 0 .. Length
    <3>1. m.data[i] \in 0 .. Length BY Zenon, <1>2
    <3>2. CASE i - o - x + 1 \in 1 .. k
      <4>1. p + (i - o - x + 1) \in 0 .. Length BY Zenon, <1>4, <3>2
      <4> QED BY Zenon, <3>2, <4>1
    <3>3. CASE ~(i - o - x + 1 \in 1 .. k) BY Zenon, <3>1, <3>3
    <3> QED BY Zenon, <3>2, <3>3
  <2> QED BY Zenon, <1>3, <2>1
<1>6. \A y \in 0 .. Size - 1 - o :
          /\ o + y \in 0 .. Size - 1 /\ (o + y) - o - x + 1 = y - x + 1
          /\ y - x + 1 \in 1 .. k <=> y \in x .. x + k - 1
  BY Constants
<1>7. ASSUME NEW y \in 0 .. Size - 1 - o
      PROVE  Written(m, x, p, k)[o + y] = IF y \in x .. x + k - 1 THEN p + (y - x + 1) ELSE m.data[o + y]
  <2>1. PICK i \in 0 .. Size - 1 : i = o + y BY Zenon, <1>6
  <2>2. i - o - x + 1 = y - x + 1 /\ (y - x + 1 \in 1 .. k <=> y \in x .. x + k - 1) BY Zenon, <1>6, <2>1
  <2>3. Written(m, x, p, k)[i] = IF i - o - x + 1 \in 1 .. k THEN p + (i - o - x + 1) ELSE m.data[i]
    BY Zenon, <1>3
  <2> QED BY Zenon, <2>1, <2>2, <2>3
<1> QED BY Zenon, <1>1, <1>5, <1>7 DEF WrittenOK

\* The whole of RBPut on bytes p + 1 .. p + k: the buffer keeps its meaning, and
\* everything that it held.
Grown(b, n, r) ==
    /\ BufferOK(r, n) /\ r.head_seq = b.head_seq
    /\ Cover(b.head_seq, b.fctx) \subseteq Cover(r.head_seq, r.fctx)
    /\ b.merged_len <= r.merged_len

\* Whatever the segment, RBPut does that.
LEMMA PutKeeps ==
    ASSUME NEW b, NEW n, BufferOK(b, n), NEW p \in 0 .. Length, NEW k \in 1 .. Mss, p + k <= Length,
           NEW r, r = RBPut(b, SeqOf(p), [j \in 1 .. k |-> p + j])
    PROVE  Grown(b, n, r)
<1> DEFINE h == b.head_seq
           s == SeqOf(p)
           fs == b.fctx
<1>1. /\ b \in Buffer /\ n \in 0 .. Length /\ b.last_len = b.tail_offset - b.head_offset
      /\ h = SeqOf(n) /\ fs \in Seq(Frags(h)) /\ Apart(h, fs) /\ Peers(b, n, Cover(h, fs))
      /\ b.merged_len = Merged(h, fs)
  BY Zenon DEF BufferOK
<1>2. h \in 0 .. Word - 1 /\ b.last_len \in 0 .. Size /\ b.merged_len \in 0 .. Size BY <1>1 DEF Buffer
<1>3. n \in 0 .. Far /\ p \in 0 .. Far /\ k \in Nat \ {0} /\ p \in Nat
  <2>1. n \in 0 .. Length /\ Length \in Nat /\ Far \in Nat /\ Length <= Far /\ Mss \in Nat
    BY <1>1, Constants DEF Far
  <2> QED BY <2>1
<1>4. /\ n <= p => Minus(s, h) = p - n
      /\ GetMinSeq(h, s) = h <=> n <= p
  BY Zenon, <1>1, <1>3, SeqOfTwo
<1>5. CASE GetMinSeq(h, s) # h \/ Size < Minus(s, h) + k
  <2>1. r = b BY Zenon, <1>3, <1>5, PutIs
  <2>2. b.merged_len <= b.merged_len BY <1>2
  <2> QED BY Zenon, <2>1, <2>2 DEF Grown
<1>6. CASE ~(GetMinSeq(h, s) # h \/ Size < Minus(s, h) + k)
  <2>1. PICK x \in 0 .. Size - 1 : x = Minus(s, h) /\ x = p - n /\ x + k \in 1 .. Size
    <3>1. n <= p /\ Minus(s, h) = p - n /\ ~(Size < Minus(s, h) + k) BY Zenon, <1>4, <1>6
    <3>2. p - n \in 0 .. Size - 1 /\ p - n + k \in 1 .. Size BY <1>1, <3>1, Constants
    <3> QED BY Zenon, <3>1, <3>2
  <2>2. PICK e \in 1 .. Size : e = x + k BY Zenon, <2>1
  <2>3. PICK m : m = Move(b, e) OBVIOUS
  <2>4. /\ m \in Buffer /\ m.last_len = b.last_len /\ m.tail_offset = m.head_offset + b.last_len
        /\ m.head_offset + e <= Size
        /\ m.merged_len = b.merged_len /\ m.head_seq = h /\ m.fctx = fs
        /\ \A y \in 0 .. b.last_len - 1 : m.data[m.head_offset + y] = b.data[b.head_offset + y]
    BY Zenon, <1>1, <2>3, MoveIs
  <2>5. PICK o \in 0 .. Size : o = m.head_offset BY <2>4 DEF Buffer
  <2>6. k \in 1 .. Size /\ x + k <= Size /\ FragAt(h, x, k) = [seq |-> s, len |-> k]
    <3>1. k \in 1 .. Size /\ x + k <= Size /\ p = n + x /\ x \in 0 .. Far /\ n + x \in 0 .. Far
      BY <1>1, <1>3, <2>1, Constants
    <3>2. Add(h, x) = SeqOf(n + x) BY Zenon, <1>1, <1>3, <3>1, SeqOfAdd
    <3> QED BY Zenon, <3>1, <3>2 DEF FragAt
  <2>7. PICK new \in Frags(h) : /\ new = [seq |-> s, len |-> k]
                                /\ Off(h, new) = x /\ End(h, new) = e
    BY Zenon, <1>2, <2>2, <2>6, FragOf
  <2>8. PICK w \in Seq(Frags(h)) :
          /\ w = Walk(new, fs) /\ Len(w) > 0 /\ Apart(h, w)
          /\ \A y \in Int : (\E i \in DOMAIN w : In(h, w[i], y)) <=>
                                In(h, new, y) \/ \E i \in DOMAIN fs : In(h, fs[i], y)
    BY Zenon, <1>1, <1>2, WalkIs
  <2>9. PICK tail : tail = Greater(m.tail_offset, m.head_offset + e) OBVIOUS
  <2>10. r = Stored(b, p, k, x, m, w, tail)
    <3>1. r = Stored(b, p, k, Minus(s, h), Move(b, Minus(s, h) + k), Walk([seq |-> s, len |-> k], fs),
                   Greater(Move(b, Minus(s, h) + k).tail_offset,
                           Move(b, Minus(s, h) + k).head_offset + (Minus(s, h) + k)))
      BY Zenon, <1>3, <1>6, PutIs
    <3> QED BY Zenon, <2>1, <2>2, <2>3, <2>7, <2>8, <2>9, <3>1
  <2>11. /\ Written(m, x, p, k) \in [0 .. Size - 1 -> 0 .. Length]
         /\ \A y \in 0 .. Size - 1 - o :
                Written(m, x, p, k)[o + y] =
                    IF y \in x .. x + k - 1 THEN p + (y - x + 1) ELSE m.data[o + y]
    <3>1. x \in Nat /\ m.head_offset + x + k <= Size BY <2>2, <2>4, <2>5
    <3>2. WrittenOK(m, x, p, k, m.head_offset) BY Zenon, <1>3, <2>4, <3>1, WrittenIs
    <3> QED BY Zenon, <2>5, <3>2 DEF WrittenOK
  <2>12. PICK t \in 0 .. Size : /\ t = tail - o /\ tail \in 0 .. Size /\ b.last_len <= t /\ e <= t
                                /\ o + t <= Size
    <3>1. m.tail_offset \in 0 .. Size BY Zenon, <2>4 DEF Buffer
    <3>2. o + b.last_len \in 0 .. Size /\ o + e <= Size /\ tail = Greater(o + b.last_len, o + e)
      BY Zenon, <2>4, <2>5, <2>9, <3>1
    <3> QED BY Zenon, <1>2, <3>2, TailIs
  <2>c. \A y \in Int : y \in Cover(h, w) <=> y \in Cover(h, fs) \/ (x <= y /\ y < e)
    <3>1. \A y \in Int : In(h, new, y) <=> x <= y /\ y < e BY Zenon, <2>7 DEF In
    <3> QED BY Zenon, <1>1, <1>2, <2>8, <3>1, CoverIs
  <2>d. Cover(h, fs) \subseteq Cover(h, w)
    <3>1. \A y \in Cover(h, fs) : y \in Int BY DEF Cover
    <3> QED BY Zenon, <2>c, <3>1
  <2>13. PICK c \in 0 .. Size : c = Merged(h, w) /\ b.merged_len <= c
                               /\ c = IF w[1].seq = h THEN w[1].len ELSE m.merged_len
    <3>1. Merged(h, w) \in 0 .. Size /\ (w # <<>> /\ w[1].seq # h => Merged(h, w) = 0)
      BY Zenon, <1>2, <2>8, MergedIs
    <3>2. b.merged_len <= Merged(h, w) BY Zenon, <1>1, <1>2, <2>8, <2>d, MergedGrows
    <3>3. w # <<>> BY <2>8
    <3>4. CASE w[1].seq = h
      <4>1. Merged(h, w) = w[1].len BY Zenon, <3>3, <3>4 DEF Merged
      <4> QED BY Zenon, <3>1, <3>2, <3>4, <4>1
    <3>5. CASE w[1].seq # h
      <4>1. Merged(h, w) = 0 /\ b.merged_len <= 0 BY Zenon, <3>1, <3>2, <3>3, <3>5
      <4>2. b.merged_len = 0 BY <1>2, <4>1
      <4> QED BY Zenon, <2>4, <3>1, <3>2, <3>5, <4>1, <4>2
    <3> QED BY Zenon, <3>4, <3>5
  <2>14. w \in Seq(Fragment)
    <3>1. Frags(h) \subseteq Fragment BY Zenon DEF Frags
    <3> QED BY Zenon, <2>8, <3>1, SeqSub
  <2>15. r \in Buffer /\ r.head_offset = o /\ r.tail_offset = tail /\ r.last_len = t
         /\ r.merged_len = c /\ r.head_seq = h /\ r.fctx = w /\ r.data = Written(m, x, p, k)
    <3>1. r = [m EXCEPT !.data = Written(m, x, p, k), !.tail_offset = tail, !.last_len = t,
                        !.fctx = w, !.merged_len = c]
      BY Zenon, <2>5, <2>10, <2>12, <2>13 DEF Stored
    <3>2. r \in Buffer BY Zenon, <2>4, <2>11, <2>12, <2>13, <2>14, <3>1 DEF Buffer
    <3>3. /\ r.head_offset = m.head_offset /\ r.tail_offset = tail /\ r.last_len = t
          /\ r.merged_len = c /\ r.head_seq = m.head_seq /\ r.fctx = w /\ r.data = Written(m, x, p, k)
      BY <2>4, <3>1 DEF Buffer
    <3> QED BY Zenon, <2>4, <2>5, <3>2, <3>3
  <2>16. Peers(r, n, Cover(h, w))
    <3>1. SUFFICES ASSUME NEW y \in Cover(h, w)
                   PROVE  y < t /\ n + y < Length /\ Written(m, x, p, k)[o + y] = n + y + 1
      BY Zenon, <2>15 DEF Peers
    <3>2. y \in 0 .. Size - 1 BY Zenon, <3>1 DEF Cover
    <3>3. y \in Int /\ (y \in x .. x + k - 1 <=> x <= y /\ y < e) BY <2>2, <3>2
    <3>4. CASE x <= y /\ y < e
      <4>1. y < t /\ n + y < Length /\ y \in 0 .. Size - 1 - o /\ p + (y - x + 1) = n + y + 1
        BY <1>1, <2>1, <2>2, <2>12, <3>2, <3>4, Constants
      <4> QED BY Zenon, <2>11, <3>3, <3>4, <4>1
    <3>5. CASE ~(x <= y /\ y < e)
      <4>1. y \in Cover(h, fs) BY Zenon, <2>c, <3>1, <3>3, <3>5
      <4>2. y < b.last_len /\ n + y < Length /\ b.data[b.head_offset + y] = n + y + 1
        BY Zenon, <1>1, <4>1 DEF Peers
      <4>3. y < t /\ y \in 0 .. Size - 1 - o /\ y \in 0 .. b.last_len - 1
        BY Zenon, <1>2, <2>12, <3>2, <4>2, Below
      <4>4. Written(m, x, p, k)[o + y] = m.data[o + y] BY Zenon, <2>11, <3>3, <3>5, <4>3
      <4> QED BY Zenon, <2>4, <2>5, <4>2, <4>3, <4>4
    <3> QED BY Zenon, <3>4, <3>5
  <2>17. r.last_len = r.tail_offset - r.head_offset BY Zenon, <2>12, <2>15
  <2> QED BY Zenon, <1>1, <2>8, <2>13, <2>15, <2>16, <2>17, <2>d DEF BufferOK, Grown
<1> QED BY Zenon, <1>5, <1>6

-----------------------------------------------------------------------------
(* Taking k bytes from the head of the buffer. *)

\* What is where in the tail of a sequence.
LEMMA SeqTail ==
    ASSUME NEW S, NEW u \in Seq(S), Len(u) > 0
    PROVE  /\ Tail(u) \in Seq(S) /\ Len(Tail(u)) = Len(u) - 1
           /\ \A i \in 1 .. Len(u) - 1 : Tail(u)[i] = u[i + 1]
<1>1. Tail(u) \in Seq(S) OBVIOUS
<1>2. Len(Tail(u)) = Len(u) - 1 OBVIOUS
<1>3. \A i \in 1 .. Len(u) - 1 : Tail(u)[i] = u[i + 1] OBVIOUS
<1> QED BY Zenon, <1>1, <1>2, <1>3

\* v is u with c before it.
Before(S, c, u, v) ==
    /\ v \in Seq(S) /\ Len(v) = 1 + Len(u) /\ v[1] = c
    /\ \A i \in 2 .. 1 + Len(u) : v[i] = u[i - 1]

\* Putting c before u does that.
LEMMA Cons ==
    ASSUME NEW S, NEW c \in S, NEW u \in Seq(S)
    PROVE  Before(S, c, u, <<c>> \o u)
<1>1. <<c>> \o u \in Seq(S) OBVIOUS
<1>2. Len(<<c>> \o u) = 1 + Len(u) OBVIOUS
<1>3. (<<c>> \o u)[1] = c OBVIOUS
<1>4. \A i \in 2 .. 1 + Len(u) : (<<c>> \o u)[i] = u[i - 1] OBVIOUS
<1> QED BY Zenon, <1>1, <1>2, <1>3, <1>4 DEF Before

\* A sequence of elements of S.
LEMMA SeqEach ==
    ASSUME NEW S, NEW T, NEW u \in Seq(T), \A i \in 1 .. Len(u) : u[i] \in S
    PROVE  u \in Seq(S)
  OBVIOUS

\* A fragment beyond them is nearer to the head by k.
LEMMA Nearer ==
    ASSUME NEW h \in 0 .. Word - 1, NEW f \in Frags(h), NEW k \in 1 .. Size, k <= Off(h, f)
    PROVE  /\ f \in Frags(Add(h, k)) /\ Off(Add(h, k), f) = Off(h, f) - k
           /\ End(Add(h, k), f) = End(h, f) - k
<1>1. PICK x \in 0 .. Size - 1 : /\ x = Off(h, f) /\ f.seq = Add(h, x) /\ End(h, f) = x + f.len
                                 /\ End(h, f) \in 1 .. Size /\ f.len \in 1 .. Size
  BY Zenon, FragIs
<1>2. k \in 0 .. Far /\ x - k \in 0 .. Far /\ k + (x - k) = x /\ k <= x BY <1>1, Constants
<1>3. PICK a \in 0 .. Word - 1 : a = Add(h, k) BY Zenon, <1>2, AddFar
<1>4. PICK z \in 0 .. Far : z = x - k BY Zenon, <1>2
<1>5. Add(a, z) = Add(h, x)
  <2>1. Add(Add(h, k), z) = Add(h, k + z) BY Zenon, <1>2, AddAdd
  <2>2. k + z = x BY <1>2, <1>4
  <2> QED BY Zenon, <1>3, <2>1, <2>2
<1>6. Minus(Add(a, z), a) = z BY Zenon, AddFar
<1>7. Off(a, f) = x - k
  <2>1. Minus(f.seq, a) = z BY Zenon, <1>1, <1>5, <1>6
  <2> QED BY Zenon, <1>4, <2>1 DEF Off
<1>8. End(a, f) = x - k + f.len BY Zenon, <1>7 DEF End
<1>9. End(a, f) = End(h, f) - k /\ End(a, f) <= Size BY <1>1, <1>2, <1>8, Constants
<1>10. f \in Fragment BY Zenon DEF Frags
<1> QED BY Zenon, <1>1, <1>3, <1>7, <1>9, <1>10 DEF Frags

\* What RBRemove leaves of the fragments.
Rest(fs, k) ==
    IF fs[1].len = k THEN Tail(fs)
    ELSE <<[seq |-> Add(fs[1].seq, k), len |-> fs[1].len - k]>> \o Tail(fs)

\* Fragment j of fs is fragment j - d of gs, nearer by k: the first is cut.
Cut(h, fs, a, gs, k, d) ==
    /\ gs \in Seq(Frags(a)) /\ Len(gs) = Len(fs) - d
    /\ \A j \in 1 .. Len(fs) : j - d >= 1 =>
           /\ Off(a, gs[j - d]) = IF j = 1 THEN 0 ELSE Off(h, fs[j]) - k
           /\ End(a, gs[j - d]) = End(h, fs[j]) - k

\* RBRemove drops the first fragment (d is 1) or cuts it (d is 0).
LEMMA RestCut ==
    ASSUME NEW h \in 0 .. Word - 1, NEW fs \in Seq(Frags(h)), Apart(h, fs),
           NEW k \in 1 .. Merged(h, fs), NEW a \in 0 .. Word - 1, a = Add(h, k)
    PROVE  \E d \in {0, 1} : /\ Cut(h, fs, a, Rest(fs, k), k, d) /\ (d = 1 => Merged(h, fs) = k)
<1> DEFINE n == Len(fs)
           t == Tail(fs)
<1>1. Merged(h, fs) \in 0 .. Size BY Zenon, MergedIs
<1>2. Merged(h, fs) > 0 /\ k \in 1 .. Size BY <1>1, Constants
<1>3. /\ n > 0 /\ Off(h, fs[1]) = 0 /\ fs[1].seq = h
      /\ fs[1].len = Merged(h, fs) /\ End(h, fs[1]) = fs[1].len
  BY Zenon, <1>2, MergedIs
<1>4. DOMAIN fs = 1 .. n /\ n \in Nat /\ \A j \in 1 .. n : fs[j] \in Frags(h) BY Zenon, SeqIs
<1>5. PICK l \in 1 .. Size : l = Merged(h, fs) /\ k <= l BY <1>1, <1>2
<1>6. 1 \in 1 .. n BY <1>3, <1>4
<1>7. ASSUME NEW j \in 2 .. n
      PROVE  /\ fs[j] \in Frags(a) /\ Off(a, fs[j]) = Off(h, fs[j]) - k
             /\ End(a, fs[j]) = End(h, fs[j]) - k
  <2>1. j \in 1 .. n /\ 1 < j BY <1>4
  <2>2. l < Off(h, fs[j]) BY Zenon, <1>3, <1>4, <1>5, <1>6, <2>1 DEF Apart
  <2>3. fs[j] \in Frags(h) /\ Off(h, fs[j]) \in 0 .. Size - 1 BY Zenon, <1>4, <2>1, FragIs
  <2>4. k <= Off(h, fs[j]) BY <1>2, <1>5, <2>2, <2>3
  <2> QED BY Zenon, <1>2, <2>3, <2>4, Nearer
<1>8. /\ t \in Seq(Frags(h)) /\ Len(t) = n - 1 /\ \A i \in 1 .. n - 1 : t[i] = fs[i + 1]
  BY Zenon, <1>3, SeqTail
<1>9. \A i \in 1 .. n - 1 : i + 1 \in 2 .. n BY <1>4
<1>10. t \in Seq(Frags(a))
  <2>1. \A i \in 1 .. Len(t) : t[i] \in Frags(a) BY Zenon, <1>7, <1>8, <1>9
  <2> QED BY Zenon, <1>8, <2>1, SeqEach
<1>11. CASE fs[1].len = k
  <2>1. Rest(fs, k) = t BY Zenon, <1>11 DEF Rest
  <2>2. \A j \in 1 .. n : j - 1 >= 1 => j \in 2 .. n /\ j # 1 /\ j - 1 \in 1 .. n - 1 /\ (j - 1) + 1 = j
    BY <1>4
  <2>3. Cut(h, fs, a, t, k, 1)
    <3>1. ASSUME NEW j \in 1 .. n, j - 1 >= 1
          PROVE  /\ Off(a, t[j - 1]) = IF j = 1 THEN 0 ELSE Off(h, fs[j]) - k
                 /\ End(a, t[j - 1]) = End(h, fs[j]) - k
      <4>1. j \in 2 .. n /\ j # 1 /\ j - 1 \in 1 .. n - 1 /\ (j - 1) + 1 = j BY Zenon, <2>2, <3>1
      <4>2. t[j - 1] = fs[j] BY Zenon, <1>8, <4>1
      <4>3. Off(a, fs[j]) = Off(h, fs[j]) - k /\ End(a, fs[j]) = End(h, fs[j]) - k BY Zenon, <1>7, <4>1
      <4> QED BY Zenon, <4>1, <4>2, <4>3
    <3> QED BY Zenon, <1>8, <1>10, <3>1 DEF Cut
  <2> QED BY Zenon, <1>3, <1>11, <2>1, <2>3
<1>12. CASE fs[1].len # k
  <2>1. PICK c \in Frags(a) : /\ c = [seq |-> Add(fs[1].seq, k), len |-> fs[1].len - k]
                              /\ Off(a, c) = 0 /\ End(a, c) = End(h, fs[1]) - k
    <3>0. l # k BY Zenon, <1>3, <1>5, <1>12
    <3>1. PICK m \in 1 .. Size : m = l - k
      <4>1. \A i, j \in 1 .. Size : i <= j /\ j # i => j - i \in 1 .. Size BY Constants
      <4> QED BY Zenon, <1>2, <1>5, <3>0, <4>1
    <3>2. 0 \in 0 .. Size - 1 /\ 0 + m <= Size /\ 0 + m = m /\ a + 0 = a /\ a < Word /\ 0 \in 0 .. Far
      BY Constants
    <3>3. Add(a, 0) = a BY <3>2, AddFar, Constants
    <3>4. /\ FragAt(a, 0, m) \in Frags(a) /\ Off(a, FragAt(a, 0, m)) = 0
          /\ End(a, FragAt(a, 0, m)) = m
      BY Zenon, <3>2, FragOf
    <3>5. FragAt(a, 0, m) = [seq |-> Add(fs[1].seq, k), len |-> fs[1].len - k]
      BY Zenon, <1>3, <1>5, <3>1, <3>3 DEF FragAt
    <3> QED BY Zenon, <1>3, <1>5, <3>1, <3>4, <3>5
  <2>2. Rest(fs, k) = <<c>> \o t BY Zenon, <1>12, <2>1 DEF Rest
  <2>4. PICK gs : gs = <<c>> \o t OBVIOUS
  <2>5. /\ gs \in Seq(Frags(a)) /\ Len(gs) = 1 + Len(t) /\ gs[1] = c
        /\ \A i \in 2 .. 1 + Len(t) : gs[i] = t[i - 1]
    <3>1. Before(Frags(a), c, t, gs) BY Zenon, <1>10, <2>4, Cons
    <3> QED BY Zenon, <3>1 DEF Before
  <2>6. 1 + (n - 1) = n /\ n = n - 0 /\ \A j \in 1 .. n : j - 0 = j BY <1>4
  <2>7. \A j \in 1 .. n : j # 1 => /\ j \in 2 .. n /\ j - 1 \in 1 .. n - 1 /\ (j - 1) + 1 = j
    BY <1>4
  <2>8. gs[1] = c /\ \A j \in 1 .. n : j # 1 => gs[j] = fs[j] BY Zenon, <1>8, <2>5, <2>6, <2>7
  <2>9. Cut(h, fs, a, gs, k, 0)
    <3>1. ASSUME NEW j \in 1 .. n
          PROVE  /\ Off(a, gs[j]) = IF j = 1 THEN 0 ELSE Off(h, fs[j]) - k
                 /\ End(a, gs[j]) = End(h, fs[j]) - k
      BY Zenon, <1>7, <2>1, <2>7, <2>8
    <3> QED BY Zenon, <1>8, <2>5, <2>6, <3>1 DEF Cut
  <2>10. 0 # 1 OBVIOUS
  <2> QED BY Zenon, <2>2, <2>4, <2>9, <2>10
<1> QED BY Zenon, <1>11, <1>12

\* What was held and is not taken is held still.
RestOK(h, fs, a, gs, k) ==
    /\ gs \in Seq(Frags(a)) /\ Apart(a, gs)
    /\ \A y \in Nat : y \in Cover(a, gs) <=> y + k \in Cover(h, fs)
    /\ Merged(a, gs) = Merged(h, fs) - k

\* So what it leaves covers what is not taken, and as much less is in order.
LEMMA RestIs ==
    ASSUME NEW h \in 0 .. Word - 1, NEW fs \in Seq(Frags(h)), Apart(h, fs),
           NEW k \in 1 .. Merged(h, fs), NEW a \in 0 .. Word - 1, a = Add(h, k),
           NEW gs, gs = Rest(fs, k)
    PROVE  RestOK(h, fs, a, gs, k)
<1>1. PICK d \in {0, 1} : Cut(h, fs, a, gs, k, d) /\ (d = 1 => Merged(h, fs) = k)
  <2>1. PICK d \in {0, 1} : Cut(h, fs, a, Rest(fs, k), k, d) /\ (d = 1 => Merged(h, fs) = k)
    BY ZenonT(30), RestCut
  <2> QED BY Zenon, <2>1
<1>2. /\ gs \in Seq(Frags(a)) /\ Len(gs) = Len(fs) - d
      /\ \A j \in 1 .. Len(fs) : j - d >= 1 =>
             /\ Off(a, gs[j - d]) = IF j = 1 THEN 0 ELSE Off(h, fs[j]) - k
             /\ End(a, gs[j - d]) = End(h, fs[j]) - k
  BY Zenon, <1>1 DEF Cut
<1>3. /\ Len(fs) \in Nat /\ DOMAIN fs = 1 .. Len(fs) /\ \A j \in 1 .. Len(fs) : fs[j] \in Frags(h)
  BY Zenon, SeqIs
<1>4. Len(gs) \in Nat /\ DOMAIN gs = 1 .. Len(gs) BY Zenon, <1>2, SeqIs
<1>5. PICK m \in 0 .. Size : m = Merged(h, fs) BY Zenon, MergedIs
<1>6. k \in Nat \ {0} /\ k <= m /\ m > 0 /\ d \in Int
  <2>1. k \in 1 .. m BY Zenon, <1>5
  <2>2. d \in Int OBVIOUS
  <2> QED BY <2>1, <2>2
<1>7. Off(h, fs[1]) = 0 /\ End(h, fs[1]) = m /\ Len(fs) > 0
  <2>1. Merged(h, fs) > 0 BY Zenon, <1>5, <1>6
  <2>2. /\ Len(fs) > 0 /\ Off(h, fs[1]) = 0
        /\ fs[1].len = Merged(h, fs) /\ End(h, fs[1]) = fs[1].len
    BY Zenon, <2>1, MergedIs
  <2> QED BY Zenon, <1>5, <2>2
<1>8. \A j \in 1 .. Len(fs) : Off(h, fs[j]) \in 0 .. Size - 1 /\ End(h, fs[j]) \in 1 .. Size
  BY Zenon, <1>3, FragIs
<1>9. ASSUME NEW i \in 1 .. Len(gs)
      PROVE  \E j \in 1 .. Len(fs) : /\ j = i + d /\ End(a, gs[i]) = End(h, fs[j]) - k
                                     /\ Off(a, gs[i]) = IF j = 1 THEN 0 ELSE Off(h, fs[j]) - k
  <2>1. i + d \in 1 .. Len(fs) /\ (i + d) - d = i /\ (i + d) - d >= 1 BY <1>2, <1>3
  <2>2. PICK j \in 1 .. Len(fs) : j = i + d BY Zenon, <2>1
  <2>3. j - d = i /\ j - d >= 1 BY Zenon, <2>1, <2>2
  <2> QED BY Zenon, <1>2, <2>2, <2>3
<1>10. Apart(a, gs)
  <2>1. SUFFICES ASSUME NEW i \in 1 .. Len(gs), NEW i2 \in 1 .. Len(gs), i < i2
                 PROVE  End(a, gs[i]) < Off(a, gs[i2])
    BY Zenon, <1>4 DEF Apart
  <2>2. PICK j \in 1 .. Len(fs) : j = i + d /\ End(a, gs[i]) = End(h, fs[j]) - k BY Zenon, <1>9
  <2>3. PICK j2 \in 1 .. Len(fs) : /\ j2 = i2 + d
                                   /\ Off(a, gs[i2]) = IF j2 = 1 THEN 0 ELSE Off(h, fs[j2]) - k
    BY Zenon, <1>9
  <2>4. j < j2 /\ j2 # 1 BY <1>4, <1>6, <2>1, <2>2, <2>3
  <2>5. End(h, fs[j]) < Off(h, fs[j2]) BY Zenon, <1>3, <2>4 DEF Apart
  <2>6. Off(h, fs[j2]) \in 0 .. Size - 1 /\ End(h, fs[j]) \in 1 .. Size BY Zenon, <1>8
  <2>7. End(h, fs[j]) - k < Off(h, fs[j2]) - k BY <1>6, <2>5, <2>6
  <2> QED BY Zenon, <2>2, <2>3, <2>4, <2>7
<1>11. ASSUME NEW y \in Nat PROVE y \in Cover(a, gs) <=> y + k \in Cover(h, fs)
  <2>1. y \in Int /\ y + k \in Int /\ 0 <= y BY <1>6
  <2>2. SUFFICES (\E i \in 1 .. Len(gs) : In(a, gs[i], y)) <=> \E j \in 1 .. Len(fs) : In(h, fs[j], y + k)
    BY Zenon, <1>2, <1>3, <1>4, <2>1, CoverIs
  <2>3. ASSUME NEW i \in 1 .. Len(gs), In(a, gs[i], y)
        PROVE  \E j \in 1 .. Len(fs) : In(h, fs[j], y + k)
    <3>1. PICK j \in 1 .. Len(fs) : /\ j = i + d /\ End(a, gs[i]) = End(h, fs[j]) - k
                                    /\ Off(a, gs[i]) = IF j = 1 THEN 0 ELSE Off(h, fs[j]) - k
      BY Zenon, <1>9
    <3>2. Off(h, fs[j]) \in 0 .. Size - 1 /\ End(h, fs[j]) \in 1 .. Size BY Zenon, <1>8
    <3>3. Off(a, gs[i]) <= y /\ y < End(a, gs[i]) BY Zenon, <2>3 DEF In
    <3>4. Off(h, fs[j]) <= y + k
      <4>1. CASE j = 1
        <5>1. Off(h, fs[j]) = 0 BY Zenon, <1>7, <4>1
        <5> QED BY <1>6, <2>1, <5>1
      <4>2. CASE j # 1
        <5>1. Off(h, fs[j]) - k <= y BY Zenon, <3>1, <3>3, <4>2
        <5> QED BY <1>6, <2>1, <3>2, <5>1
      <4> QED BY Zenon, <4>1, <4>2
    <3>5. y < End(h, fs[j]) - k BY Zenon, <3>1, <3>3
    <3>6. y + k < End(h, fs[j]) BY <1>6, <2>1, <3>2, <3>5
    <3> QED BY Zenon, <3>4, <3>6 DEF In
  <2>4. ASSUME NEW j \in 1 .. Len(fs), In(h, fs[j], y + k)
        PROVE  \E i \in 1 .. Len(gs) : In(a, gs[i], y)
    <3>2. Off(h, fs[j]) \in 0 .. Size - 1 /\ End(h, fs[j]) \in 1 .. Size BY Zenon, <1>8
    <3>3. Off(h, fs[j]) <= y + k /\ y + k < End(h, fs[j]) BY Zenon, <2>4 DEF In
    <3>4. j - d >= 1
      <4>1. CASE j = 1
        <5>1. y + k < m BY Zenon, <1>7, <3>3, <4>1
        <5>2. m # k BY <1>6, <2>1, <5>1
        <5>3. d = 0 BY Zenon, <1>1, <1>5, <5>2
        <5> QED BY <4>1, <5>3
      <4>2. CASE j # 1 BY <4>2
      <4> QED BY Zenon, <4>1, <4>2
    <3>5. PICK i \in 1 .. Len(gs) : i = j - d BY <1>2, <1>3, <1>4, <1>6, <3>4
    <3>6. /\ Off(a, gs[i]) = IF j = 1 THEN 0 ELSE Off(h, fs[j]) - k
          /\ End(a, gs[i]) = End(h, fs[j]) - k
      BY Zenon, <1>2, <3>4, <3>5
    <3>7. y < End(h, fs[j]) - k /\ Off(h, fs[j]) - k <= y BY <1>6, <2>1, <3>2, <3>3
    <3> QED BY Zenon, <2>1, <3>6, <3>7 DEF In
  <2> QED BY Zenon, <2>3, <2>4
<1>12. Merged(a, gs) = Merged(h, fs) - k
  <2>1. /\ m \notin Cover(h, fs) /\ \A x \in 0 .. m - 1 : x \in Cover(h, fs) BY Zenon, <1>5, MergedIs
  <2>2. PICK c \in 0 .. Size : c = Merged(a, gs) /\ c \notin Cover(a, gs)
                               /\ \A x \in 0 .. c - 1 : x \in Cover(a, gs)
    BY Zenon, <1>2, <1>10, MergedIs
  <2>3. c \in Nat /\ m - k \in Nat /\ (m - k) + k = m BY <1>6
  <2>4. m - k \notin Cover(a, gs) BY Zenon, <1>11, <2>1, <2>3
  <2>5. m - k \notin 0 .. c - 1 BY Zenon, <2>2, <2>4
  <2>6. c + k \notin 0 .. m - 1 BY Zenon, <1>11, <2>1, <2>2, <2>3
  <2>7. c = m - k BY <1>6, <2>3, <2>5, <2>6
  <2> QED BY Zenon, <1>5, <2>2, <2>7
<1> QED BY Zenon, <1>2, <1>10, <1>11, <1>12 DEF RestOK

\* The whole of RBRemove: the head is k further in the stream.
Taken(b, n, k, r) ==
    /\ BufferOK(r, n + k) /\ r.merged_len = b.merged_len - k
    /\ \A y \in Nat : y + k \in Cover(b.head_seq, b.fctx) => y \in Cover(r.head_seq, r.fctx)
    /\ \A i \in 1 .. k : b.data[b.head_offset + i - 1] = n + i

\* RBRemove does that for every k that is in order.
LEMMA RemoveKeeps ==
    ASSUME NEW b, NEW n, BufferOK(b, n), NEW k \in 1 .. b.merged_len, NEW r, r = RBRemove(b, k)
    PROVE  Taken(b, n, k, r)
<1> DEFINE h == b.head_seq
           fs == b.fctx
<1>1. /\ b \in Buffer /\ n \in 0 .. Length /\ b.last_len = b.tail_offset - b.head_offset
      /\ h = SeqOf(n) /\ fs \in Seq(Frags(h)) /\ Apart(h, fs) /\ Peers(b, n, Cover(h, fs))
      /\ b.merged_len = Merged(h, fs)
  BY Zenon DEF BufferOK
<1>2. /\ h \in 0 .. Word - 1 /\ b.last_len \in 0 .. Size /\ b.merged_len \in 0 .. Size
      /\ b.head_offset \in 0 .. Size /\ b.tail_offset \in 0 .. Size
  BY Zenon, <1>1 DEF Buffer
<1>3. PICK m \in 1 .. Size, l \in 0 .. Size, o \in 0 .. Size :
          m = b.merged_len /\ l = b.last_len /\ o = b.head_offset /\ k \in 1 .. m
  <2>1. k \in 1 .. b.merged_len => b.merged_len \in 1 .. Size BY <1>2
  <2> QED BY Zenon, <1>2, <2>1
<1>4. \A x \in 0 .. m - 1 : x \in Cover(h, fs) BY Zenon, <1>1, <1>2, <1>3, MergedIs
<1>5. \A x \in Cover(h, fs) : x < l /\ n + x < Length /\ b.data[o + x] = n + x + 1
  BY Zenon, <1>1, <1>3 DEF Peers
<1>6. k <= l /\ n + k \in 0 .. Length /\ n + k <= Length
  <2>1. k - 1 \in 0 .. m - 1 BY <1>3
  <2>2. k - 1 < l /\ n + (k - 1) < Length BY Zenon, <1>4, <1>5, <2>1
  <2> QED BY <1>1, <1>3, <2>2, Constants
<1>7. n \in 0 .. Far /\ k \in 0 .. Far /\ n + k \in 0 .. Far
  <2>1. n \in 0 .. Length /\ Length \in Nat /\ Length + Size <= Far /\ Far \in Nat /\ Size \in Nat
    BY <1>1, Constants DEF Far
  <2> QED BY <1>3, <2>1
<1>8. PICK a \in 0 .. Word - 1 : a = Add(h, k) /\ a = SeqOf(n + k)
  <2>1. Add(SeqOf(n), k) = SeqOf(n + k) BY Zenon, <1>7, SeqOfAdd
  <2>2. SeqOf(n + k) \in 0 .. Word - 1 BY Zenon, <1>7, SeqOfIs
  <2> QED BY Zenon, <1>1, <2>1, <2>2
<1>9. PICK gs : gs = Rest(fs, k) OBVIOUS
<1>10. /\ gs \in Seq(Frags(a)) /\ Apart(a, gs)
       /\ \A y \in Nat : y \in Cover(a, gs) <=> y + k \in Cover(h, fs)
       /\ Merged(a, gs) = Merged(h, fs) - k
  <2>1. k \in 1 .. Merged(h, fs) BY Zenon, <1>1
  <2>2. RestOK(h, fs, a, gs, k) BY Zenon, <1>1, <1>2, <1>8, <1>9, <2>1, RestIs
  <2> QED BY Zenon, <2>2 DEF RestOK
<1>11. gs \in Seq(Fragment)
  <2>1. Frags(a) \subseteq Fragment BY Zenon DEF Frags
  <2> QED BY Zenon, <1>10, <2>1, SeqSub
<1>t. b.tail_offset = o + l BY <1>1, <1>2, <1>3
<1>12. PICK o2, l2, m2 \in 0 .. Size : o2 = o + k /\ l2 = l - k /\ m2 = m - k
  <2>2. o + l \in 0 .. Size BY Zenon, <1>2, <1>t
  <2>3. o + k \in 0 .. Size /\ l - k \in 0 .. Size /\ m - k \in 0 .. Size BY <1>3, <1>6, <2>2, Constants
  <2> QED BY Zenon, <2>3
<1>13. r = [b EXCEPT !.head_offset = o2, !.head_seq = a, !.merged_len = m2, !.last_len = l2,
                     !.fctx = gs]
  BY Zenon, <1>3, <1>8, <1>9, <1>12 DEF RBRemove, Rest
<1>14. r \in Buffer BY Zenon, <1>1, <1>11, <1>13 DEF Buffer
<1>15. /\ r.head_offset = o2 /\ r.head_seq = a /\ r.merged_len = m2 /\ r.last_len = l2
       /\ r.fctx = gs /\ r.tail_offset = b.tail_offset /\ r.data = b.data
  BY <1>1, <1>13 DEF Buffer
<1>16. r.last_len = r.tail_offset - r.head_offset
  <2>1. l - k = (o + l) - (o + k) OBVIOUS
  <2>2. l2 = b.tail_offset - o2 BY Zenon, <1>t, <1>12, <2>1
  <2> QED BY Zenon, <1>15, <2>2
<1>17. Peers(r, n + k, Cover(a, gs))
  <2>1. SUFFICES ASSUME NEW y \in Cover(a, gs)
                 PROVE  y < l2 /\ (n + k) + y < Length /\ b.data[o2 + y] = (n + k) + y + 1
    BY Zenon, <1>15 DEF Peers
  <2>2. y \in 0 .. Size - 1 BY Zenon, <2>1 DEF Cover
  <2>3. y \in Nat BY <2>2
  <2>4. y + k < l /\ n + (y + k) < Length /\ b.data[o + (y + k)] = n + (y + k) + 1
    BY Zenon, <1>5, <1>10, <2>1, <2>3
  <2>5. y < l2 BY <1>3, <1>12, <2>3, <2>4
  <2>6. o + (y + k) = o2 + y BY <1>3, <1>12, <2>3
  <2>7. n + (y + k) = (n + k) + y BY <1>1, <1>3, <2>3
  <2> QED BY Zenon, <2>4, <2>5, <2>6, <2>7
<1>18. ASSUME NEW i \in 1 .. k PROVE b.data[o + i - 1] = n + i
  <2>1. i - 1 \in 0 .. m - 1 /\ o + (i - 1) = o + i - 1 /\ n + (i - 1) + 1 = n + i BY <1>1, <1>3
  <2>2. b.data[o + (i - 1)] = n + (i - 1) + 1 BY Zenon, <1>4, <1>5, <2>1
  <2> QED BY Zenon, <2>1, <2>2
<1>19. BufferOK(r, n + k)
  <2>1. m2 = Merged(a, gs) BY Zenon, <1>1, <1>3, <1>10, <1>12
  <2> QED BY Zenon, <1>6, <1>8, <1>10, <1>14, <1>15, <1>16, <1>17, <2>1 DEF BufferOK
<1> QED BY Zenon, <1>3, <1>10, <1>12, <1>15, <1>18, <1>19 DEF Taken

-----------------------------------------------------------------------------
(* The invariant holds in every state. *)

\* Positions of the stream in the order of their sequence numbers.
LEMMA LeqIs ==
    ASSUME NEW p \in 0 .. Far, NEW q \in 0 .. Far, Leq(SeqOf(p), SeqOf(q))
    PROVE  p <= q
<1>1. SUFFICES ASSUME q < p PROVE FALSE BY Constants
<1>2. PICK a \in 0 .. Word - 1, b \in 0 .. Word - 1 : a = SeqOf(p) /\ b = SeqOf(q) BY Zenon, SeqOfIs
<1>3. q <= p BY <1>1
<1>4. Minus(a, b) = p - q BY Zenon, <1>2, <1>3, SeqOfTwo
<1>5. Minus(a, b) = IF b <= a THEN a - b ELSE a - b + Word BY Zenon, MinusIs
<1>6. Minus(b, a) = IF a <= b THEN b - a ELSE b - a + Word BY Zenon, MinusIs
<1>7. PICK half \in Nat : half = Word \div 2 /\ 2 * half <= Word BY Constants
<1>8. Minus(b, a) < half BY Zenon, <1>2, <1>7 DEF Leq
<1> QED BY <1>1, <1>4, <1>5, <1>6, <1>7, <1>8, Constants

\* The numbers of a state.
Numbers(n, m, w) ==
    /\ n = Len(output) /\ m = rcvbuf.merged_len /\ w = rcv_wnd
    /\ n + m \in 0 .. Length /\ n + m \in 0 .. Far /\ n + m + w \in 0 .. Far
    /\ InOrder = n + m /\ Received \in 0 .. Far
    /\ Received = IF FinSeen THEN Length + 1 ELSE n + m
    /\ m <= rcvbuf.last_len

\* What is in order ends within the stream.
LEMMA BufferIn ==
    ASSUME NEW b, NEW n, BufferOK(b, n)
    PROVE  n + b.merged_len \in 0 .. Length /\ b.merged_len <= b.last_len
<1> DEFINE h == b.head_seq
           fs == b.fctx
<1>2. /\ b \in Buffer /\ n \in 0 .. Length
      /\ fs \in Seq(Frags(h)) /\ Apart(h, fs) /\ Peers(b, n, Cover(h, fs))
      /\ b.merged_len = Merged(h, fs)
  BY Zenon DEF BufferOK
<1>3. PICK m \in 0 .. Size, l \in 0 .. Size : m = b.merged_len /\ l = b.last_len /\ h \in 0 .. Word - 1
  BY Zenon, <1>2 DEF Buffer
<1>4. n + m \in 0 .. Length /\ m <= l
  <2>1. CASE m = 0 BY <1>2, <1>3, <2>1
  <2>2. CASE m # 0
    <3>1. m - 1 \in 0 .. m - 1 BY <2>2
    <3>2. m - 1 \in Cover(h, fs) BY Zenon, <1>2, <1>3, <3>1, MergedIs
    <3>3. m - 1 < l /\ n + (m - 1) < Length BY Zenon, <1>2, <1>3, <3>2 DEF Peers
    <3>4. n \in 0 .. Length BY Zenon, <1>2
    <3> QED BY <2>2, <3>3, <3>4, Constants
  <2> QED BY Zenon, <2>1, <2>2
<1> QED BY Zenon, <1>3, <1>4

\* They follow from the invariant.
LEMMA InvNumbers ==
    ASSUME BufferOK(rcvbuf, Len(output)), StackOK
    PROVE  \E n \in 0 .. Length, m \in 0 .. Size, w \in 0 .. MaxWnd : Numbers(n, m, w)
<1>1. PICK b, n : b = rcvbuf /\ n = Len(output) OBVIOUS
<1>2. b \in Buffer /\ n \in 0 .. Length BY Zenon, <1>1 DEF BufferOK
<1>3. PICK m \in 0 .. Size : m = b.merged_len BY Zenon, <1>2 DEF Buffer
<1>4. n + m \in 0 .. Length /\ m <= b.last_len BY Zenon, <1>1, <1>3, BufferIn
<1>5. InOrder = n + m BY Zenon, <1>1, <1>3 DEF InOrder
<1>6. rcv_wnd = Size - m \/ (rcv_wnd = InitWnd /\ n + m = 0) BY Zenon, <1>1, <1>3, <1>5 DEF StackOK
<1>7. PICK w \in 0 .. MaxWnd : w = rcv_wnd /\ n + m + w \in 0 .. Far
  <2>1. n \in 0 .. Length BY Zenon, <1>2
  <2>2. /\ Size - m \in 0 .. MaxWnd /\ InitWnd \in 0 .. MaxWnd
        /\ n + m + (Size - m) \in 0 .. Far /\ 0 + InitWnd \in 0 .. Far
    BY <2>1, Constants DEF Far
  <2> QED BY Zenon, <1>6, <2>2
<1>8. n + m \in 0 .. Far /\ Length + 1 \in 0 .. Far BY <1>4, Constants DEF Far
<1>9. Received = IF FinSeen THEN Length + 1 ELSE n + m BY Zenon, <1>5 DEF Received
<1>10. Received \in 0 .. Far BY Zenon, <1>8, <1>9
<1> QED BY Zenon, <1>1, <1>2, <1>3, <1>4, <1>5, <1>7, <1>8, <1>9, <1>10 DEF Numbers

\* The invariant holds when the connection is established.
LEMMA InitInv == Init => RecvInv
<1> SUFFICES ASSUME Init PROVE RecvInv OBVIOUS
<1>0. PICK h \in 0 .. Word - 1 : h = SeqOf(0)
  <2>1. 0 \in 0 .. Far BY Constants
  <2> QED BY Zenon, <2>1, SeqOfIs
<1>1. PICK b : b = RBInit(h) OBVIOUS
<1>2. /\ rcvbuf = b /\ state = "established" /\ rcv_nxt = h /\ rcv_wnd = InitWnd /\ segment = None
      /\ ack = FALSE /\ window = None /\ need_wnd_adv = FALSE /\ una = 0 /\ edge = InitWnd
      /\ output = <<>> /\ ended = FALSE /\ reset = FALSE
  BY Zenon, <1>0, <1>1 DEF Init
<1>3. Len(output) = 0 BY <1>2
<1>4. /\ b.head_offset = 0 /\ b.tail_offset = 0 /\ b.last_len = 0 /\ b.merged_len = 0
      /\ b.head_seq = h /\ b.fctx = <<>>
  BY Zenon, <1>1 DEF RBInit
<1>5. b \in Buffer
  <2>1. 0 \in 0 .. Size /\ 0 \in 0 .. Length BY Constants
  <2>2. <<>> \in Seq(Fragment) OBVIOUS
  <2>3. [i \in 0 .. Size - 1 |-> 0] \in [0 .. Size - 1 -> 0 .. Length] BY Zenon, <2>1
  <2> QED BY Zenon, <1>1, <2>1, <2>2, <2>3 DEF RBInit, Buffer
<1>6. <<>> \in Seq(Frags(h)) /\ DOMAIN <<>> = {} OBVIOUS
<1>7. Apart(h, <<>>) /\ Cover(h, <<>>) = {} /\ Merged(h, <<>>) = 0 BY Zenon, <1>6 DEF Apart, Cover, Merged
<1>8. 0 = 0 - 0 /\ 0 \in 0 .. Length /\ 0 + 0 = 0 /\ 0 \in 0 .. 0 /\ InitWnd \in Nat /\ 0 <= InitWnd
  BY Constants
<1>9. BufferOK(rcvbuf, Len(output))
  <2>1. Peers(b, 0, {}) BY Zenon DEF Peers
  <2> QED BY Zenon, <1>0, <1>2, <1>3, <1>4, <1>5, <1>6, <1>7, <1>8, <2>1 DEF BufferOK
<1>a. ~FinSeen
  <2>1. 0 \in 0 .. Far /\ Length + 1 \in 0 .. Far /\ 0 # Length + 1 BY Constants DEF Far
  <2> QED BY Zenon, <1>0, <1>2, <2>1, SeqOfTwo DEF FinSeen
<1>10. InOrder = 0 /\ Received = 0 BY Zenon, <1>a, <1>2, <1>3, <1>4, <1>8 DEF InOrder, Received
<1>11. "established" # "close_wait" OBVIOUS
<1>12. StackOK BY Zenon, <1>0, <1>a, <1>2, <1>10, <1>11 DEF StackOK
<1>13. output = [k \in 1 .. Len(output) |-> k] BY <1>2
<1>14. EndsOK BY Zenon, <1>2, <1>8, <1>10, <1>13 DEF EndsOK
<1> QED BY Zenon, <1>9, <1>12, <1>14 DEF RecvInv

\* What arrives is of the stream, and ends within the window.
LEMMA ArrivesInv ==
    ASSUME RecvInv, NEW p, NEW n, NEW fin, <<p, n, fin>> \in Segment, Arrives(p, n, fin)
    PROVE  RecvInv'
<1>1. /\ state = "established"
      /\ \/ /\ Between(SeqOf(p + n), rcv_nxt, Add(rcv_nxt, rcv_wnd)) /\ segment' = <<p, n, fin>>
            /\ ack' = ack
         \/ ack' = TRUE /\ segment' = segment
      /\ rcvbuf' = rcvbuf /\ state' = state /\ rcv_nxt' = rcv_nxt /\ rcv_wnd' = rcv_wnd
      /\ window' = window /\ need_wnd_adv' = need_wnd_adv /\ una' = una /\ edge' = edge
      /\ output' = output /\ ended' = ended /\ reset' = reset
  BY Zenon DEF Arrives
<1>2. BufferOK(rcvbuf, Len(output)) /\ StackOK /\ EndsOK BY Zenon DEF RecvInv
<1>3. PICK o \in 0 .. Length, m \in 0 .. Size, w \in 0 .. MaxWnd : Numbers(o, m, w)
  BY Zenon, <1>2, InvNumbers
<1>4. InOrder' = InOrder /\ FinSeen' = FinSeen /\ Received' = Received BY Zenon, <1>1 DEF InOrder, FinSeen, Received
<1>a. ~FinSeen
  <2>1. "established" # "close_wait" OBVIOUS
  <2> QED BY Zenon, <1>1, <1>2, <2>1 DEF StackOK
<1>5. segment' # None => segment' \in Segment /\ segment'[1] + segment'[2] <= InOrder + rcv_wnd
  <2>1. CASE segment' = segment BY Zenon, <1>2, <2>1 DEF StackOK
  <2>2. CASE Between(SeqOf(p + n), rcv_nxt, Add(rcv_nxt, rcv_wnd)) /\ segment' = <<p, n, fin>>
    <3>1. PICK i \in 0 .. Far : i = InOrder /\ i + w \in 0 .. Far /\ rcv_wnd = w /\ rcv_nxt = SeqOf(i)
      BY Zenon, <1>a, <1>1, <1>2, <1>3 DEF Numbers, StackOK
    <3>2. w \in 0 .. Far BY Constants DEF Far
    <3>3. Add(rcv_nxt, rcv_wnd) = SeqOf(i + w) BY Zenon, <3>1, <3>2, SeqOfAdd
    <3>4. p + n \in -1 .. Length BY Constants DEF Segment
    <3>5. p + n <= i + w
      <4>1. CASE p + n = -1 BY <3>1, <4>1
      <4>2. CASE p + n # -1
        <5>1. p + n \in 0 .. Far BY <3>4, <4>2, Constants DEF Far
        <5>2. Leq(SeqOf(p + n), SeqOf(i + w)) BY Zenon, <2>2, <3>3 DEF Between
        <5> QED BY Zenon, <3>1, <5>1, <5>2, LeqIs
      <4> QED BY Zenon, <4>1, <4>2
    <3>6. segment'[1] = p /\ segment'[2] = n BY Zenon, <2>2
    <3> QED BY Zenon, <2>2, <3>1, <3>5, <3>6
  <2> QED BY Zenon, <1>1, <2>1, <2>2
<1>6. StackOK'
  <2>1. "established" # "close_wait" OBVIOUS
  <2>2. {ack', need_wnd_adv', reset'} \subseteq BOOLEAN BY Zenon, <1>1, <1>2 DEF StackOK
  <2> QED BY Zenon, <1>1, <1>2, <1>4, <1>5, <2>1, <2>2 DEF StackOK
<1>7. EndsOK' BY Zenon, <1>1, <1>2, <1>4 DEF EndsOK
<1>8. BufferOK(rcvbuf', Len(output')) BY Zenon, <1>1, <1>2
<1> QED BY Zenon, <1>6, <1>7, <1>8 DEF RecvInv

\* A piece of the stream is a segment.
LEMMA SegmentIs ==
    ASSUME NEW p \in -1 .. Length, NEW n \in 0 .. Mss, NEW fin \in BOOLEAN,
           n > 0 => p >= 0, p + n <= Length, fin => p + n = Length
    PROVE  <<p, n, fin>> \in Segment
  BY Constants DEF Segment

\* Segments that the network repeats or reorders.
LEMMA AnyInv == RecvInv /\ Any => RecvInv'
<1>1. ASSUME NEW p \in 0 .. Length, NEW n \in 0 .. Mss, NEW fin \in BOOLEAN,
             p + n <= Length, fin => p + n = Length
      PROVE  <<p, n, fin>> \in Segment
  <2>1. p \in -1 .. Length /\ p >= 0 BY Constants
  <2> QED BY Zenon, <1>1, <2>1, SegmentIs
<1> QED BY Zenon, <1>1, ArrivesInv DEF Any

\* Segments that the peer sends again, and probes.
LEMMA RetransmitInv == RecvInv /\ Retransmit => RecvInv'
<1> SUFFICES ASSUME RecvInv, Retransmit PROVE RecvInv' OBVIOUS
<1>1. una \in Nat /\ edge \in Nat /\ una <= edge /\ una <= Length
  <2>1. BufferOK(rcvbuf, Len(output)) /\ StackOK /\ EndsOK BY Zenon DEF RecvInv
  <2>2. Received \in 0 .. Far BY Zenon, <2>1, InvNumbers DEF Numbers
  <2>3. una \in 0 .. Received /\ edge \in Nat /\ una <= edge BY Zenon, <2>1 DEF EndsOK
  <2>4. una <= Length BY Zenon DEF Retransmit
  <2> QED BY <2>2, <2>3, <2>4
<1>2. PICK n : n = Lesser(Mss, Lesser(edge, Length) - una) OBVIOUS
<1>3. \/ una < Length /\ n <= 0 /\ Arrives(una - 1, 0, FALSE)
      \/ ~(una < Length /\ n <= 0) /\ Arrives(una, n, una + n = Length)
  BY Zenon, <1>2 DEF Retransmit
<1>4. CASE una < Length /\ n <= 0 /\ Arrives(una - 1, 0, FALSE)
  <2>0. una - 1 \in -1 .. Length /\ (una - 1) + 0 <= Length /\ 0 \in 0 .. Mss /\ ~(0 > 0)
    BY <1>1, <1>4, Constants
  <2>1. <<una - 1, 0, FALSE>> \in Segment BY Zenon, <2>0, SegmentIs
  <2> QED BY Zenon, <1>4, <2>1, ArrivesInv
<1>5. CASE ~(una < Length /\ n <= 0) /\ Arrives(una, n, una + n = Length)
  <2>1. n \in 0 .. Mss /\ una + n <= Length BY <1>1, <1>2, <1>5, Constants DEF Lesser
  <2>a. una \in -1 .. Length /\ una >= 0 BY <1>1, Constants
  <2>b. (una + n = Length) \in BOOLEAN OBVIOUS
  <2>2. <<una, n, una + n = Length>> \in Segment BY Zenon, <2>1, <2>a, <2>b, SegmentIs
  <2> QED BY Zenon, <1>5, <2>2, ArrivesInv
<1> QED BY Zenon, <1>3, <1>4, <1>5

\* Putting the segment keeps what is there, and the stack's numbers follow the buffer.
LEMMA PutInv ==
    ASSUME RecvInv, Put
    PROVE  /\ RecvInv' /\ output' = output /\ rcvbuf'.head_seq = rcvbuf.head_seq
           /\ Cover(rcvbuf.head_seq, rcvbuf.fctx) \subseteq Cover(rcvbuf'.head_seq, rcvbuf'.fctx)
<1>1. BufferOK(rcvbuf, Len(output)) /\ StackOK /\ EndsOK BY Zenon DEF RecvInv
<1>2. PICK o \in 0 .. Length, m \in 0 .. Size, w \in 0 .. MaxWnd : Numbers(o, m, w)
  BY Zenon, <1>1, InvNumbers
<1>3. PICK p, n, fin : p = segment[1] /\ n = segment[2] /\ fin = segment[3] OBVIOUS
<1>4. PICK b : b = RBPut(rcvbuf, SeqOf(p), [k \in 1 .. n |-> p + k]) OBVIOUS
<1>5. PICK nxt : nxt = IF n = 0 THEN rcv_nxt ELSE Add(b.head_seq, b.merged_len) OBVIOUS
<1>6. PICK closes : closes = (fin /\ SeqOf(p + n) = nxt) OBVIOUS
<1>7. /\ segment # None /\ rcvbuf' = b
      /\ rcv_wnd' = (IF n = 0 THEN rcv_wnd ELSE Size - b.merged_len)
      /\ rcv_nxt' = (IF closes THEN Add(nxt, 1) ELSE nxt)
      /\ state' = (IF closes THEN "close_wait" ELSE state)
      /\ ack' = (ack \/ Answers(nxt)) /\ segment' = None
      /\ window' = window /\ need_wnd_adv' = need_wnd_adv /\ una' = una /\ edge' = edge
      /\ output' = output /\ ended' = ended /\ reset' = reset
  BY Zenon, <1>3, <1>4, <1>5, <1>6 DEF Put, FinInOrder, Free
<1>8. state = "established" /\ ended = FALSE /\ ~FinSeen
  BY Zenon, <1>1, <1>7 DEF StackOK, EndsOK
<1>9. /\ p \in -1 .. Length /\ n \in 0 .. Mss /\ fin \in BOOLEAN /\ (n > 0 => p >= 0)
      /\ p + n <= Length /\ (fin => p + n = Length)
  <2>1. segment \in Segment BY Zenon, <1>1, <1>7 DEF StackOK
  <2> QED BY <1>3, <2>1 DEF Segment
<1>10. /\ BufferOK(b, o) /\ b.head_seq = rcvbuf.head_seq /\ m <= b.merged_len
       /\ Cover(rcvbuf.head_seq, rcvbuf.fctx) \subseteq Cover(b.head_seq, b.fctx)
       /\ n = 0 => b.merged_len = m
  <2>0. o = Len(output) /\ m = rcvbuf.merged_len BY Zenon, <1>2 DEF Numbers
  <2>1. CASE n = 0
    <3>1. Len([k \in 1 .. n |-> p + k]) = 0 BY <2>1
    <3>2. b = rcvbuf BY Zenon, <1>4, <3>1 DEF RBPut
    <3>3. m <= m OBVIOUS
    <3> QED BY Zenon, <1>1, <2>0, <3>2, <3>3
  <2>2. CASE n # 0
    <3>1. p \in 0 .. Length /\ n \in 1 .. Mss /\ p + n <= Length BY <1>9, <2>2, Constants
    <3>2. BufferOK(rcvbuf, o) BY Zenon, <1>1, <2>0
    <3>3. Grown(rcvbuf, o, b) BY Zenon, <1>4, <3>1, <3>2, PutKeeps
    <3> QED BY Zenon, <2>0, <2>2, <3>3 DEF Grown
  <2> QED BY Zenon, <2>1, <2>2
<1>11. PICK r \in 0 .. Size : r = b.merged_len BY Zenon, <1>10 DEF BufferOK, Buffer
<1>12. InOrder' = o + r /\ InOrder = o + m /\ Received = o + m
  <2>1. o = Len(output) /\ InOrder = o + m /\ Received = o + m BY Zenon, <1>2, <1>8 DEF Numbers
  <2> QED BY Zenon, <1>7, <1>11, <2>1 DEF InOrder
<1>13. nxt = SeqOf(o + r)
  <2>1. CASE n = 0 BY Zenon, <1>1, <1>5, <1>10, <1>11, <1>12, <2>1 DEF StackOK
  <2>2. CASE n # 0
    <3>1. o \in 0 .. Far /\ r \in 0 .. Far /\ o + r \in 0 .. Far BY Constants DEF Far
    <3>2. Add(SeqOf(o), r) = SeqOf(o + r) BY Zenon, <3>1, SeqOfAdd
    <3>3. b.head_seq = SeqOf(o) BY Zenon, <1>10 DEF BufferOK
    <3> QED BY Zenon, <1>5, <1>11, <2>2, <3>2, <3>3
  <2> QED BY Zenon, <2>1, <2>2
<1>14. o + r \in 0 .. Far /\ o + m \in 0 .. o + r /\ Length \in 0 .. Far /\ 1 \in 0 .. Far
       /\ Length + 1 \in 0 .. Far
  <2>1. m <= r BY Zenon, <1>10, <1>11
  <2> QED BY <2>1, Constants DEF Far
<1>15. closes => o + r = Length
  <2>1. closes => p + n = Length /\ SeqOf(p + n) = SeqOf(o + r) BY Zenon, <1>6, <1>9, <1>13
  <2> QED BY Zenon, <1>14, <2>1, SeqOfTwo
<1>a. o + r # Length + 1 /\ closes \in BOOLEAN
  <2>1. closes \in BOOLEAN BY Zenon, <1>6
  <2>2. o + r \in 0 .. Length
    BY Zenon, <1>10, <1>11, BufferIn
  <2> QED BY <2>1, <2>2, Constants
<1>16. FinSeen' = closes /\ Received' = (IF closes THEN Length + 1 ELSE o + r) /\ rcv_nxt' = SeqOf(Received')
  <2>1. closes => Add(SeqOf(Length), 1) = SeqOf(Length + 1) BY Zenon, <1>14, SeqOfAdd
  <2>2. FinSeen' = closes BY Zenon, <1>7, <1>a, <1>13, <1>14, <1>15, <2>1, SeqOfTwo DEF FinSeen
  <2>3. Received' = (IF closes THEN Length + 1 ELSE o + r) BY Zenon, <1>12, <2>2 DEF Received
  <2> QED BY Zenon, <1>7, <1>13, <1>15, <2>1, <2>2, <2>3
<1>17. rcv_wnd' = Size - r \/ (rcv_wnd' = InitWnd /\ o + r = 0)
  <2>1. CASE n = 0
    <3>1. r = m /\ rcv_wnd' = rcv_wnd BY Zenon, <1>7, <1>10, <1>11, <2>1
    <3>2. m = rcvbuf.merged_len BY Zenon, <1>2 DEF Numbers
    <3>3. rcv_wnd = Size - m \/ (rcv_wnd = InitWnd /\ o + m = 0) BY Zenon, <1>1, <1>12, <3>2 DEF StackOK
    <3> QED BY Zenon, <3>1, <3>3
  <2>2. CASE n # 0 BY Zenon, <1>7, <1>11, <2>2
  <2> QED BY Zenon, <2>1, <2>2
<1>18. StackOK'
  <2>1. state' \in {"established", "close_wait"} /\ (state' = "close_wait" => closes)
    <3>1. "close_wait" # "established" OBVIOUS
    <3> QED BY Zenon, <1>7, <1>8, <3>1
  <2>2. {ack', need_wnd_adv', reset'} \subseteq BOOLEAN
    <3>1. ack' \in BOOLEAN BY Zenon, <1>7
    <3> QED BY Zenon, <1>1, <1>7, <3>1 DEF StackOK
  <2>3. window' # None => window' \in Seq(Nat) /\ Len(window') = 1 BY Zenon, <1>1, <1>7 DEF StackOK
  <2>4. rcvbuf'.merged_len = r BY Zenon, <1>7, <1>11
  <2> QED BY Zenon, <1>7, <1>12, <1>15, <1>16, <1>17, <2>1, <2>2, <2>3, <2>4 DEF StackOK
<1>19. EndsOK'
  <2>1. una \in 0 .. o + m BY Zenon, <1>1, <1>12 DEF EndsOK
  <2>a. o + m \in 0 .. Length BY Zenon, <1>2 DEF Numbers
  <2>2. una \in 0 .. o + r /\ una \in 0 .. Length + 1 BY <1>14, <2>1, <2>a, Constants
  <2>3. una' \in 0 .. Received' BY Zenon, <1>7, <1>16, <2>2
  <2> QED BY Zenon, <1>1, <1>7, <1>8, <2>3 DEF EndsOK
<1>20. BufferOK(rcvbuf', Len(output')) BY Zenon, <1>2, <1>7, <1>10 DEF Numbers
<1> QED BY Zenon, <1>7, <1>10, <1>18, <1>19, <1>20 DEF RecvInv

\* Products are natural numbers.
LEMMA Times ==
    ASSUME NEW a \in Nat, NEW b \in Nat
    PROVE  a * b \in Nat
  OBVIOUS

\* The window is read, and an ACK is sent or lost.
LEMMA AckInv ==
    ASSUME RecvInv, DropAck \/ ReadWindow \/ SendAck \/ LoseAck
    PROVE  RecvInv' /\ output' = output /\ rcvbuf' = rcvbuf /\ ended' = ended /\ reset' = reset
<1>1. BufferOK(rcvbuf, Len(output)) /\ StackOK /\ EndsOK BY Zenon DEF RecvInv
<1>2. PICK o \in 0 .. Length, m \in 0 .. Size, w \in 0 .. MaxWnd : Numbers(o, m, w)
  BY Zenon, <1>1, InvNumbers
<1>3. /\ rcvbuf' = rcvbuf /\ state' = state /\ rcv_nxt' = rcv_nxt /\ rcv_wnd' = rcv_wnd
      /\ segment' = segment /\ output' = output /\ ended' = ended /\ reset' = reset
  BY Zenon DEF DropAck, ReadWindow, SendAck, LoseAck, Sends
<1>4. InOrder' = InOrder /\ FinSeen' = FinSeen /\ Received' = Received BY Zenon, <1>3 DEF InOrder, FinSeen, Received
<1>5. window' # None => window' \in Seq(Nat) /\ Len(window') = 1
  <2>1. CASE ReadWindow
    <3>1. rcv_wnd = w BY Zenon, <1>2 DEF Numbers
    <3>a. w \div Scale \in Nat BY Constants
    <3>2. PICK q \in Nat : q = Lesser(w \div Scale, MaxField) BY Zenon, <3>a, Constants DEF Lesser
    <3>3. window' = <<q>> BY Zenon, <2>1, <3>1, <3>2 DEF ReadWindow
    <3> QED BY <3>3
  <2>2. CASE window' = None \/ window' = window BY Zenon, <1>1, <2>2 DEF StackOK
  <2>3. ReadWindow \/ window' = None \/ window' = window BY Zenon DEF DropAck, SendAck, LoseAck, Sends
  <2> QED BY Zenon, <2>1, <2>2, <2>3
<1>6. {ack', need_wnd_adv', reset'} \subseteq BOOLEAN
  <2>1. {ack, need_wnd_adv, reset} \subseteq BOOLEAN BY Zenon, <1>1 DEF StackOK
  <2>2. ack' \in BOOLEAN /\ need_wnd_adv' \in BOOLEAN /\ reset' \in BOOLEAN
    BY Zenon, <1>3, <2>1 DEF DropAck, ReadWindow, SendAck, LoseAck, Sends
  <2> QED BY Zenon, <2>2
<1>7. StackOK' BY Zenon, <1>1, <1>3, <1>4, <1>5, <1>6 DEF StackOK
<1>8. una' \in 0 .. Received /\ edge' \in Nat /\ una' <= edge'
  <2>1. una \in 0 .. Received /\ edge \in Nat /\ una <= edge BY Zenon, <1>1 DEF EndsOK
  <2>2. CASE SendAck
    <3>1. PICK r \in 0 .. Far : r = Received BY Zenon, <1>2 DEF Numbers
    <3>2. PICK u \in 0 .. r : u = una BY Zenon, <2>1, <3>1
    <3>3. u \in 0 .. Far /\ u <= r BY Constants
    <3>4. rcv_nxt = SeqOf(r) BY Zenon, <1>1, <3>1 DEF StackOK
    <3>5. Minus(SeqOf(r), SeqOf(u)) = r - u BY Zenon, <3>3, SeqOfTwo
    <3>6. u + (r - u) = r /\ r \in 0 .. r BY Constants
    <3>7. una' = r BY Zenon, <2>2, <3>2, <3>4, <3>5, <3>6 DEF SendAck
    <3>8. PICK v \in Nat : v = window[1]
      <4>1. window # None BY Zenon, <2>2 DEF SendAck, Sends
      <4>2. window \in Seq(Nat) /\ Len(window) = 1 BY Zenon, <1>1, <4>1 DEF StackOK
      <4>3. 1 \in 1 .. 1 OBVIOUS
      <4> QED BY Zenon, <4>2, <4>3, SeqIs
    <3>9. PICK s \in Nat : s = v * Scale BY Constants, Times
    <3>10. edge' = r + s BY Zenon, <2>2, <3>7, <3>8, <3>9 DEF SendAck
    <3>11. r + s \in Nat /\ r <= r + s BY Constants
    <3> QED BY Zenon, <3>1, <3>6, <3>7, <3>10, <3>11
  <2>3. CASE una' = una /\ edge' = edge BY Zenon, <2>1, <2>3
  <2>4. SendAck \/ (una' = una /\ edge' = edge) BY Zenon DEF DropAck, ReadWindow, LoseAck
  <2> QED BY Zenon, <2>2, <2>3, <2>4
<1>9. EndsOK' BY Zenon, <1>1, <1>3, <1>4, <1>8 DEF EndsOK
<1>10. BufferOK(rcvbuf', Len(output')) BY Zenon, <1>1, <1>3
<1> QED BY Zenon, <1>3, <1>7, <1>9, <1>10 DEF RecvInv

Joined(S, u, v, c) ==
    /\ c \in Seq(S) /\ Len(c) = Len(u) + Len(v)
    /\ \A i \in 1 .. Len(u) : c[i] = u[i]
    /\ \A i \in Len(u) + 1 .. Len(u) + Len(v) : c[i] = v[i - Len(u)]

\* Concatenation does that.
LEMMA JoinedIs ==
    ASSUME NEW S, NEW u \in Seq(S), NEW v \in Seq(S)
    PROVE  Joined(S, u, v, u \o v)
  BY Zenon, Concat DEF Joined

\* The stream up to position o, and n bytes more.
UpTo(o) == [k \in 1 .. o |-> k]
More(o, n) == [k \in 1 .. n |-> o + k]

\* Appending them gives the stream up to position o + n.
LEMMA Counted ==
    ASSUME NEW o \in Nat, NEW n \in Nat
    PROVE  UpTo(o) \o More(o, n) = UpTo(o + n) /\ Len(UpTo(o + n)) = o + n
<1>0. o + n \in Nat /\ \A a \in Nat : Len(UpTo(a)) = a BY DEF UpTo
<1>1. PICK u \in Seq(Nat), v \in Seq(Nat) : u = UpTo(o) /\ v = More(o, n) /\ Len(u) = o /\ Len(v) = n
  <2>1. UpTo(o) \in Seq(Nat) BY DEF UpTo
  <2>2. More(o, n) \in Seq(Nat) BY DEF More
  <2>3. Len(More(o, n)) = n BY DEF More
  <2> QED BY Zenon, <1>0, <2>1, <2>2, <2>3
<1>a. PICK c : c = u \o v OBVIOUS
<1>b. Joined(Nat, u, v, c) BY Zenon, <1>a, JoinedIs
<1>2. /\ c \in Seq(Nat) /\ Len(c) = o + n
      /\ \A i \in 1 .. o : c[i] = u[i]
      /\ \A i \in o + 1 .. o + n : c[i] = v[i - o]
  BY Zenon, <1>1, <1>b DEF Joined
<1>3. c = [i \in 1 .. o + n |-> c[i]] BY Zenon, <1>2, SeqIs
<1>4. ASSUME NEW i \in 1 .. o + n PROVE c[i] = i
  <2>1. CASE i \in 1 .. o
    <3>1. u[i] = i BY Zenon, <1>1, <2>1 DEF UpTo
    <3> QED BY Zenon, <1>2, <2>1, <3>1
  <2>2. CASE i \in o + 1 .. o + n
    <3>1. i - o \in 1 .. n /\ o + (i - o) = i BY <2>2
    <3>2. v[i - o] = i BY Zenon, <1>1, <3>1 DEF More
    <3> QED BY Zenon, <1>2, <2>2, <3>2
  <2> QED BY <2>1, <2>2
<1>5. c = UpTo(o + n) BY Zenon, <1>3, <1>4 DEF UpTo
<1> QED BY Zenon, <1>0, <1>1, <1>a, <1>5

\* The application takes what is in order.
LEMMA RecvStep ==
    ASSUME RecvInv, NEW n, Recv(n)
    PROVE  /\ RecvInv' /\ ended = FALSE /\ ended' = FALSE /\ reset' = reset
           /\ Len(output') = Len(output) + n /\ n \in Nat \ {0}
           /\ \A y \in Nat : y + n \in Cover(rcvbuf.head_seq, rcvbuf.fctx) =>
                                 y \in Cover(rcvbuf'.head_seq, rcvbuf'.fctx)
<1>1. BufferOK(rcvbuf, Len(output)) /\ StackOK /\ EndsOK BY Zenon DEF RecvInv
<1>2. PICK o \in 0 .. Length, m \in 0 .. Size, w \in 0 .. MaxWnd : Numbers(o, m, w)
  BY Zenon, <1>1, InvNumbers
<1>3. /\ n \in 1 .. rcvbuf.merged_len
      /\ output' = output \o [k \in 1 .. n |-> rcvbuf.data[rcvbuf.head_offset + k - 1]]
      /\ rcvbuf' = RBRemove(rcvbuf, n) /\ rcv_wnd' = Size - rcvbuf'.merged_len
      /\ state' = state /\ rcv_nxt' = rcv_nxt /\ segment' = segment /\ window' = window
      /\ una' = una /\ edge' = edge /\ ended' = ended /\ reset' = reset
  BY Zenon DEF Recv, Free
<1>4. /\ o = Len(output) /\ m = rcvbuf.merged_len /\ InOrder = o + m /\ rcv_wnd = w
      /\ Received = IF FinSeen THEN Length + 1 ELSE o + m
  BY Zenon, <1>2 DEF Numbers
<1>5. n \in 1 .. m /\ n \in Nat \ {0} /\ o \in Nat /\ m # 0 BY <1>3, <1>4, Constants
<1>6. /\ BufferOK(rcvbuf', o + n) /\ rcvbuf'.merged_len = m - n
      /\ \A y \in Nat : y + n \in Cover(rcvbuf.head_seq, rcvbuf.fctx) =>
                            y \in Cover(rcvbuf'.head_seq, rcvbuf'.fctx)
      /\ \A i \in 1 .. n : rcvbuf.data[rcvbuf.head_offset + i - 1] = o + i
  <2>1. Taken(rcvbuf, o, n, rcvbuf') BY Zenon, <1>1, <1>3, <1>4, RemoveKeeps
  <2> QED BY Zenon, <1>4, <2>1 DEF Taken
<1>7. [k \in 1 .. n |-> rcvbuf.data[rcvbuf.head_offset + k - 1]] = [k \in 1 .. n |-> o + k] BY Zenon, <1>6
<1>8. output' = [k \in 1 .. o + n |-> k] /\ Len(output') = o + n
  <2>1. output = UpTo(o) BY Zenon, <1>1, <1>4 DEF EndsOK, UpTo
  <2>2. output' = UpTo(o) \o More(o, n) BY Zenon, <1>3, <1>7, <2>1 DEF More
  <2>3. UpTo(o) \o More(o, n) = UpTo(o + n) /\ Len(UpTo(o + n)) = o + n BY Zenon, <1>5, Counted
  <2> QED BY Zenon, <2>2, <2>3 DEF UpTo
<1>9. InOrder' = InOrder /\ FinSeen' = FinSeen /\ Received' = Received
  <2>1. (o + n) + (m - n) = o + m BY <1>5
  <2>2. InOrder' = InOrder BY Zenon, <1>4, <1>6, <1>8, <2>1 DEF InOrder
  <2>3. FinSeen' = FinSeen BY Zenon, <1>3 DEF FinSeen
  <2> QED BY Zenon, <2>2, <2>3 DEF Received
<1>10. ended = FALSE BY Zenon, <1>1, <1>4, <1>5 DEF EndsOK
<1>11. rcv_wnd = Size - m /\ rcv_wnd' = Size - (m - n) /\ rcv_wnd <= rcv_wnd'
  <2>1. o + m # 0 BY <1>5
  <2>2. rcv_wnd = Size - m BY Zenon, <1>1, <1>4, <2>1 DEF StackOK
  <2>3. rcv_wnd' = Size - (m - n) BY Zenon, <1>3, <1>6
  <2>4. Size - m <= Size - (m - n) BY <1>5, Constants
  <2> QED BY Zenon, <2>2, <2>3, <2>4
<1>12. segment # None => segment[1] + segment[2] <= InOrder + rcv_wnd'
  <2>1. SUFFICES ASSUME segment # None PROVE segment[1] + segment[2] <= InOrder + rcv_wnd' BY Zenon
  <2>2. PICK s : s = segment[1] + segment[2] OBVIOUS
  <2>3. segment \in Segment /\ s <= InOrder + rcv_wnd BY Zenon, <1>1, <2>1, <2>2 DEF StackOK
  <2>4. s \in Int BY <2>2, <2>3, Constants DEF Segment
  <2>5. s <= (o + m) + (Size - m) BY Zenon, <1>4, <1>11, <2>3
  <2>6. s <= (o + m) + (Size - (m - n)) BY <1>5, <2>4, <2>5, Constants
  <2> QED BY Zenon, <1>4, <1>11, <2>2, <2>6
<1>13. {ack', need_wnd_adv', reset'} \subseteq BOOLEAN
  <2>1. {ack, need_wnd_adv, reset} \subseteq BOOLEAN BY Zenon, <1>1 DEF StackOK
  <2>2. ack' \in BOOLEAN /\ need_wnd_adv' \in BOOLEAN /\ reset' \in BOOLEAN BY Zenon, <1>3, <2>1 DEF Recv
  <2> QED BY Zenon, <2>2
<1>14. StackOK'
  BY Zenon, <1>1, <1>3, <1>6, <1>9, <1>11, <1>12, <1>13 DEF StackOK
<1>15. EndsOK' BY Zenon, <1>1, <1>3, <1>8, <1>9, <1>10 DEF EndsOK
<1>16. BufferOK(rcvbuf', Len(output')) BY Zenon, <1>6, <1>8
<1> QED BY Zenon, <1>3, <1>4, <1>5, <1>6, <1>8, <1>10, <1>14, <1>15, <1>16 DEF RecvInv

\* The application is told the end.
LEMMA RecvEndInv == RecvInv /\ RecvEnd => RecvInv' /\ output' = output /\ rcvbuf' = rcvbuf
<1> SUFFICES ASSUME RecvInv, RecvEnd PROVE RecvInv' /\ output' = output /\ rcvbuf' = rcvbuf OBVIOUS
<1>1. BufferOK(rcvbuf, Len(output)) /\ StackOK /\ EndsOK BY Zenon DEF RecvInv
<1>2. /\ rcvbuf' = rcvbuf /\ state' = state /\ rcv_nxt' = rcv_nxt /\ rcv_wnd' = rcv_wnd
      /\ segment' = segment /\ output' = output /\ window' = window /\ una' = una /\ edge' = edge
      /\ ack' = ack /\ need_wnd_adv' = need_wnd_adv /\ reset' = reset
      /\ state = "close_wait" /\ rcvbuf.merged_len = 0 /\ ended' = TRUE
  BY Zenon DEF RecvEnd
<1>3. InOrder' = InOrder /\ FinSeen' = FinSeen /\ Received' = Received BY Zenon, <1>2 DEF InOrder, FinSeen, Received
<1>4. StackOK' BY Zenon, <1>1, <1>2, <1>3 DEF StackOK
<1>5. EndsOK' BY Zenon, <1>1, <1>2, <1>3 DEF EndsOK
<1>6. BufferOK(rcvbuf', Len(output')) BY Zenon, <1>1, <1>2
<1> QED BY Zenon, <1>2, <1>4, <1>5, <1>6 DEF RecvInv

\* The peer resets the connection.
LEMMA ResetInv ==
    ASSUME RecvInv, NEW p, Reset(p)
    PROVE  RecvInv' /\ output' = output /\ rcvbuf' = rcvbuf /\ ended' = ended /\ reset' = TRUE
<1>1. BufferOK(rcvbuf, Len(output)) /\ StackOK /\ EndsOK BY Zenon DEF RecvInv
<1>2. /\ rcvbuf' = rcvbuf /\ rcv_nxt' = rcv_nxt /\ rcv_wnd' = rcv_wnd
      /\ segment' = segment /\ output' = output /\ window' = window /\ una' = una /\ edge' = edge
      /\ ack' = ack /\ need_wnd_adv' = need_wnd_adv /\ ended' = ended
      /\ state' = "close_wait" /\ reset' = TRUE /\ segment = None
  BY Zenon DEF Reset, Idle
<1>3. InOrder' = InOrder /\ FinSeen' = FinSeen /\ Received' = Received BY Zenon, <1>2 DEF InOrder, FinSeen, Received
<1>4. StackOK' BY Zenon, <1>1, <1>2, <1>3 DEF StackOK
<1>5. EndsOK' BY Zenon, <1>1, <1>2, <1>3 DEF EndsOK
<1>6. BufferOK(rcvbuf', Len(output')) BY Zenon, <1>1, <1>2
<1> QED BY Zenon, <1>2, <1>4, <1>5, <1>6 DEF RecvInv

\* Nothing happens.
LEMMA StutterInv == RecvInv /\ UNCHANGED vars => RecvInv' /\ output' = output /\ rcvbuf' = rcvbuf
<1> SUFFICES ASSUME RecvInv, UNCHANGED vars PROVE RecvInv' /\ output' = output /\ rcvbuf' = rcvbuf
  OBVIOUS
<1>1. BufferOK(rcvbuf, Len(output)) /\ StackOK /\ EndsOK BY Zenon DEF RecvInv
<1>2. /\ rcvbuf' = rcvbuf /\ state' = state /\ rcv_nxt' = rcv_nxt /\ rcv_wnd' = rcv_wnd
      /\ segment' = segment /\ output' = output /\ window' = window /\ una' = una /\ edge' = edge
      /\ ack' = ack /\ need_wnd_adv' = need_wnd_adv /\ ended' = ended /\ reset' = reset
  BY Zenon DEF vars
<1>3. InOrder' = InOrder /\ FinSeen' = FinSeen /\ Received' = Received BY Zenon, <1>2 DEF InOrder, FinSeen, Received
<1>4. StackOK' BY Zenon, <1>1, <1>2, <1>3 DEF StackOK
<1>5. EndsOK' BY Zenon, <1>1, <1>2, <1>3 DEF EndsOK
<1>6. BufferOK(rcvbuf', Len(output')) BY Zenon, <1>1, <1>2
<1> QED BY Zenon, <1>2, <1>4, <1>5, <1>6 DEF RecvInv

\* Every step keeps the invariant.
LEMMA NextInv == RecvInv /\ [Next]_vars => RecvInv'
<1> SUFFICES ASSUME RecvInv, [Next]_vars PROVE RecvInv' OBVIOUS
<1>1. CASE Any BY Zenon, <1>1, AnyInv
<1>2. CASE Retransmit BY Zenon, <1>2, RetransmitInv
<1>3. CASE Put BY Zenon, <1>3, PutInv
<1>4. CASE DropAck \/ ReadWindow \/ SendAck \/ LoseAck BY Zenon, <1>4, AckInv
<1>5. CASE Receive BY Zenon, <1>5, RecvStep DEF Receive
<1>6. CASE RecvEnd BY Zenon, <1>6, RecvEndInv
<1>7. CASE \E p \in 0 .. Length + 1 : Reset(p) BY Zenon, <1>7, ResetInv
<1>8. CASE UNCHANGED vars BY Zenon, <1>8, StutterInv
<1> QED BY Zenon, <1>1, <1>2, <1>3, <1>4, <1>5, <1>6, <1>7, <1>8 DEF Next

-----------------------------------------------------------------------------
(* What it gives. *)

\* The buffer means what RecvInv says, whatever arrives in whatever order and whenever
\* the application reads.
THEOREM RecvInvariant == Spec => []RecvInv
BY InitInv, NextInv, PTL DEF Spec

\* Every offset stays within the buffer, and every number within its type.
THEOREM RecvTypeCorrect == Spec => []TypeOK
<1>1. RecvInv => TypeOK
  <2> SUFFICES ASSUME RecvInv PROVE TypeOK OBVIOUS
  <2>1. BufferOK(rcvbuf, Len(output)) /\ StackOK /\ EndsOK BY Zenon DEF RecvInv
  <2>2. PICK o \in 0 .. Length, m \in 0 .. Size, w \in 0 .. MaxWnd : Numbers(o, m, w)
    BY Zenon, <2>1, InvNumbers
  <2>3. /\ rcvbuf.data \in [0 .. Size - 1 -> 0 .. Length] /\ rcvbuf.head_offset \in 0 .. Size
        /\ rcvbuf.tail_offset \in 0 .. Size /\ rcvbuf.last_len \in 0 .. Size
        /\ rcvbuf.fctx \in Seq(Fragment) /\ rcvbuf.head_seq \in 0 .. Word - 1
        /\ rcvbuf.last_len = rcvbuf.tail_offset - rcvbuf.head_offset
    BY Zenon, <2>1 DEF BufferOK, Buffer
  <2>4. /\ 0 <= rcvbuf.head_offset /\ rcvbuf.head_offset <= rcvbuf.tail_offset
        /\ rcvbuf.tail_offset <= Size
    <3>1. \A i, j, l \in 0 .. Size : l = j - i => 0 <= i /\ i <= j /\ j <= Size BY Constants
    <3> QED BY Zenon, <2>3, <3>1
  <2>5. /\ m = rcvbuf.merged_len /\ m <= rcvbuf.last_len /\ w = rcv_wnd /\ Received \in 0 .. Far
        /\ Received = IF FinSeen THEN Length + 1 ELSE o + m
        /\ o + m \in 0 .. Length
    BY Zenon, <2>2 DEF Numbers
  <2>6. rcvbuf.merged_len \in 0 .. rcvbuf.last_len
    <3>1. \A i, j \in 0 .. Size : i <= j => i \in 0 .. j BY Constants
    <3> QED BY Zenon, <2>3, <2>5, <3>1
  <2>7. rcv_nxt \in 0 .. Word - 1
    <3>1. rcv_nxt = SeqOf(Received) BY Zenon, <2>1 DEF StackOK
    <3> QED BY Zenon, <2>5, <3>1, SeqOfIs
  <2>8. una \in 0 .. Length + 1
    <3>1. una \in 0 .. Received BY Zenon, <2>1 DEF EndsOK
    <3>2. Received \in 0 .. Length + 1 BY <2>5, Constants
    <3> QED BY <3>1, <3>2, Constants
  <2>9. {ack, need_wnd_adv, reset} \subseteq BOOLEAN BY Zenon, <2>1 DEF StackOK
  <2>10. ended \in BOOLEAN /\ edge \in Nat BY Zenon, <2>1 DEF EndsOK
  <2> QED BY Zenon, <2>3, <2>4, <2>5, <2>6, <2>7, <2>8, <2>9, <2>10 DEF TypeOK
<1> QED BY <1>1, RecvInvariant, PTL

\* The bytes that a buffer b holds, its head being position n of the stream.
HeldAt(b, n) ==
    UNION {n + Off(b.head_seq, b.fctx[i]) + 1 .. n + Off(b.head_seq, b.fctx[i]) + b.fctx[i].len :
               i \in DOMAIN b.fctx}

\* The same, by their distance from the head.
Ahead(b, n) == {n + x + 1 : x \in Cover(b.head_seq, b.fctx)}

\* The two are the same.
LEMMA HeldIs ==
    ASSUME NEW b, NEW n, BufferOK(b, n)
    PROVE  HeldAt(b, n) = Ahead(b, n)
<1> DEFINE h == b.head_seq
           fs == b.fctx
           P(i) == n + Off(h, fs[i]) + 1 .. n + Off(h, fs[i]) + fs[i].len
<1>1. n \in 0 .. Length /\ fs \in Seq(Frags(h)) /\ b \in Buffer BY Zenon DEF BufferOK
<1>2. h \in 0 .. Word - 1 BY Zenon, <1>1 DEF Buffer
<1>3. DOMAIN fs = 1 .. Len(fs) /\ \A i \in 1 .. Len(fs) : fs[i] \in Frags(h) BY Zenon, <1>1, SeqIs
<1>4. \A i \in DOMAIN fs : /\ Off(h, fs[i]) \in 0 .. Size - 1 /\ fs[i].len \in 1 .. Size
                           /\ End(h, fs[i]) = Off(h, fs[i]) + fs[i].len
  BY Zenon, <1>2, <1>3, FragIs
<1>5. \A k : k \in HeldAt(b, n) <=> \E i \in DOMAIN fs : k \in P(i) BY Zenon DEF HeldAt
<1>6. \A p \in 0 .. Length, o \in 0 .. Size - 1, l \in 1 .. Size :
          \A c \in p + o + 1 .. p + o + l :
              /\ c - p - 1 \in Int /\ o <= c - p - 1 /\ c - p - 1 < o + l /\ c = p + (c - p - 1) + 1
  BY Constants
<1>7. \A p \in 0 .. Length, o \in 0 .. Size - 1, l \in 1 .. Size, x \in 0 .. Size - 1 :
          o <= x /\ x < o + l => p + x + 1 \in p + o + 1 .. p + o + l
  BY Constants
<1>8. ASSUME NEW k, NEW i \in DOMAIN fs, k \in P(i)
      PROVE  \E x \in Cover(h, fs) : k = n + x + 1
  <2>0. PICK o \in 0 .. Size - 1, l \in 1 .. Size : o = Off(h, fs[i]) /\ l = fs[i].len BY Zenon, <1>4
  <2>1. PICK x \in Int : o <= x /\ x < o + l /\ k = n + x + 1
    <3>1. k \in n + o + 1 .. n + o + l BY Zenon, <1>8, <2>0
    <3>2. k - n - 1 \in Int /\ o <= k - n - 1 /\ k - n - 1 < o + l /\ k = n + (k - n - 1) + 1
      BY ZenonT(30), <1>1, <1>6, <3>1
    <3> QED BY Zenon, <3>2
  <2>2. In(h, fs[i], x) BY Zenon, <1>4, <2>0, <2>1 DEF In
  <2>3. x \in Cover(h, fs) BY Zenon, <1>1, <1>2, <2>2, CoverIs
  <2> QED BY Zenon, <2>1, <2>3
<1>9. ASSUME NEW k, NEW x \in Cover(h, fs), k = n + x + 1
      PROVE  \E i \in DOMAIN fs : k \in P(i)
  <2>1. PICK i \in DOMAIN fs : x \in 0 .. Size - 1 /\ In(h, fs[i], x) BY Zenon, <1>9 DEF Cover
  <2>2. Off(h, fs[i]) <= x /\ x < Off(h, fs[i]) + fs[i].len BY Zenon, <1>4, <2>1 DEF In
  <2> QED BY Zenon, <1>1, <1>4, <1>7, <1>9, <2>1, <2>2
<1> QED BY Zenon, <1>5, <1>8, <1>9 DEF Ahead

\* Held, before and after a step.
LEMMA HeldNow == Held = HeldAt(rcvbuf, Len(output)) /\ Held' = HeldAt(rcvbuf', Len(output'))
  BY Zenon DEF Held, HeldAt, Positions, Start, Off

\* Each byte that the buffer claims to hold is the peer's.
THEOREM BufferHoldsStream == Spec => []HoldsStream
<1>1. RecvInv => HoldsStream
  <2> SUFFICES ASSUME RecvInv, NEW k \in Held
               PROVE  rcvbuf.data[rcvbuf.head_offset + (k - Len(output)) - 1] = k
    BY Zenon DEF HoldsStream
  <2>1. PICK b, n : b = rcvbuf /\ n = Len(output) /\ BufferOK(b, n) BY Zenon DEF RecvInv
  <2>2. k \in HeldAt(b, n) BY Zenon, <2>1, HeldNow
  <2>3. PICK x \in Cover(b.head_seq, b.fctx) : k = n + x + 1
    <3>1. k \in Ahead(b, n) BY Zenon, <2>1, <2>2, HeldIs
    <3> QED BY Zenon, <3>1 DEF Ahead
  <2>4. b.data[b.head_offset + x] = n + x + 1 BY Zenon, <2>1 DEF BufferOK, Peers
  <2>5. n \in 0 .. Length /\ b.head_offset \in 0 .. Size BY Zenon, <2>1 DEF BufferOK, Buffer
  <2>6. x \in 0 .. Size - 1 BY Zenon DEF Cover
  <2>7. b.head_offset + (k - n) - 1 = b.head_offset + x BY <2>3, <2>5, <2>6, Constants
  <2> QED BY Zenon, <2>1, <2>3, <2>4, <2>7
<1> QED BY <1>1, RecvInvariant, PTL

\* The fragments are ascending with a gap before each, and merged_len is what is in order.
THEOREM FragmentsStayApart == Spec => []FragmentsApart
<1>1. RecvInv => FragmentsApart
  <2> SUFFICES ASSUME RecvInv PROVE FragmentsApart OBVIOUS
  <2>1. PICK b, n : b = rcvbuf /\ n = Len(output) /\ BufferOK(b, n) BY Zenon DEF RecvInv
  <2> DEFINE h == b.head_seq
             fs == b.fctx
  <2>2. /\ n \in 0 .. Length /\ fs \in Seq(Frags(h)) /\ b \in Buffer /\ Apart(h, fs)
        /\ b.merged_len = Merged(h, fs)
    BY Zenon, <2>1 DEF BufferOK
  <2>3. h \in 0 .. Word - 1 BY Zenon, <2>2 DEF Buffer
  <2>4. DOMAIN fs = 1 .. Len(fs) /\ Len(fs) \in Nat /\ \A i \in 1 .. Len(fs) : fs[i] \in Frags(h)
    BY Zenon, <2>2, SeqIs
  <2>5. ASSUME NEW i \in 2 .. Len(fs) PROVE Start(fs[i - 1]) + fs[i - 1].len < Start(fs[i])
    <3>1. PICK j \in 1 .. Len(fs) : j = i - 1 /\ j < i /\ i \in 1 .. Len(fs) BY <2>4
    <3>2. End(h, fs[j]) < Off(h, fs[i]) BY Zenon, <2>2, <2>4, <3>1 DEF Apart
    <3>3. /\ Off(h, fs[j]) \in 0 .. Size - 1 /\ Off(h, fs[i]) \in 0 .. Size - 1
          /\ End(h, fs[j]) = Off(h, fs[j]) + fs[j].len /\ fs[j].len \in 1 .. Size
      BY Zenon, <2>3, <2>4, <3>1, FragIs
    <3>4. Start(fs[j]) = n + Off(h, fs[j]) /\ Start(fs[i]) = n + Off(h, fs[i])
      BY Zenon, <2>1 DEF Start, Off
    <3>5. \A p \in 0 .. Length, x, y \in 0 .. Size - 1, l \in 1 .. Size :
              x + l < y => (p + x) + l < p + y
      BY Constants
    <3>6. Off(h, fs[j]) + fs[j].len < Off(h, fs[i]) BY Zenon, <3>2, <3>3
    <3>7. (n + Off(h, fs[j])) + fs[j].len < n + Off(h, fs[i]) BY Zenon, <2>2, <3>3, <3>5, <3>6
    <3> QED BY Zenon, <3>1, <3>4, <3>7
  <2>6. b.merged_len = IF n + 1 \in HeldAt(b, n) THEN fs[1].len ELSE 0
    <3>1. PICK m \in 0 .. Size : /\ m = Merged(h, fs) /\ m \notin Cover(h, fs)
                                 /\ \A x \in 0 .. m - 1 : x \in Cover(h, fs)
                                 /\ m > 0 => fs[1].len = m
      BY Zenon, <2>2, <2>3, MergedIs
    <3>2. n + 1 \in HeldAt(b, n) <=> \E x \in Cover(h, fs) : n + 1 = n + x + 1
      <4>1. HeldAt(b, n) = Ahead(b, n) BY Zenon, <2>1, HeldIs
      <4> QED BY Zenon, <4>1 DEF Ahead
    <3>3. \A x \in Cover(h, fs) : x \in 0 .. Size - 1 BY Zenon DEF Cover
    <3>4. \A x \in 0 .. Size - 1 : n + 1 = n + x + 1 <=> x = 0
      <4>1. n \in Nat BY <2>2
      <4> QED BY <4>1, Constants
    <3>5. 0 \in 0 .. Size - 1 BY Constants
    <3>6. n + 1 \in HeldAt(b, n) <=> 0 \in Cover(h, fs) BY Zenon, <3>2, <3>3, <3>4, <3>5
    <3>7. CASE m = 0 BY Zenon, <2>2, <3>1, <3>6, <3>7
    <3>8. CASE m # 0
      <4>1. m > 0 /\ 0 \in 0 .. m - 1 BY <3>8
      <4> QED BY Zenon, <2>2, <3>1, <3>6, <4>1
    <3> QED BY Zenon, <3>7, <3>8
  <2> QED BY Zenon, <2>1, <2>5, <2>6, HeldNow DEF FragmentsApart
<1> QED BY <1>1, RecvInvariant, PTL

\* A segment that passed the check against the window fits the buffer when it is put
\* there, once the first payload has set the window.
THEOREM SegmentsFit == Spec => []InWindowFits
<1>1. RecvInv => InWindowFits
  <2> SUFFICES ASSUME RecvInv, segment # None, rcv_wnd <= Size
               PROVE  segment[1] + segment[2] <= Len(output) + Size
    BY Zenon DEF InWindowFits
  <2>1. BufferOK(rcvbuf, Len(output)) /\ StackOK BY Zenon DEF RecvInv
  <2>2. PICK o \in 0 .. Length, m \in 0 .. Size, w \in 0 .. MaxWnd : Numbers(o, m, w)
    BY Zenon, <2>1, InvNumbers
  <2>3. o = Len(output) /\ m = rcvbuf.merged_len /\ w = rcv_wnd /\ InOrder = o + m
    BY Zenon, <2>2 DEF Numbers
  <2>4. PICK s : s = segment[1] + segment[2] OBVIOUS
  <2>5. segment \in Segment /\ s <= (o + m) + w /\ (w = Size - m \/ (w = InitWnd /\ o + m = 0))
    BY Zenon, <2>1, <2>3, <2>4 DEF StackOK
  <2>6. s \in Int BY <2>4, <2>5, Constants DEF Segment
  <2>7. w <= Size BY Zenon, <2>3
  <2>8. s <= o + Size BY <2>5, <2>6, <2>7, Constants
  <2> QED BY Zenon, <2>3, <2>4, <2>8
<1> QED BY <1>1, RecvInvariant, PTL

\* No byte that was accepted is lost before the application has it.
THEOREM NothingIsForgotten == Spec => NothingForgotten
<1>1. ASSUME RecvInv, RecvInv', [Next]_vars
      PROVE  [Held \subseteq Held' \cup 1 .. Len(output')]_vars
  <2>1. SUFFICES ASSUME NEW k \in HeldAt(rcvbuf, Len(output))
                 PROVE  k \in HeldAt(rcvbuf', Len(output')) \/ k \in 1 .. Len(output')
    BY Zenon, HeldNow
  <2>2. PICK b, n : b = rcvbuf /\ n = Len(output) /\ BufferOK(b, n) BY Zenon, <1>1 DEF RecvInv
  <2>3. PICK c, p : c = rcvbuf' /\ p = Len(output') /\ BufferOK(c, p) BY Zenon, <1>1 DEF RecvInv
  <2>4. k \in Ahead(b, n) BY Zenon, <2>1, <2>2, HeldIs
  <2>5. PICK x \in Cover(b.head_seq, b.fctx) : k = n + x + 1 BY Zenon, <2>4 DEF Ahead
  <2>6. n \in 0 .. Length /\ x \in 0 .. Size - 1 BY Zenon, <2>2 DEF BufferOK, Cover
  <2>7. SUFFICES k \in Ahead(c, p) \/ k \in 1 .. p BY Zenon, <2>3, HeldIs
  <2>8. CASE Put
    <3>1. x \in Cover(c.head_seq, c.fctx) /\ p = n BY Zenon, <1>1, <2>2, <2>3, <2>8, PutInv
    <3> QED BY Zenon, <2>5, <3>1 DEF Ahead
  <2>9. CASE Receive
    <3>1. PICK j : Recv(j) BY Zenon, <2>9 DEF Receive
    <3>2. /\ p = n + j /\ j \in Nat \ {0}
          /\ \A y \in Nat : y + j \in Cover(b.head_seq, b.fctx) => y \in Cover(c.head_seq, c.fctx)
      BY Zenon, <1>1, <2>2, <2>3, <3>1, RecvStep
    <3>3. CASE x < j
      <4>1. n + x + 1 \in 1 .. p BY <2>6, <3>2, <3>3, Constants
      <4> QED BY Zenon, <2>5, <4>1
    <3>4. CASE ~(x < j)
      <4>1. x - j \in Nat /\ (x - j) + j = x /\ n + x + 1 = p + (x - j) + 1
        BY <2>6, <3>2, <3>4, Constants
      <4>2. x - j \in Cover(c.head_seq, c.fctx) BY Zenon, <3>2, <4>1
      <4> QED BY Zenon, <2>5, <4>1, <4>2 DEF Ahead
    <3> QED BY Zenon, <3>3, <3>4
  <2>10. CASE rcvbuf' = rcvbuf /\ output' = output BY Zenon, <2>2, <2>3, <2>4, <2>10
  <2>11. Put \/ Receive \/ (rcvbuf' = rcvbuf /\ output' = output)
    BY Zenon, <1>1 DEF Next, Any, Retransmit, Arrives, DropAck, ReadWindow, SendAck, LoseAck, Sends, RecvEnd, Reset, vars
  <2> QED BY Zenon, <2>8, <2>9, <2>10, <2>11
<1> QED BY <1>1, RecvInvariant, PTL DEF Spec, NothingForgotten

\* mtcp_recv gives the application the peer's bytes in order and once, and the end only
\* after the last, or after the peer reset the connection: the receiving side implements
\* ByteStream.
THEOREM StreamDelivered == Spec => DeliversStream
<1>1. Init => Reliable!Init BY Zenon DEF Init, Reliable!Init
<1>2. ASSUME RecvInv, RecvInv', [Next]_vars
      PROVE  [Reliable!Read \/ Reliable!End \/ Reliable!Reset]_<<output, ended, reset>>
  <2>1. CASE Receive
    <3>1. PICK j : Recv(j) BY Zenon, <2>1 DEF Receive
    <3>2. PICK n, p : n = Len(output) /\ p = Len(output') /\ n \in 0 .. Length /\ p \in 0 .. Length
      BY Zenon, <1>2 DEF RecvInv, BufferOK
    <3>3. ended = FALSE /\ ended' = FALSE /\ reset' = reset /\ p = n + j /\ j \in Nat \ {0}
      BY Zenon, <1>2, <3>1, <3>2, RecvStep
    <3>4. p \in n + 1 .. Length BY <3>2, <3>3, Constants
    <3>5. output' = [k \in 1 .. p |-> k] BY Zenon, <1>2, <3>2 DEF RecvInv, EndsOK
    <3> QED BY Zenon, <3>2, <3>3, <3>4, <3>5 DEF Reliable!Read
  <2>2. CASE RecvEnd
    <3>1. /\ state = "close_wait" /\ rcvbuf.merged_len = 0 /\ ended' = TRUE /\ output' = output
          /\ reset' = reset
      BY Zenon, <2>2 DEF RecvEnd
    <3>2. PICK n : n = Len(output) /\ n \in 0 .. Length BY Zenon, <1>2 DEF RecvInv, BufferOK
    <3>3. n + 0 = Length \/ reset BY Zenon, <1>2, <3>1, <3>2 DEF RecvInv, StackOK, InOrder
    <3>4. n + 0 = n BY <3>2
    <3>5. Len(output) = Length \/ reset BY Zenon, <3>2, <3>3, <3>4
    <3> QED BY Zenon, <3>1, <3>5 DEF Reliable!End
  <2>3. CASE \E p \in 0 .. Length + 1 : Reset(p) BY Zenon, <1>2, <2>3, ResetInv DEF Reliable!Reset
  <2>4. CASE output' = output /\ ended' = ended /\ reset' = reset BY Zenon, <2>4
  <2>5. \/ Receive \/ RecvEnd \/ \E p \in 0 .. Length + 1 : Reset(p)
        \/ output' = output /\ ended' = ended /\ reset' = reset
    BY Zenon, <1>2 DEF Next, Any, Retransmit, Arrives, Put, DropAck, ReadWindow, SendAck, LoseAck, Sends, vars
  <2> QED BY Zenon, <2>1, <2>2, <2>3, <2>4, <2>5
<1> QED BY <1>1, <1>2, RecvInvariant, PTL DEF Spec, DeliversStream, Reliable!Spec
=============================================================================
