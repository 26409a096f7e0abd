----------------------------- MODULE FormatProofs -----------------------------
(***************************************************************************)
(* What kvsnprintf hands to write is what its caller asked for, for every  *)
(* size of words and of buffers, whatever the messages, however deep the   *)
(* exceptions that log in the middle of one another.                       *)
(*                                                                         *)
(* The argument: CallInv says of a call how many items of its message are  *)
(* behind, how far the next one is, and that its buffer holds just what    *)
(* these ask for.  A conversion has stored d digits when the number that   *)
(* is left is the argument without its last d digits.                      *)
(*                                                                         *)
(* The digits are shared.  A digit goes where utoa has come, and never     *)
(* does a NUL go back over one: so the calls below the one that stores     *)
(* keep their digits in number though not in kind, and are marked for it.  *)
(* That is why the shape of a message needs no condition and its text      *)
(* needs one.                                                              *)
(***************************************************************************)
EXTENDS Format, SequenceTheorems, WellFoundedInduction, TLAPS


\* The least of some numbers.
LEMMA LeastNat ==
  ASSUME NEW T \in SUBSET Nat, T # {}
  PROVE  \E n \in T : \A m \in T : n <= m
<1>1. IsWellFoundedOn(OpToRel(<, Nat), Nat)
  BY NatLessThanWellFounded
<1>2. PICK n \in T : \A m \in T : <<m, n>> \notin OpToRel(<, Nat)
  BY <1>1, WFMin
<1>3. \A m \in T : ~(m < n)
  BY <1>2 DEF OpToRel
<1>. QED
  BY <1>3

-----------------------------------------------------------------------------
(* Power, Passed and Upto are defined by recursion: each begins with a     *)
(* value and goes on from it, as q says.  That there is such a function is *)
(* the same for all three.                                                 *)

\* The value with nothing behind.
Begins(q) == IF q[1] = "power" THEN 1 ELSE IF q[1] = "passed" THEN [fmt |-> <<>>, args |-> <<>>] ELSE <<>>

\* The value with n behind, where v is the one with n - 1.
GoesOn(q, n, v) ==
  IF q[1] = "power" THEN q[2] * v
  ELSE LET item == Messages[q[2]][n]
       IN  IF q[1] = "passed" THEN [fmt |-> v.fmt \o Spelled(item), args |-> v.args \o item.args]
           ELSE IF Len(v) < BUFSZ THEN v \o Piece(item, q[3]) ELSE v

\* f gives the first k of them.
Values(f, q, k) == f = [n \in 0..k |-> IF n = 0 THEN Begins(q) ELSE GoesOn(q, n, f[n - 1])]

\* There is such an f, however many they are.
LEMMA ValuesExist ==
  ASSUME NEW q, NEW k \in Nat
  PROVE  \E f : Values(f, q, k)
<1> DEFINE T == {n \in Nat : ~\E f : Values(f, q, n)}
<1> SUFFICES ASSUME T # {} PROVE FALSE
  OBVIOUS
<1>1. PICK n \in T : \A m \in T : n <= m
  BY LeastNat
<1>2. n # 0
  <2>1. Values([m \in 0..0 |-> Begins(q)], q, 0)
    BY DEF Values
  <2>. QED
    BY <2>1
<1>3. n - 1 \in Nat /\ n - 1 \notin T
  BY <1>1, <1>2
<1>4. PICK f : Values(f, q, n - 1)
  BY <1>3
<1> DEFINE g == [m \in 0..n |-> IF m = n THEN GoesOn(q, n, f[n - 1]) ELSE f[m]]
<1>5. \A m \in 0..(n - 1) : f[m] = IF m = 0 THEN Begins(q) ELSE GoesOn(q, m, f[m - 1])
  BY <1>4 DEF Values
<1>6. ASSUME NEW m \in 0..n PROVE g[m] = IF m = 0 THEN Begins(q) ELSE GoesOn(q, m, g[m - 1])
  <2>1. CASE m = n
    BY <1>2, <2>1
  <2>2. CASE m # n
    <3>1. m \in 0..(n - 1) /\ (m # 0 => m - 1 \in 0..n /\ m - 1 # n)
      BY <2>2
    <3>2. m # 0 => g[m - 1] = f[m - 1]
      BY <3>1
    <3>. QED
      BY <1>5, <2>2, <3>1, <3>2
  <2>. QED
    BY <2>1, <2>2
<1>7. Values(g, q, n)
  BY <1>6 DEF Values
<1>. QED
  BY <1>7

\* Each of them is the same in every such f.
LEMMA ValuesOnce ==
  ASSUME NEW q, NEW k \in Nat, NEW l \in Nat, k <= l,
         NEW f, Values(f, q, k), NEW g, Values(g, q, l)
  PROVE  f[k] = g[k]
<1> DEFINE T == {n \in Nat : n <= k /\ f[n] # g[n]}
<1> SUFFICES ASSUME T # {} PROVE FALSE
  OBVIOUS
<1>1. PICK n \in T : \A m \in T : n <= m
  BY LeastNat
<1>2. /\ \A m \in 0..k : f[m] = IF m = 0 THEN Begins(q) ELSE GoesOn(q, m, f[m - 1])
      /\ \A m \in 0..l : g[m] = IF m = 0 THEN Begins(q) ELSE GoesOn(q, m, g[m - 1])
  BY DEF Values
<1>3. n # 0
  BY <1>2
<1>4. n - 1 \in Nat /\ n - 1 \notin T /\ n \in 0..k /\ n \in 0..l
  BY <1>1, <1>3
<1>5. f[n - 1] = g[n - 1]
  BY <1>4
<1>6. f[n] = g[n]
  BY <1>2, <1>3, <1>4, <1>5
<1>. QED
  BY <1>6

\* The value with n behind.
Course(q, n) == (CHOOSE f : Values(f, q, n))[n]

\* It is what the recursion says.
LEMMA CourseIs ==
  ASSUME NEW q
  PROVE  Course(q, 0) = Begins(q) /\ \A n \in Nat : Course(q, n + 1) = GoesOn(q, n + 1, Course(q, n))
<1>1. ASSUME NEW n \in Nat PROVE \E f : Values(f, q, n) /\ Course(q, n) = f[n]
  <2>1. Values(CHOOSE f : Values(f, q, n), q, n)
    BY ValuesExist
  <2>. QED
    BY <2>1 DEF Course
<1>2. Course(q, 0) = Begins(q)
  <2>1. PICK f : Values(f, q, 0) /\ Course(q, 0) = f[0]
    BY <1>1
  <2>. QED
    BY <2>1 DEF Values
<1>3. ASSUME NEW n \in Nat PROVE Course(q, n + 1) = GoesOn(q, n + 1, Course(q, n))
  <2>1. PICK f : Values(f, q, n) /\ Course(q, n) = f[n]
    BY <1>1
  <2>2. n + 1 \in Nat /\ n <= n + 1 /\ n + 1 # 0 /\ n + 1 \in 0..(n + 1) /\ (n + 1) - 1 = n
    OBVIOUS
  <2>3. PICK g : Values(g, q, n + 1) /\ Course(q, n + 1) = g[n + 1]
    BY <1>1, <2>2
  <2>4. f[n] = g[n]
    BY <2>1, <2>2, <2>3, ValuesOnce
  <2>5. g[n + 1] = GoesOn(q, n + 1, g[n])
    BY <2>2, <2>3 DEF Values
  <2>. QED
    BY <2>1, <2>3, <2>4, <2>5
<1>. QED
  BY <1>2, <1>3

\* A power.
LEMMA PowerIs ==
  ASSUME NEW b \in Nat
  PROVE  Power[<<b, 0>>] = 1 /\ \A k \in Nat : Power[<<b, k + 1>>] = b * Power[<<b, k>>]
<1> DEFINE all == [p \in Nat \X Nat |-> Course(<<"power", p[1]>>, p[2])]
<1>1. ASSUME NEW p \in Nat \X Nat
      PROVE  all[p] = IF p[2] = 0 THEN 1 ELSE p[1] * all[<<p[1], p[2] - 1>>]
  <2>1. PICK q : q = <<"power", p[1]>>
    OBVIOUS
  <2>2. q[1] = "power" /\ q[2] = p[1]
    BY <2>1
  <2>3. all[p] = Course(q, p[2])
    BY <2>1
  <2>4. CASE p[2] = 0
    BY <2>2, <2>3, <2>4, CourseIs DEF Begins
  <2>5. CASE p[2] # 0
    <3>1. PICK n \in Nat : n = p[2] - 1 /\ p[2] = n + 1
      <4>1. p[2] - 1 \in Nat /\ p[2] = (p[2] - 1) + 1
        BY <2>5
      <4>. QED
        BY <4>1
    <3>2. PICK r : r = <<p[1], n>>
      OBVIOUS
    <3>3. r \in Nat \X Nat /\ r[1] = p[1] /\ r[2] = n
      BY <3>2
    <3>4. all[r] = Course(q, n)
      BY <2>1, <3>3
    <3>5. all[p] = GoesOn(q, n + 1, Course(q, n))
      BY <2>3, <3>1, CourseIs
    <3>6. all[p] = p[1] * Course(q, n)
      BY <2>2, <3>5 DEF GoesOn
    <3>. QED
      BY <2>5, <3>1, <3>2, <3>4, <3>6
  <2>. QED
    BY <2>4, <2>5
<1>2. all = [p \in Nat \X Nat |-> IF p[2] = 0 THEN 1 ELSE p[1] * all[<<p[1], p[2] - 1>>]]
  <2>1. all = [p \in Nat \X Nat |-> all[p]]
    OBVIOUS
  <2>. HIDE DEF all
  <2>. QED
    BY <1>1, <2>1
<1>3. Power = [p \in Nat \X Nat |-> IF p[2] = 0 THEN 1 ELSE p[1] * Power[<<p[1], p[2] - 1>>]]
  <2>. HIDE DEF all
  <2>. QED
    BY <1>2 DEF Power
<1>4. Power[<<b, 0>>] = 1
  <2>1. PICK p : p = <<b, 0>>
    OBVIOUS
  <2>2. p \in Nat \X Nat /\ p[2] = 0
    BY <2>1
  <2>. QED
    BY <1>3, <2>1, <2>2
<1>5. ASSUME NEW k \in Nat PROVE Power[<<b, k + 1>>] = b * Power[<<b, k>>]
  <2>1. PICK p : p = <<b, k + 1>>
    OBVIOUS
  <2>2. p \in Nat \X Nat /\ p[1] = b /\ p[2] = k + 1 /\ p[2] # 0 /\ p[2] - 1 = k
    BY <2>1
  <2>3. Power[p] = IF p[2] = 0 THEN 1 ELSE p[1] * Power[<<p[1], p[2] - 1>>]
    BY <1>3, <2>2
  <2>. QED
    BY <2>1, <2>2, <2>3
<1>. QED
  BY <1>4, <1>5

\* What is passed for one more item.
LEMMA PassedIs ==
  ASSUME NEW m \in DOMAIN Messages
  PROVE  /\ Passed[<<m, 0>>] = [fmt |-> <<>>, args |-> <<>>]
         /\ \A k \in Nat : Passed[<<m, k + 1>>] =
              [fmt  |-> Passed[<<m, k>>].fmt \o Spelled(Messages[m][k + 1]),
               args |-> Passed[<<m, k>>].args \o Messages[m][k + 1].args]
<1> DEFINE D == (DOMAIN Messages) \X Nat
           body(f, p) == IF p[2] = 0 THEN [fmt |-> <<>>, args |-> <<>>]
                         ELSE [fmt  |-> f[<<p[1], p[2] - 1>>].fmt \o Spelled(Messages[p[1]][p[2]]),
                               args |-> f[<<p[1], p[2] - 1>>].args \o Messages[p[1]][p[2]].args]
           all == [p \in D |-> Course(<<"passed", p[1]>>, p[2])]
<1>1. ASSUME NEW p \in D PROVE all[p] = body(all, p)
  <2>1. PICK q : q = <<"passed", p[1]>>
    OBVIOUS
  <2>2. q[1] = "passed" /\ q[2] = p[1]
    BY <2>1
  <2>3. all[p] = Course(q, p[2])
    BY <2>1
  <2>4. CASE p[2] = 0
    BY <2>2, <2>3, <2>4, CourseIs DEF Begins
  <2>5. CASE p[2] # 0
    <3>1. PICK n \in Nat : n = p[2] - 1 /\ p[2] = n + 1
      <4>1. p[2] - 1 \in Nat /\ p[2] = (p[2] - 1) + 1
        BY <2>5
      <4>. QED
        BY <4>1
    <3>2. PICK r : r = <<p[1], n>>
      OBVIOUS
    <3>3. r \in D /\ r[1] = p[1] /\ r[2] = n
      BY <3>2
    <3>4. all[r] = Course(q, n)
      BY <2>1, <3>3
    <3>5. all[p] = GoesOn(q, n + 1, Course(q, n))
      BY <2>3, <3>1, CourseIs
    <3>6. all[p] = [fmt  |-> Course(q, n).fmt \o Spelled(Messages[p[1]][n + 1]),
                    args |-> Course(q, n).args \o Messages[p[1]][n + 1].args]
      BY <2>2, <3>5 DEF GoesOn
    <3>7. all[<<p[1], p[2] - 1>>] = Course(q, n)
      BY <3>1, <3>2, <3>4
    <3>. HIDE DEF all
    <3>. QED
      BY <2>5, <3>1, <3>6, <3>7
  <2>. HIDE DEF body
  <2>. QED
    BY <2>4, <2>5
<1>2. all = [p \in D |-> body(all, p)]
  <2>1. all = [p \in D |-> all[p]]
    OBVIOUS
  <2>. HIDE DEF all, body
  <2>. QED
    BY <1>1, <2>1, Zenon
<1>3. Passed = [p \in D |-> body(Passed, p)]
  <2>. HIDE DEF all
  <2>. QED
    BY <1>2, Zenon DEF Passed
<1>4. ASSUME NEW p \in D PROVE Passed[p] = body(Passed, p)
  <2>. HIDE DEF body
  <2>. QED
    BY <1>3
<1>5. Passed[<<m, 0>>] = [fmt |-> <<>>, args |-> <<>>]
  <2>1. PICK p : p = <<m, 0>>
    OBVIOUS
  <2>2. p \in D /\ p[2] = 0
    BY <2>1
  <2>. QED
    BY <1>4, <2>1, <2>2
<1>6. ASSUME NEW k \in Nat
      PROVE  Passed[<<m, k + 1>>] =
              [fmt  |-> Passed[<<m, k>>].fmt \o Spelled(Messages[m][k + 1]),
               args |-> Passed[<<m, k>>].args \o Messages[m][k + 1].args]
  <2>1. PICK p : p = <<m, k + 1>>
    OBVIOUS
  <2>2. p \in D /\ p[1] = m /\ p[2] = k + 1 /\ p[2] # 0 /\ p[2] - 1 = k
    BY <2>1
  <2>3. Passed[p] = body(Passed, p)
    BY <1>4, <2>2
  <2>. QED
    BY <2>1, <2>2, <2>3
<1>. QED
  BY <1>5, <1>6

\* What is asked for with one more item.
LEMMA UptoIs ==
  ASSUME NEW m \in DOMAIN Messages, NEW view \in {"text", "shape"}
  PROVE  /\ Upto[<<m, view, 0>>] = <<>>
         /\ \A k \in Nat : Upto[<<m, view, k + 1>>] =
              IF Len(Upto[<<m, view, k>>]) < BUFSZ
              THEN Upto[<<m, view, k>>] \o Piece(Messages[m][k + 1], view) ELSE Upto[<<m, view, k>>]
<1> DEFINE D == (DOMAIN Messages) \X {"text", "shape"} \X Nat
           body(f, p) == IF p[3] = 0 THEN <<>>
                         ELSE IF Len(f[<<p[1], p[2], p[3] - 1>>]) < BUFSZ
                         THEN f[<<p[1], p[2], p[3] - 1>>] \o Piece(Messages[p[1]][p[3]], p[2])
                         ELSE f[<<p[1], p[2], p[3] - 1>>]
           all == [p \in D |-> Course(<<"upto", p[1], p[2]>>, p[3])]
<1>1. ASSUME NEW p \in D PROVE all[p] = body(all, p)
  <2>1. PICK q : q = <<"upto", p[1], p[2]>>
    OBVIOUS
  <2>2. q[1] # "power" /\ q[1] # "passed" /\ q[2] = p[1] /\ q[3] = p[2]
    BY <2>1
  <2>3. all[p] = Course(q, p[3])
    BY <2>1
  <2>4. CASE p[3] = 0
    BY <2>2, <2>3, <2>4, CourseIs DEF Begins
  <2>5. CASE p[3] # 0
    <3>1. PICK n \in Nat : n = p[3] - 1 /\ p[3] = n + 1
      <4>1. p[3] - 1 \in Nat /\ p[3] = (p[3] - 1) + 1
        BY <2>5
      <4>. QED
        BY <4>1
    <3>2. PICK r : r = <<p[1], p[2], n>>
      OBVIOUS
    <3>3. r \in D /\ r[1] = p[1] /\ r[2] = p[2] /\ r[3] = n
      BY <3>2
    <3>4. all[r] = Course(q, n)
      BY <2>1, <3>3
    <3>5. all[p] = GoesOn(q, n + 1, Course(q, n))
      BY <2>3, <3>1, CourseIs
    <3>6. all[p] = IF Len(Course(q, n)) < BUFSZ THEN Course(q, n) \o Piece(Messages[p[1]][n + 1], p[2])
                   ELSE Course(q, n)
      BY <2>2, <3>5 DEF GoesOn
    <3>7. all[<<p[1], p[2], p[3] - 1>>] = Course(q, n)
      BY <3>1, <3>2, <3>4
    <3>. HIDE DEF all
    <3>. QED
      BY <2>5, <3>1, <3>6, <3>7
  <2>. HIDE DEF body
  <2>. QED
    BY <2>4, <2>5
<1>2. all = [p \in D |-> body(all, p)]
  <2>1. all = [p \in D |-> all[p]]
    OBVIOUS
  <2>. HIDE DEF all, body
  <2>. QED
    BY <1>1, <2>1, Zenon
<1>3. Upto = [p \in D |-> body(Upto, p)]
  <2>. HIDE DEF all
  <2>. QED
    BY <1>2, Zenon DEF Upto
<1>4. ASSUME NEW p \in D PROVE Upto[p] = body(Upto, p)
  <2>. HIDE DEF body
  <2>. QED
    BY <1>3
<1>5. Upto[<<m, view, 0>>] = <<>>
  <2>1. PICK p : p = <<m, view, 0>>
    OBVIOUS
  <2>2. p \in D /\ p[3] = 0
    BY <2>1
  <2>. QED
    BY <1>4, <2>1, <2>2
<1>6. ASSUME NEW k \in Nat
      PROVE  Upto[<<m, view, k + 1>>] =
              IF Len(Upto[<<m, view, k>>]) < BUFSZ
              THEN Upto[<<m, view, k>>] \o Piece(Messages[m][k + 1], view) ELSE Upto[<<m, view, k>>]
  <2>1. PICK p : p = <<m, view, k + 1>>
    OBVIOUS
  <2>2. p \in D /\ p[1] = m /\ p[2] = view /\ p[3] = k + 1 /\ p[3] # 0 /\ p[3] - 1 = k
    BY <2>1
  <2>3. Upto[p] = body(Upto, p)
    BY <1>4, <2>2
  <2>. QED
    BY <2>1, <2>2, <2>3
<1>. QED
  BY <1>5, <1>6

-----------------------------------------------------------------------------
(* The inductive invariant. *)

\* What the first k items of message m are to the code, and the text they ask
\* for.
Fmt(m, k)        == Passed[<<m, k>>].fmt
Args(m, k)       == Passed[<<m, k>>].args
Told(m, view, k) == Upto[<<m, view, k>>]

\* The bytes of a call's buffer, and what may be in them.
Place == 0..(BUFSZ + Slack)

Character == Alphabet \cup Chars \cup {"x", "%", UNUSED}

\* What a call may be.
CallType ==
  [message : DOMAIN Messages, fmt : Nat, ap : Nat,
   pc : {"loop", "switch", "utoa", "sign", "fill", "strcpy", "next", "write"},
   buf : [Place -> Character], ptr : Nat, zeroes : BOOLEAN, fill : Nat,
   text : [static : BOOLEAN, chars : Seq(Character), at : Nat], copied : Nat,
   value : Word, base : {10, 16}, neg : BOOLEAN, digit : 0..14,
   interrupted : BOOLEAN, overwritten : BOOLEAN]

\* Of a directive: whether it shows a number, in which base, in how many digits.
IsNumber(item) == item.char \in Numbers

Base(item) == IF item.char \in {"d", "u"} THEN 10 ELSE 16

Places(item, num) == Len(Numeral(num, Base(item)))

\* What a directive puts before its zeroes, and behind them.
Lead(item) ==
  IF item.char = "p" THEN <<"0", "x">> ELSE IF item.char = "c" THEN item.args[1] ELSE <<>>

\* What a directive shows behind its zeroes.
Shown(item, num, view) ==
  IF IsNumber(item)
  THEN IF view = "text" THEN Numeral(num, Base(item)) ELSE Unknown(Numeral(num, Base(item)))
  ELSE IF item.char = "s" THEN item.args[1] ELSE IF item.char = "%" THEN <<"%">> ELSE <<>>

Size(item, num) == Len(Shown(item, num, "text"))

\* How wide it is with its zeroes, and how many those are.
Width(item) ==
  IF item.char = "d" /\ item.zero THEN DecimalDigits
  ELSE IF item.char = "p" \/ (item.char = "x" /\ item.zero) THEN HexDigits ELSE 0

Pad(item, num) == IF Size(item, num) < Width(item) THEN Width(item) - Size(item, num) ELSE 0

\* buf holds text and nothing more, but for a NUL.
Holds(buf, text) ==
  /\ \A i \in 1..Len(text) : text[i] # ANY => buf[i - 1] = text[i]
  /\ \A j \in Place : j > Len(text) => buf[j] = UNUSED

\* What is promised of the call: the shape, and the text if it can be.
Promised(call) == {view \in {"text", "shape"} : ~Signed(call.message) /\ (view = "text" => ~call.overwritten)}

\* k items are behind.
Behind(call, k) ==
  /\ k \in 0..Len(Messages[call.message])
  /\ \/ call.ap = Len(Args(call.message, k)) + 1
     \/ /\ call.ap > Len(Args(call.message, k))
        /\ Args(call.message, k) = Arguments[call.message]

\* k items are written.
Written(call, k) ==
  /\ Behind(call, k) /\ call.copied = 0
  /\ \A view \in Promised(call) :
       LET text == Told(call.message, view, k)
       IN  Holds(call.buf, text) /\ call.ptr = Len(text)

\* At the start of the loop the next item has not been read.
InLoop(call) ==
  \E k \in Nat :
    /\ Written(call, k) /\ call.ptr <= BUFSZ + Slack
    /\ call.fmt = Len(Fmt(call.message, k)) + 1

\* In the switch the % of a directive has been read, and its 0 if it has one.
InSwitch(call) ==
  \E k \in Nat :
    /\ Written(call, k) /\ call.ptr < BUFSZ /\ call.fill = 0
    /\ k < Len(Messages[call.message])
    /\ LET item == Messages[call.message][k + 1]
       IN  /\ item.directive /\ (call.zeroes => item.zero)
           /\ call.fmt = Len(Fmt(call.message, k)) + (IF call.zeroes THEN 3 ELSE 2)

\* d digits of num are in b.
Stored(call, b, item, num, d) ==
  /\ \A j \in 0..(d - 1) : b[14 - j] # NUL
  /\ ~call.overwritten /\ ~call.neg =>
       \A j \in 0..(d - 1) : b[14 - j] = Digits[((num \div Power[<<Base(item), j>>]) % Base(item)) + 1]

\* The number of a directive, and how far its conversion is.
Converted(call, b, item, num) ==
  /\ call.base = Base(item)
  /\ call.neg => item.char = "d" /\ Signed(call.message)
  /\ ~call.neg /\ item.args # <<>> => num = item.args[1]
  /\ IF call.pc = "utoa"
     THEN LET d == 14 - call.digit
          IN  /\ d <= Places(item, num) /\ call.value = num \div Power[<<Base(item), d>>]
              /\ Stored(call, b, item, num, d)
     ELSE /\ call.text.static
          /\ call.text.at = IF call.neg /\ call.pc # "sign" THEN 14 - Places(item, num)
                                                          ELSE 15 - Places(item, num)
          /\ call.pc = "sign" => call.neg
          /\ Stored(call, b, item, num, Places(item, num))

\* What the directive has put into the buffer.
Put(call, item, num, view) ==
  IF call.pc \in {"utoa", "sign", "fill"} THEN Lead(item)
  ELSE Lead(item) \o (Zeroes(Pad(item, num)) \o SubSeq(Shown(item, num, view), 1, call.copied))

\* Directive k is being carried out, from the place start of the call's buffer.
InItem(call, b, k, num, start) ==
  LET item == Messages[call.message][k]
  IN  /\ k \in 1..Len(Messages[call.message]) /\ item.directive
      /\ Behind(call, k) /\ start < BUFSZ
      /\ call.fmt = Len(Fmt(call.message, k))
      /\ Width(item) = IF call.zeroes THEN call.fill ELSE 0
      /\ IF IsNumber(item) THEN Converted(call, b, item, num)
         ELSE /\ call.pc \notin {"utoa", "sign"}
              /\ ~call.text.static /\ call.text.chars = Shown(item, num, "text")
      /\ IF call.pc \in {"utoa", "sign", "fill"}
         THEN call.ptr = start + Len(Lead(item)) /\ call.copied = 0
         ELSE IF IsNumber(item) /\ call.neg
         THEN call.ptr \in start..(start + DecimalDigits) /\ call.copied <= DecimalDigits
         ELSE /\ call.ptr = start + Len(Lead(item)) + Pad(item, num)
              /\ call.copied <= Size(item, num)
              /\ call.pc = "next" => call.copied = Size(item, num)
      /\ \A view \in Promised(call) :
           LET before == Told(call.message, view, k - 1)
           IN  start = Len(before) /\ Holds(call.buf, before \o Put(call, item, num, view))

\* A call, with b in utoa's buffer.
CallInv(call, b) ==
  /\ call \in CallType
  /\ call.pc = "loop" => InLoop(call)
  /\ call.pc = "switch" => InSwitch(call)
  /\ call.pc \in {"utoa", "sign", "fill", "strcpy", "next"} =>
       \E k \in Nat, num \in Word, start \in Nat : InItem(call, b, k, num, start)
  /\ call.pc = "write" =>
       /\ call.ptr + call.copied <= BUFSZ + Slack /\ call.fmt <= Len(Format[call.message]) + 1 /\ call.fmt # 0
       /\ \A view \in Promised(call) : Matches(call, Reference(call.message, view))

\* The digits stay in their part of utoa's buffer.
BufferInv(b) ==
  /\ b \in [0..15 -> Chars] /\ b[15] = NUL
  /\ \A i \in 0..(14 - DecimalDigits) : b[i] = NUL

\* The calls below one that has stored a digit know it.
Wrote(call) == call.pc = "sign" \/ (call.pc = "utoa" /\ call.digit < 14)

\* All the calls.
CallsInv(b, calls) ==
  /\ BufferInv(b)
  /\ calls \in Seq(CallType)
  /\ \A i \in 1..Len(calls) : CallInv(calls[i], b)
  /\ \A i, j \in 1..Len(calls) :
       i < j /\ Wrote(calls[j]) /\ Converts(calls[i]) => calls[i].overwritten

\* The inductive invariant.
FormatInv == CallsInv(buffer, stack)

-----------------------------------------------------------------------------
(* Sequences and items. *)

\* Two sequences one after the other.
LEMMA JoinIs ==
  ASSUME NEW S, NEW s \in Seq(S), NEW t \in Seq(S)
  PROVE  /\ s \o t \in Seq(S) /\ Len(s \o t) = Len(s) + Len(t)
         /\ \A i \in 1..Len(s) : (s \o t)[i] = s[i]
         /\ \A i \in 1..Len(t) : (s \o t)[Len(s) + i] = t[i]
OBVIOUS

\* The least of some numbers is one of them.
LEMMA MinIs ==
  ASSUME NEW S \in SUBSET Nat, S # {}
  PROVE  Min(S) \in S /\ \A i \in S : Min(S) <= i
<1>1. \E i \in S : \A j \in S : i <= j
  BY LeastNat
<1>. QED
  BY <1>1 DEF Min

\* t starts with s.
Starts(s, t) == Len(s) <= Len(t) /\ \A i \in 1..Len(s) : t[i] = s[i]

\* The items of messages are well formed.
LEMMA ItemIs ==
  ASSUME NEW m \in DOMAIN Messages, NEW k \in 1..Len(Messages[m])
  PROVE  WellFormed(Messages[m][k]) /\ Len(Messages[m]) \in Nat
BY MessagesAssumption

\* What an argument may be.
Argument1 == Word \cup Seq(Alphabet)

\* What an item is to the code.
LEMMA SpelledIs ==
  ASSUME NEW item, WellFormed(item)
  PROVE  /\ Spelled(item) \in Seq(Alphabet \cup {"%", "0"})
         /\ ~item.directive => Len(Spelled(item)) = 1 /\ Spelled(item)[1] = item.char
         /\ item.directive =>
              /\ Spelled(item)[1] = "%"
              /\ item.zero => Len(Spelled(item)) = 3 /\ Spelled(item)[2] = "0" /\ Spelled(item)[3] = item.char
              /\ ~item.zero => Len(Spelled(item)) = 2 /\ Spelled(item)[2] = item.char
<1>0. item.char \in Alphabet /\ item.directive \in BOOLEAN /\ item.zero \in BOOLEAN
  BY DEF WellFormed
<1>1. CASE ~item.directive
  <2>1. Spelled(item) = <<item.char>>
    BY <1>1 DEF Spelled
  <2>. QED
    BY <1>0, <1>1, <2>1
<1>2. CASE item.directive /\ item.zero
  <2>1. Spelled(item) = <<"%", "0", item.char>>
    BY <1>2 DEF Spelled
  <2>. QED
    BY <1>0, <1>2, <2>1
<1>3. CASE item.directive /\ ~item.zero
  <2>1. Spelled(item) = <<"%", item.char>>
    BY <1>3 DEF Spelled
  <2>. QED
    BY <1>0, <1>3, <2>1
<1>. QED
  BY <1>1, <1>2, <1>3

\* Its arguments: none or one.
LEMMA ArgsIs ==
  ASSUME NEW item, WellFormed(item)
  PROVE  /\ item.args \in Seq(Argument1)
         /\ item.args = <<>> \/ (Len(item.args) = 1 /\ item.args = <<item.args[1]>>)
<1>1. CASE item.args = <<>>
  BY <1>1
<1>2. CASE \E n \in Word : item.args = <<n>>
  BY <1>2 DEF Argument1
<1>3. CASE item.args = <<item.args[1]>> /\ item.args[1] \in Seq(Alphabet)
  <2>1. item.args[1] \in Argument1
    BY <1>3 DEF Argument1
  <2>2. PICK a \in Argument1 : item.args = <<a>>
    BY <1>3, <2>1
  <2>. QED
    BY <2>2
<1>. QED
  BY <1>1, <1>2, <1>3 DEF WellFormed

\* What is passed for the first items, and for one more.
LEMMA OneMore ==
  ASSUME NEW m \in DOMAIN Messages
  PROVE  /\ Fmt(m, 0) = <<>> /\ Args(m, 0) = <<>>
         /\ \A k \in Nat : /\ Fmt(m, k + 1) = Fmt(m, k) \o Spelled(Messages[m][k + 1])
                           /\ Args(m, k + 1) = Args(m, k) \o Messages[m][k + 1].args
<1>1. Fmt(m, 0) = <<>> /\ Args(m, 0) = <<>>
  <2>1. Passed[<<m, 0>>] = [fmt |-> <<>>, args |-> <<>>]
    BY PassedIs
  <2>. QED
    BY <2>1 DEF Fmt, Args
<1>2. ASSUME NEW k \in Nat
      PROVE  /\ Fmt(m, k + 1) = Fmt(m, k) \o Spelled(Messages[m][k + 1])
             /\ Args(m, k + 1) = Args(m, k) \o Messages[m][k + 1].args
  <2>1. Passed[<<m, k + 1>>] =
          [fmt  |-> Passed[<<m, k>>].fmt \o Spelled(Messages[m][k + 1]),
           args |-> Passed[<<m, k>>].args \o Messages[m][k + 1].args]
    BY PassedIs
  <2>2. /\ Passed[<<m, k + 1>>].fmt = Passed[<<m, k>>].fmt \o Spelled(Messages[m][k + 1])
        /\ Passed[<<m, k + 1>>].args = Passed[<<m, k>>].args \o Messages[m][k + 1].args
    <3>1. PICK r, fmt, args : /\ r = Passed[<<m, k + 1>>]
                              /\ fmt = Passed[<<m, k>>].fmt \o Spelled(Messages[m][k + 1])
                              /\ args = Passed[<<m, k>>].args \o Messages[m][k + 1].args
      OBVIOUS
    <3>2. r = [fmt |-> fmt, args |-> args]
      BY <2>1, <3>1
    <3>3. r.fmt = fmt /\ r.args = args
      BY ONLY <3>2
    <3>. QED
      BY <3>1, <3>3
  <2>. QED
    BY <2>2 DEF Fmt, Args
<1>. QED
  BY <1>1, <1>2

\* Characters and arguments, and their types.
LEMMA PassedType ==
  ASSUME NEW m \in DOMAIN Messages, NEW k \in 0..Len(Messages[m])
  PROVE  Fmt(m, k) \in Seq(Alphabet \cup {"%", "0"}) /\ Args(m, k) \in Seq(Argument1)
<1>. Len(Messages[m]) \in Nat
  BY MessagesAssumption
<1> DEFINE T == {n \in Nat : n <= Len(Messages[m])
                  /\ ~(Fmt(m, n) \in Seq(Alphabet \cup {"%", "0"}) /\ Args(m, n) \in Seq(Argument1))}
<1> SUFFICES ASSUME T # {} PROVE FALSE
  OBVIOUS
<1>1. PICK n \in T : \A l \in T : n <= l
  BY LeastNat
<1>2. n # 0
  <2>1. <<>> \in Seq(Alphabet \cup {"%", "0"}) /\ <<>> \in Seq(Argument1)
    OBVIOUS
  <2>. QED
    BY <2>1, OneMore
<1>3. n - 1 \in Nat /\ n - 1 \notin T /\ n = (n - 1) + 1 /\ n \in 1..Len(Messages[m])
  BY <1>1, <1>2
<1>4. Fmt(m, n - 1) \in Seq(Alphabet \cup {"%", "0"}) /\ Args(m, n - 1) \in Seq(Argument1)
  BY <1>3
<1>5. Fmt(m, n) = Fmt(m, n - 1) \o Spelled(Messages[m][n]) /\ Args(m, n) = Args(m, n - 1) \o Messages[m][n].args
  BY <1>3, OneMore
<1>6. WellFormed(Messages[m][n])
  BY <1>3, ItemIs
<1>7. Spelled(Messages[m][n]) \in Seq(Alphabet \cup {"%", "0"}) /\ Messages[m][n].args \in Seq(Argument1)
  BY <1>6, SpelledIs, ArgsIs
<1>8. Fmt(m, n) \in Seq(Alphabet \cup {"%", "0"}) /\ Args(m, n) \in Seq(Argument1)
  BY <1>4, <1>5, <1>7, JoinIs
<1>. QED
  BY <1>8

\* One more item begins with the ones before it.
LEMMA OneMoreStarts ==
  ASSUME NEW m \in DOMAIN Messages, NEW k \in Nat, k < Len(Messages[m])
  PROVE  Starts(Fmt(m, k), Fmt(m, k + 1)) /\ Starts(Args(m, k), Args(m, k + 1))
<1>. Len(Messages[m]) \in Nat
  BY MessagesAssumption
<1>1. WellFormed(Messages[m][k + 1])
  BY ItemIs
<1>2. Spelled(Messages[m][k + 1]) \in Seq(Alphabet \cup {"%", "0"}) /\ Messages[m][k + 1].args \in Seq(Argument1)
  BY <1>1, SpelledIs, ArgsIs
<1>3. Fmt(m, k) \in Seq(Alphabet \cup {"%", "0"}) /\ Args(m, k) \in Seq(Argument1)
  BY PassedType
<1>4. Starts(Fmt(m, k), Fmt(m, k) \o Spelled(Messages[m][k + 1]))
  BY <1>2, <1>3, JoinIs DEF Starts
<1>5. Starts(Args(m, k), Args(m, k) \o Messages[m][k + 1].args)
  BY <1>2, <1>3, JoinIs DEF Starts
<1>. QED
  BY <1>4, <1>5, OneMore

\* The whole message begins with its first items.
LEMMA AllStarts ==
  ASSUME NEW m \in DOMAIN Messages, NEW k \in 0..Len(Messages[m])
  PROVE  Starts(Fmt(m, k), Format[m]) /\ Starts(Args(m, k), Arguments[m])
<1>. Len(Messages[m]) \in Nat
  BY MessagesAssumption
<1> DEFINE T == {n \in Nat : k <= n /\ n <= Len(Messages[m])
                  /\ ~(Starts(Fmt(m, k), Fmt(m, n)) /\ Starts(Args(m, k), Args(m, n)))}
<1>1. ASSUME T # {} PROVE FALSE
  <2>1. PICK n \in T : \A l \in T : n <= l
    BY <1>1, LeastNat
  <2>0. Fmt(m, k) \in Seq(Alphabet \cup {"%", "0"}) /\ Args(m, k) \in Seq(Argument1)
    BY PassedType
  <2>2. n # k
    BY <2>0 DEF Starts
  <2>3. PICK l \in Nat : n = l + 1 /\ l \notin T /\ k <= l /\ l < Len(Messages[m]) /\ l \in 0..Len(Messages[m])
    <3>1. n - 1 \in Nat /\ n = (n - 1) + 1 /\ n - 1 \notin T /\ k <= n - 1 /\ n - 1 < Len(Messages[m])
      BY <2>1, <2>2
    <3>. QED
      BY <3>1
  <2>4. Starts(Fmt(m, k), Fmt(m, l)) /\ Starts(Args(m, k), Args(m, l))
    BY <2>3
  <2>5. Starts(Fmt(m, l), Fmt(m, n)) /\ Starts(Args(m, l), Args(m, n))
    BY <2>3, OneMoreStarts
  <2>6. /\ Fmt(m, l) \in Seq(Alphabet \cup {"%", "0"}) /\ Args(m, l) \in Seq(Argument1)
        /\ Fmt(m, n) \in Seq(Alphabet \cup {"%", "0"}) /\ Args(m, n) \in Seq(Argument1)
    BY <2>3, PassedType, SMTT(30)
  <2>7. Starts(Fmt(m, k), Fmt(m, n))
    BY <2>0, <2>4, <2>5, <2>6 DEF Starts
  <2>8. Starts(Args(m, k), Args(m, n))
    BY <2>0, <2>4, <2>5, <2>6 DEF Starts
  <2>. QED
    BY <2>7, <2>8
<1>2. Len(Messages[m]) \notin T
  BY <1>1
<1>3. Format[m] = Fmt(m, Len(Messages[m])) /\ Arguments[m] = Args(m, Len(Messages[m]))
  BY DEF Format, Arguments, Fmt, Args
<1>. QED
  BY <1>2, <1>3

\* Where a message ends.
LEMMA AllIs ==
  ASSUME NEW m \in DOMAIN Messages
  PROVE  /\ Format[m] = Fmt(m, Len(Messages[m])) /\ Arguments[m] = Args(m, Len(Messages[m]))
         /\ Format[m] \in Seq(Alphabet \cup {"%", "0"}) /\ Arguments[m] \in Seq(Argument1)
<1>1. Len(Messages[m]) \in 0..Len(Messages[m])
  BY MessagesAssumption
<1>2. Format[m] = Fmt(m, Len(Messages[m])) /\ Arguments[m] = Args(m, Len(Messages[m]))
  BY DEF Format, Arguments, Fmt, Args
<1>. QED
  BY <1>1, <1>2, PassedType

\* The characters of an item in its message.
LEMMA CharsOfItem ==
  ASSUME NEW m \in DOMAIN Messages, NEW k \in Nat, k < Len(Messages[m])
  PROVE  LET spelled == Spelled(Messages[m][k + 1])
         IN  /\ Len(Fmt(m, k)) \in Nat /\ Len(Fmt(m, k + 1)) = Len(Fmt(m, k)) + Len(spelled)
             /\ Len(Fmt(m, k + 1)) <= Len(Format[m]) /\ Len(Format[m]) \in Nat
             /\ \A i \in 1..Len(spelled) : Format[m][Len(Fmt(m, k)) + i] = spelled[i]
<1> DEFINE spelled == Spelled(Messages[m][k + 1])
<1>. Len(Messages[m]) \in Nat /\ k \in 0..Len(Messages[m]) /\ k + 1 \in 0..Len(Messages[m])
  BY MessagesAssumption
<1>1. spelled \in Seq(Alphabet \cup {"%", "0"})
  BY ItemIs, SpelledIs
<1>2. Fmt(m, k) \in Seq(Alphabet \cup {"%", "0"}) /\ Fmt(m, k + 1) = Fmt(m, k) \o spelled
  BY PassedType, OneMore
<1>3. Starts(Fmt(m, k + 1), Format[m])
  BY AllStarts
<1>4. Format[m] \in Seq(Alphabet \cup {"%", "0"})
  BY AllIs
<1>. HIDE DEF spelled
<1>5. /\ Len(Fmt(m, k + 1)) = Len(Fmt(m, k)) + Len(spelled)
      /\ \A i \in 1..Len(spelled) : Fmt(m, k + 1)[Len(Fmt(m, k)) + i] = spelled[i]
  BY <1>1, <1>2, JoinIs
<1>6. Len(Fmt(m, k)) \in Nat /\ Len(spelled) \in Nat /\ Len(Format[m]) \in Nat
  BY <1>1, <1>2, <1>4
<1>7. Len(Fmt(m, k + 1)) <= Len(Format[m])
  BY <1>3 DEF Starts
<1>8. ASSUME NEW i \in 1..Len(spelled) PROVE Format[m][Len(Fmt(m, k)) + i] = spelled[i]
  <2>1. Len(Fmt(m, k)) + i \in 1..Len(Fmt(m, k + 1))
    BY <1>5, <1>6
  <2>. QED
    BY <1>3, <1>5, <2>1 DEF Starts
<1>. QED
  BY <1>5, <1>6, <1>7, <1>8 DEF spelled

\* The argument of an item in its message.
LEMMA ArgOfItem ==
  ASSUME NEW m \in DOMAIN Messages, NEW k \in Nat, k < Len(Messages[m]),
         Messages[m][k + 1].args # <<>>
  PROVE  /\ Len(Args(m, k)) \in Nat /\ Len(Arguments[m]) \in Nat
         /\ Len(Args(m, k + 1)) = Len(Args(m, k)) + 1 /\ Len(Args(m, k)) + 1 <= Len(Arguments[m])
         /\ Arguments[m][Len(Args(m, k)) + 1] = Messages[m][k + 1].args[1]
<1> DEFINE args == Messages[m][k + 1].args
<1>. Len(Messages[m]) \in Nat /\ k \in 0..Len(Messages[m]) /\ k + 1 \in 0..Len(Messages[m])
  BY MessagesAssumption
<1>1. args \in Seq(Argument1) /\ Len(args) = 1
  BY ItemIs, ArgsIs
<1>2. Args(m, k) \in Seq(Argument1) /\ Args(m, k + 1) = Args(m, k) \o args
  BY PassedType, OneMore
<1>3. Starts(Args(m, k + 1), Arguments[m])
  BY AllStarts
<1>4. Arguments[m] \in Seq(Argument1)
  BY AllIs
<1>. HIDE DEF args
<1>5. Len(Args(m, k + 1)) = Len(Args(m, k)) + 1 /\ Args(m, k + 1)[Len(Args(m, k)) + 1] = args[1]
  <2>1. 1 \in 1..Len(args)
    BY <1>1
  <2>2. /\ Len(Args(m, k) \o args) = Len(Args(m, k)) + Len(args)
        /\ \A i \in 1..Len(args) : (Args(m, k) \o args)[Len(Args(m, k)) + i] = args[i]
    <3>1. Args(m, k) \in Seq(Argument1) /\ args \in Seq(Argument1)
      BY <1>1, <1>2
    <3>2. PICK s, t : s = Args(m, k) /\ t = args
      OBVIOUS
    <3>3. /\ Len(s \o t) = Len(s) + Len(t)
          /\ \A i \in 1..Len(t) : (s \o t)[Len(s) + i] = t[i]
      BY ONLY <3>1, <3>2, JoinIs
    <3>. QED
      BY ONLY <3>2, <3>3
  <2>3. (Args(m, k) \o args)[Len(Args(m, k)) + 1] = args[1]
    BY ONLY <2>1, <2>2
  <2>4. Len(Args(m, k) \o args) = Len(Args(m, k)) + 1
    BY <1>1, <2>2
  <2>. QED
    BY ONLY <1>2, <2>3, <2>4
<1>6. Len(Args(m, k)) \in Nat /\ Len(Arguments[m]) \in Nat
  BY <1>2, <1>4
<1>7. Len(Args(m, k + 1)) <= Len(Arguments[m]) /\ Arguments[m][Len(Args(m, k)) + 1] = args[1]
  BY <1>3, <1>5, <1>6 DEF Starts
<1>. QED
  BY <1>5, <1>6, <1>7 DEF args

\* No arguments come after a %p without one.
LEMMA BareIsLast ==
  ASSUME NEW m \in DOMAIN Messages, NEW k \in 1..Len(Messages[m]),
         Messages[m][k].directive, Messages[m][k].char = "p", Messages[m][k].args = <<>>
  PROVE  Args(m, k - 1) = Arguments[m] /\ Args(m, k) = Arguments[m]
<1>. Len(Messages[m]) \in Nat
  BY MessagesAssumption
<1> DEFINE T == {n \in Nat : k - 1 <= n /\ n <= Len(Messages[m]) /\ Args(m, n) # Args(m, k - 1)}
<1>1. ASSUME T # {} PROVE FALSE
  <2>1. PICK n \in T : \A l \in T : n <= l
    BY <1>1, LeastNat
  <2>2. PICK l \in Nat : n = l + 1 /\ l \notin T /\ k - 1 <= l /\ l < Len(Messages[m]) /\ l \in 0..Len(Messages[m])
    <3>1. n - 1 \in Nat /\ n = (n - 1) + 1 /\ n - 1 \notin T /\ k - 1 <= n - 1 /\ n - 1 < Len(Messages[m])
      BY <2>1
    <3>. QED
      BY <3>1
  <2>3. Args(m, l) = Args(m, k - 1) /\ Args(m, l) \in Seq(Argument1)
    BY <2>2, PassedType
  <2>4. Messages[m][n].args = <<>>
    <3>1. k \in DOMAIN Messages[m] /\ n \in DOMAIN Messages[m] /\ (k = n \/ k < n)
      BY <2>2, MessagesAssumption
    <3>. QED
      BY <3>1, MessagesAssumption
  <2>5. Args(m, n) = Args(m, l) \o <<>>
    BY <2>2, <2>4, OneMore
  <2>6. Args(m, n) = Args(m, k - 1)
    BY <2>3, <2>5
  <2>. QED
    BY <2>6
<1>2. Len(Messages[m]) \notin T /\ k \notin T
  BY <1>1
<1>3. Arguments[m] = Args(m, Len(Messages[m]))
  BY AllIs
<1>. QED
  BY <1>2, <1>3

-----------------------------------------------------------------------------
(* Numerals. *)

\* Powers are positive.
LEMMA PowerPositive ==
  ASSUME NEW b \in Nat \ {0}, NEW k \in Nat
  PROVE  Power[<<b, k>>] \in Nat \ {0}
<1> DEFINE T == {n \in Nat : Power[<<b, n>>] \notin Nat \ {0}}
<1> SUFFICES ASSUME T # {} PROVE FALSE
  OBVIOUS
<1>1. PICK n \in T : \A l \in T : n <= l
  BY LeastNat
<1>2. Power[<<b, 0>>] = 1 /\ \A l \in Nat : Power[<<b, l + 1>>] = b * Power[<<b, l>>]
  BY PowerIs
<1>3. n # 0
  BY <1>2
<1>4. PICK l \in Nat : n = l + 1 /\ l \notin T
  <2>1. n - 1 \in Nat /\ n = (n - 1) + 1 /\ n - 1 \notin T
    BY <1>1, <1>3
  <2>. QED
    BY <2>1
<1>5. PICK v \in Nat \ {0} : v = Power[<<b, l>>]
  BY <1>4
<1>6. b * v \in Nat \ {0}
  OBVIOUS
<1>7. Power[<<b, n>>] = b * v
  BY <1>2, <1>4, <1>5
<1>. QED
  BY <1>6, <1>7

\* Those of 16 are greater than those of 10.
LEMMA SixteenMore ==
  ASSUME NEW k \in Nat
  PROVE  Power[<<10, k>>] <= Power[<<16, k>>]
<1> DEFINE T == {n \in Nat : ~(Power[<<10, n>>] <= Power[<<16, n>>])}
<1> SUFFICES ASSUME T # {} PROVE FALSE
  OBVIOUS
<1>1. PICK n \in T : \A l \in T : n <= l
  BY LeastNat
<1>2. /\ Power[<<10, 0>>] = 1 /\ \A l \in Nat : Power[<<10, l + 1>>] = 10 * Power[<<10, l>>]
      /\ Power[<<16, 0>>] = 1 /\ \A l \in Nat : Power[<<16, l + 1>>] = 16 * Power[<<16, l>>]
  BY PowerIs
<1>3. n # 0
  BY <1>2
<1>4. PICK l \in Nat : n = l + 1 /\ l \notin T
  <2>1. n - 1 \in Nat /\ n = (n - 1) + 1 /\ n - 1 \notin T
    BY <1>1, <1>3
  <2>. QED
    BY <2>1
<1>5. Power[<<10, l>>] \in Nat /\ Power[<<16, l>>] \in Nat
  BY PowerPositive
<1>6. PICK v \in Nat, w \in Nat : v = Power[<<10, l>>] /\ w = Power[<<16, l>>]
  BY <1>5
<1>7. 10 * v <= 16 * w
  BY <1>4, <1>6
<1>8. Power[<<10, n>>] = 10 * v /\ Power[<<16, n>>] = 16 * w
  BY <1>2, <1>4, <1>6
<1>. QED
  BY <1>7, <1>8

\* The words.
LEMMA WordIs == Sign \in Nat \ {0} /\ 2 * Sign \in Nat /\ Word \subseteq Nat /\ 0 \in Word
<1>1. Bits - 1 \in Nat
  BY FormatAssumption
<1>2. Sign \in Nat \ {0}
  BY <1>1, PowerPositive DEF Sign
<1>. QED
  BY <1>2 DEF Word

\* Every digit of utoa is one.
LEMMA DigitIs ==
  ASSUME NEW i \in 1..16
  PROVE  Digits[i] \in Chars /\ Digits[i] \notin {NUL, ANY}
<1>1. Digits[i] \in Chars
  BY DEF Chars
<1>2. i = 1 \/ i = 2 \/ i = 3 \/ i = 4 \/ i = 5 \/ i = 6 \/ i = 7 \/ i = 8
      \/ i = 9 \/ i = 10 \/ i = 11 \/ i = 12 \/ i = 13 \/ i = 14 \/ i = 15 \/ i = 16
  OBVIOUS
<1>3. Digits[i] \in {"0", "1", "2", "3", "4", "5", "6", "7", "8", "9", "A", "B", "C", "D", "E", "F"}
  BY <1>2 DEF Digits
<1>. QED
  BY <1>1, <1>3 DEF NUL, ANY

\* A digit of a number is one of its base.
LEMMA Remainder ==
  ASSUME NEW n \in Nat, NEW d \in Nat \ {0}, NEW base \in {10, 16}
  PROVE  n \div d \in Nat /\ (n \div d) % base \in 0..(base - 1) /\ ((n \div d) % base) + 1 \in 1..16
<1>1. n \div d \in Nat
  OBVIOUS
<1>2. PICK x \in Nat : x = n \div d
  BY <1>1
<1>3. CASE base = 10
  BY <1>2, <1>3
<1>4. CASE base = 16
  BY <1>2, <1>4
<1>. QED
  BY <1>1, <1>3, <1>4

\* Every word has a numeral.
LEMMA Fits ==
  ASSUME NEW n \in Word, NEW base \in {10, 16}
  PROVE  n < Power[<<base, DecimalDigits>>] /\ (base = 16 => n < Power[<<16, HexDigits>>])
<1>1. n \in Nat /\ n < 2 * Sign /\ 2 * Sign \in Nat
  BY WordIs DEF Word
<1>2. 2 * Sign = Power[<<16, HexDigits>>] /\ 2 * Sign <= Power[<<10, DecimalDigits>>] /\ DecimalDigits \in Nat
  BY FormatAssumption
<1>3. Power[<<10, DecimalDigits>>] <= Power[<<16, DecimalDigits>>]
  BY <1>2, SixteenMore
<1>4. Power[<<10, DecimalDigits>>] \in Nat /\ Power[<<16, DecimalDigits>>] \in Nat
  BY <1>2, PowerPositive
<1>5. PICK u \in Nat, v \in Nat, w \in Nat :
        u = 2 * Sign /\ v = Power[<<10, DecimalDigits>>] /\ w = Power[<<16, DecimalDigits>>]
  BY <1>1, <1>4
<1>6. n < u /\ u <= v /\ v <= w
  BY <1>1, <1>2, <1>3, <1>5
<1>7. n < v /\ n < w
  BY <1>1, <1>6
<1>. QED
  BY <1>1, <1>2, <1>5, <1>7

\* The numeral is the shortest that is long enough.
LEMMA NumeralIs ==
  ASSUME NEW n \in Word, NEW base \in {10, 16}
  PROVE  LET len == Len(Numeral(n, base))
         IN  /\ len \in 1..DecimalDigits /\ n < Power[<<base, len>>]
             /\ \A k \in 1..DecimalDigits : n < Power[<<base, k>>] => len <= k
             /\ base = 16 => len <= HexDigits
             /\ Numeral(n, base) \in Seq(Chars \ {NUL})
             /\ \A i \in 1..len : Numeral(n, base)[i] = Digits[((n \div Power[<<base, len - i>>]) % base) + 1]
<1> DEFINE K == {k \in 1..DecimalDigits : n < Power[<<base, k>>]}
           L == Min(K)
<1>0. DecimalDigits \in Nat \ {0} /\ HexDigits \in Nat \ {0}
  BY FormatAssumption
<1>1. DecimalDigits \in K
  BY <1>0, Fits
<1>2. K \in SUBSET Nat
  OBVIOUS
<1>. HIDE DEF K
<1>3. L \in K /\ \A k \in K : L <= k
  BY <1>1, <1>2, MinIs
<1>. USE DEF K
<1>. HIDE DEF L
<1>4. L \in 1..DecimalDigits /\ n < Power[<<base, L>>] /\ \A k \in 1..DecimalDigits : n < Power[<<base, k>>] => L <= k
  BY <1>3
<1>5. base = 16 => L <= HexDigits
  <2>1. CASE HexDigits <= DecimalDigits /\ base = 16
    <3>1. HexDigits \in 1..DecimalDigits /\ n < Power[<<base, HexDigits>>]
      BY <1>0, <2>1, Fits
    <3>. QED
      BY <1>4, <3>1
  <2>2. CASE ~(HexDigits <= DecimalDigits)
    BY <1>0, <1>4, <2>2
  <2>. QED
    BY <2>1, <2>2
<1>6. Numeral(n, base) = [i \in 1..L |-> Digits[((n \div Power[<<base, L - i>>]) % base) + 1]]
  BY DEF L, Numeral
<1>7. ASSUME NEW i \in 1..L
      PROVE  Digits[((n \div Power[<<base, L - i>>]) % base) + 1] \in Chars \ {NUL}
  <2>1. L - i \in Nat /\ base \in Nat \ {0} /\ n \in Nat
    BY <1>4, WordIs
  <2>2. Power[<<base, L - i>>] \in Nat \ {0}
    BY <2>1, PowerPositive
  <2>3. PICK d \in Nat \ {0} : d = Power[<<base, L - i>>]
    BY <2>2
  <2>4. ((n \div d) % base) + 1 \in 1..16
    BY <2>1, Remainder
  <2>. QED
    BY <2>3, <2>4, DigitIs
<1>8. L \in Nat
  BY <1>4
<1>9. Numeral(n, base) \in Seq(Chars \ {NUL}) /\ Len(Numeral(n, base)) = L
  <2> DEFINE e(i) == Digits[((n \div Power[<<base, L - i>>]) % base) + 1]
  <2>1. \A i \in 1..L : e(i) \in Chars \ {NUL}
    BY <1>7
  <2>2. Numeral(n, base) = [i \in 1..L |-> e(i)]
    BY <1>6
  <2>. HIDE DEF e
  <2>. QED
    BY <1>8, <2>1, <2>2
<1>10. \A i \in 1..L : Numeral(n, base)[i] = Digits[((n \div Power[<<base, L - i>>]) % base) + 1]
  BY <1>6
<1>. QED
  BY <1>4, <1>5, <1>9, <1>10

-----------------------------------------------------------------------------
(* What an item looks like. *)

\* The characters that may be printed.
Printed == (Alphabet \cup Chars \cup {"x", "%"}) \ {NUL}

\* What is printed is not ANY.
LEMMA PrintedIs == Printed \subseteq Character /\ ANY \notin Printed /\ NUL \notin Printed /\ NUL \in Character
<1>1. ASSUME NEW i \in 1..16 PROVE Digits[i] # ANY
  BY DigitIs
<1>2. ANY \notin Chars
  BY <1>1 DEF Chars, ANY, NUL
<1>3. ANY \notin Alphabet
  BY FormatAssumption
<1>. QED
  BY <1>2, <1>3 DEF Printed, Character, ANY, Chars

\* weak asks for as many characters as strong, and for the same ones or any.
Weaker(weak, strong) ==
  Len(weak) = Len(strong) /\ \A i \in 1..Len(strong) : weak[i] # ANY => weak[i] = strong[i]

\* A numeral, with its characters or without.
LEMMA UnknownIs ==
  ASSUME NEW s \in Seq(Printed)
  PROVE  Unknown(s) \in Seq(Printed \cup {ANY}) /\ Weaker(Unknown(s), s) /\ Len(Unknown(s)) = Len(s)
BY DEF Unknown, Weaker

\* Zeroes are as many as one asks for, and printed.
LEMMA ZeroesIs ==
  ASSUME NEW n \in Nat
  PROVE  Zeroes(n) \in Seq(Printed) /\ Len(Zeroes(n)) = n /\ \A i \in 1..n : Zeroes(n)[i] = "0"
<1>1. "0" \in Printed
  <2>1. Digits[1] = "0" /\ 1 \in 1..16
    BY DEF Digits
  <2>. QED
    BY <2>1, DigitIs DEF Printed
<1>. QED
  BY <1>1 DEF Zeroes

\* The argument of a conversion.
LEMMA ArgumentIs ==
  ASSUME NEW item, WellFormed(item), item.directive
  PROVE  /\ item.char \in {"s", "c"} =>
              /\ item.args # <<>> /\ item.args[1] \in Seq(Printed) /\ Len(item.args[1]) <= Slack + 1
              /\ item.char = "c" => Len(item.args[1]) = 1
         /\ item.char \in Numbers /\ item.args # <<>> => item.args[1] \in Word
         /\ item.char \notin {"p", "s", "c"} /\ item.args = <<>> => item.char \notin Numbers
         /\ item.char \notin Numbers \cup {"s", "c"} => item.args = <<>>
<1>1. Alphabet \subseteq Printed
  BY FormatAssumption DEF Printed
<1>2. CASE item.char \notin Numbers \cup {"s", "c"} /\ item.args = <<>>
  BY <1>2 DEF Numbers
<1>3. CASE item.char = "p" /\ item.args = <<>>
  BY <1>3 DEF Numbers
<1>4. CASE item.char \in Numbers /\ \E n \in Word : item.args = <<n>>
  <2>1. PICK n \in Word : item.args = <<n>>
    BY <1>4
  <2>2. item.args[1] \in Word /\ item.args # <<>>
    BY <2>1
  <2>. QED
    BY <1>4, <2>2 DEF Numbers
<1>5. CASE /\ item.char \in {"s", "c"}
           /\ item.args = <<item.args[1]>> /\ item.args[1] \in Seq(Alphabet)
           /\ Len(item.args[1]) <= Slack + 1 /\ (item.char = "c" => Len(item.args[1]) = 1)
  <2>1. item.args # <<>>
    BY <1>5
  <2>2. item.args[1] \in Seq(Printed)
    BY <1>1, <1>5
  <2>. QED
    BY <1>5, <2>1, <2>2 DEF Numbers
<1>. QED
  BY <1>2, <1>3, <1>4, <1>5 DEF WellFormed

\* What a directive puts before its zeroes.
LEMMA LeadIs ==
  ASSUME NEW item, WellFormed(item), item.directive
  PROVE  /\ Lead(item) \in Seq(Printed)
         /\ item.char = "p" => Len(Lead(item)) = 2
         /\ item.char = "c" => Len(Lead(item)) = 1
         /\ item.char \notin {"p", "c"} => Lead(item) = <<>> /\ Len(Lead(item)) = 0
<1>1. CASE item.char = "p"
  <2>1. "0" \in Printed /\ "x" \in Printed
    <3>1. Digits[1] = "0" /\ 1 \in 1..16
      BY DEF Digits
    <3>2. "x" # NUL
      BY DEF NUL
    <3>. QED
      BY <3>1, <3>2, DigitIs DEF Printed
  <2>2. Lead(item) = <<"0", "x">>
    BY <1>1 DEF Lead
  <2>. QED
    BY <1>1, <2>1, <2>2
<1>2. CASE item.char = "c"
  BY <1>2, ArgumentIs DEF Lead
<1>3. CASE item.char \notin {"p", "c"}
  <2>1. Lead(item) = <<>>
    BY <1>3 DEF Lead
  <2>. QED
    BY <1>3, <2>1
<1>. QED
  BY <1>1, <1>2, <1>3

\* What it puts behind them.
LEMMA ShownIs ==
  ASSUME NEW item, WellFormed(item), item.directive, NEW num \in Word, NEW view \in {"text", "shape"}
  PROVE  /\ Shown(item, num, "text") \in Seq(Printed) /\ Shown(item, num, view) \in Seq(Printed \cup {ANY})
         /\ Size(item, num) \in Nat /\ Len(Shown(item, num, view)) = Size(item, num)
         /\ Weaker(Shown(item, num, view), Shown(item, num, "text"))
         /\ IsNumber(item) => /\ Base(item) \in {10, 16} /\ Size(item, num) = Places(item, num)
                              /\ Shown(item, num, "text") = Numeral(num, Base(item))
                              /\ Places(item, num) \in 1..DecimalDigits
                              /\ Base(item) = 16 => Places(item, num) <= HexDigits
<1>0. "%" \in Printed
  <2>1. "%" # NUL
    BY DEF NUL
  <2>. QED
    BY <2>1 DEF Printed
<1>1. CASE IsNumber(item)
  <2>1. Base(item) \in {10, 16}
    BY DEF Base
  <2>2. Chars \ {NUL} \subseteq Printed
    BY DEF Printed
  <2>3. /\ Numeral(num, Base(item)) \in Seq(Printed) /\ Places(item, num) \in 1..DecimalDigits
        /\ Base(item) = 16 => Places(item, num) <= HexDigits
    <3>1. PICK base \in {10, 16} : base = Base(item)
      BY <2>1
    <3>2. /\ Numeral(num, base) \in Seq(Chars \ {NUL}) /\ Len(Numeral(num, base)) \in 1..DecimalDigits
          /\ base = 16 => Len(Numeral(num, base)) <= HexDigits
      BY NumeralIs
    <3>3. Numeral(num, base) \in Seq(Printed)
      BY <2>2, <3>2
    <3>. QED
      BY <3>1, <3>2, <3>3 DEF Places
  <2>4. PICK s \in Seq(Printed) : s = Numeral(num, Base(item))
    BY <2>3
  <2>5. Shown(item, num, "text") = s /\ Shown(item, num, view) \in {s, Unknown(s)}
    BY <1>1, <2>4 DEF Shown
  <2>6. Weaker(s, s) /\ s \in Seq(Printed \cup {ANY})
    BY DEF Weaker
  <2>7. Weaker(Unknown(s), s) /\ Unknown(s) \in Seq(Printed \cup {ANY}) /\ Len(Unknown(s)) = Len(s)
    BY UnknownIs
  <2>8. Size(item, num) = Len(s) /\ Len(s) \in Nat /\ Places(item, num) = Len(s)
    BY <2>4, <2>5 DEF Size, Places
  <2>. QED
    BY <2>1, <2>3, <2>4, <2>5, <2>6, <2>7, <2>8
<1>2. CASE ~IsNumber(item)
  <2>1. Shown(item, num, view) = Shown(item, num, "text")
    BY <1>2 DEF Shown
  <2>2. Shown(item, num, "text") \in Seq(Printed)
    <3>1. item.char = "s" => item.args[1] \in Seq(Printed)
      BY ArgumentIs
    <3>2. <<>> \in Seq(Printed) /\ <<"%">> \in Seq(Printed)
      BY <1>0
    <3>. QED
      BY <1>2, <3>1, <3>2 DEF Shown
  <2>3. PICK s \in Seq(Printed) : s = Shown(item, num, "text")
    BY <2>2
  <2>4. Weaker(s, s) /\ s \in Seq(Printed \cup {ANY}) /\ Len(s) \in Nat
    BY DEF Weaker
  <2>. QED
    BY <1>2, <2>1, <2>3, <2>4 DEF Size
<1>. QED
  BY <1>1, <1>2

\* How wide it can be.
LEMMA WidthIs ==
  ASSUME NEW item, WellFormed(item), item.directive, NEW num \in Word
  PROVE  /\ Width(item) \in Nat /\ Pad(item, num) \in Nat
         /\ Len(Lead(item)) \in Nat /\ Len(Lead(item)) + Pad(item, num) + Size(item, num) <= Slack + 1
<1>1. DecimalDigits \in Nat \ {0} /\ HexDigits \in Nat \ {0} /\ Slack \in Nat
      /\ 2 * DecimalDigits <= Slack + 1 /\ 2 + HexDigits <= Slack + 1
  BY FormatAssumption
<1>2. Len(Lead(item)) \in Nat
  BY LeadIs
<1>3. Size(item, num) \in Nat
  BY ShownIs
<1>4. Width(item) \in {0, DecimalDigits, HexDigits}
  BY DEF Width
<1>5. PICK w \in Nat, s \in Nat, l \in Nat : w = Width(item) /\ s = Size(item, num) /\ l = Len(Lead(item))
  BY <1>1, <1>2, <1>3, <1>4
<1>6. Pad(item, num) = IF s < w THEN w - s ELSE 0
  BY <1>5 DEF Pad
<1>7. l + (IF s < w THEN w - s ELSE 0) + s <= Slack + 1
  <2>1. CASE item.char = "p"
    <3>1. l = 2 /\ s <= HexDigits /\ w = HexDigits
      BY <1>5, <2>1, LeadIs, ShownIs DEF Width, Base, IsNumber, Numbers
    <3>. QED
      BY <1>1, <3>1
  <2>2. CASE item.char \in {"d", "u", "x"}
    <3>1. l = 0
      BY <1>5, <2>2, LeadIs
    <3>2. s <= DecimalDigits /\ (item.char = "x" => s <= HexDigits)
      BY <1>5, <2>2, ShownIs DEF Base, IsNumber, Numbers
    <3>3. w \in {0, DecimalDigits, HexDigits}
      BY <1>4, <1>5
    <3>. QED
      BY <1>1, <3>1, <3>2, <3>3
  <2>3. CASE item.char \notin Numbers
    <3>1. w = 0
      BY <1>5, <2>3 DEF Width, Numbers
    <3>2. l + s <= Slack + 1
      <4>1. CASE item.char = "s"
        <5>1. l = 0 /\ s <= Slack + 1
          BY <1>5, <2>3, <4>1, LeadIs, ArgumentIs DEF Size, Shown, IsNumber
        <5>. QED
          BY <5>1
      <4>2. CASE item.char = "c"
        <5>1. l = 1
          BY <1>5, <4>2, LeadIs
        <5>2. s = 0
          BY <1>5, <2>3, <4>2 DEF Size, Shown, IsNumber
        <5>. QED
          BY <1>1, <5>1, <5>2
      <4>3. CASE item.char \notin {"s", "c"}
        <5>1. l = 0
          BY <1>5, <2>3, <4>3, LeadIs DEF Numbers
        <5>2. s \in {0, 1}
          BY <1>5, <2>3, <4>3 DEF Size, Shown, IsNumber
        <5>. QED
          BY <1>1, <5>1, <5>2
      <4>. QED
        BY <4>1, <4>2, <4>3
    <3>. QED
      BY <3>1, <3>2
  <2>. QED
    BY <2>1, <2>2, <2>3 DEF Numbers
<1>. QED
  BY <1>4, <1>5, <1>6, <1>7, <1>1, SMTT(30)

\* What a directive puts into the buffer in the end.
Whole(item, num, view) == Lead(item) \o (Zeroes(Pad(item, num)) \o Shown(item, num, view))

\* A weaker sequence between the same ones is weaker.
LEMMA WeakerJoin ==
  ASSUME NEW a \in Seq(Printed), NEW s \in Seq(Printed \cup {ANY}), NEW t \in Seq(Printed \cup {ANY}), Weaker(s, t)
  PROVE  Weaker(a \o s, a \o t) /\ a \o s \in Seq(Printed \cup {ANY}) /\ a \o t \in Seq(Printed \cup {ANY})
<1>0. a \in Seq(Printed \cup {ANY})
  OBVIOUS
<1>1. /\ a \o s \in Seq(Printed \cup {ANY}) /\ Len(a \o s) = Len(a) + Len(s)
      /\ \A i \in 1..Len(a) : (a \o s)[i] = a[i]
      /\ \A i \in 1..Len(s) : (a \o s)[Len(a) + i] = s[i]
  BY <1>0, JoinIs
<1>2. /\ a \o t \in Seq(Printed \cup {ANY}) /\ Len(a \o t) = Len(a) + Len(t)
      /\ \A i \in 1..Len(a) : (a \o t)[i] = a[i]
      /\ \A i \in 1..Len(t) : (a \o t)[Len(a) + i] = t[i]
  BY <1>0, JoinIs
<1>3. Len(s) = Len(t) /\ Len(s) \in Nat /\ Len(a) \in Nat
  BY DEF Weaker
<1>4. ASSUME NEW i \in 1..Len(a \o t), (a \o s)[i] # ANY PROVE (a \o s)[i] = (a \o t)[i]
  <2>1. CASE i <= Len(a)
    <3>1. i \in 1..Len(a)
      BY <1>2, <1>3, <2>1
    <3>. QED
      BY <1>1, <1>2, <3>1
  <2>2. CASE ~(i <= Len(a))
    <3>1. PICK j \in 1..Len(t) : i = Len(a) + j
      <4>1. i - Len(a) \in 1..Len(t) /\ i = Len(a) + (i - Len(a))
        BY <1>2, <1>3, <2>2
      <4>. QED
        BY <4>1
    <3>2. (a \o s)[i] = s[j] /\ (a \o t)[i] = t[j]
      BY <1>1, <1>2, <1>3, <3>1
    <3>. QED
      BY <1>4, <3>2 DEF Weaker
  <2>. QED
    BY <2>1, <2>2
<1>. QED
  BY <1>1, <1>2, <1>3, <1>4 DEF Weaker

\* What a directive prints is what it asks for.
LEMMA WholeIs ==
  ASSUME NEW item, WellFormed(item), item.directive, NEW num \in Word, NEW view \in {"text", "shape"}
  PROVE  /\ Whole(item, num, view) \in Seq(Printed \cup {ANY})
         /\ Len(Whole(item, num, view)) = Len(Lead(item)) + Pad(item, num) + Size(item, num)
         /\ Weaker(Whole(item, num, view), Whole(item, num, "text"))
<1>1. Lead(item) \in Seq(Printed)
  BY LeadIs
<1>2. /\ Shown(item, num, "text") \in Seq(Printed) /\ Shown(item, num, view) \in Seq(Printed \cup {ANY})
      /\ Size(item, num) \in Nat /\ Len(Shown(item, num, view)) = Size(item, num)
      /\ Weaker(Shown(item, num, view), Shown(item, num, "text"))
  BY ShownIs
<1>3. Pad(item, num) \in Nat
  BY WidthIs
<1>4. Zeroes(Pad(item, num)) \in Seq(Printed) /\ Len(Zeroes(Pad(item, num))) = Pad(item, num)
  BY <1>3, ZeroesIs
<1>5. PICK a \in Seq(Printed), z \in Seq(Printed), s \in Seq(Printed \cup {ANY}), t \in Seq(Printed \cup {ANY}) :
        a = Lead(item) /\ z = Zeroes(Pad(item, num)) /\ s = Shown(item, num, view) /\ t = Shown(item, num, "text")
  BY <1>1, <1>2, <1>4
<1>6. Weaker(z \o s, z \o t) /\ z \o s \in Seq(Printed \cup {ANY}) /\ z \o t \in Seq(Printed \cup {ANY})
  BY <1>2, <1>5, WeakerJoin
<1>7. Weaker(a \o (z \o s), a \o (z \o t)) /\ a \o (z \o s) \in Seq(Printed \cup {ANY})
  BY <1>6, WeakerJoin
<1>8. a \in Seq(Printed \cup {ANY}) /\ z \in Seq(Printed \cup {ANY})
  OBVIOUS
<1>9. Len(z \o s) = Len(z) + Len(s)
  BY <1>8, JoinIs
<1>10. Len(a \o (z \o s)) = Len(a) + Len(z \o s)
  BY <1>6, <1>8, JoinIs
<1>. QED
  BY <1>2, <1>4, <1>5, <1>7, <1>9, <1>10 DEF Whole

\* A piece is what is printed for its item, or less is asked for.
LEMMA PieceOfNumber ==
  ASSUME NEW item, WellFormed(item), item.directive, IsNumber(item), item.args # <<>>, NEW view \in {"text", "shape"}
  PROVE  Piece(item, view) = Whole(item, item.args[1], view)
<1>1. PICK num \in Word : num = item.args[1]
  BY ArgumentIs DEF IsNumber
<1>. DEFINE s == Shown(item, num, view)
<1>2. s = IF view = "text" THEN Numeral(num, Base(item)) ELSE Unknown(Numeral(num, Base(item)))
  BY DEF Shown, IsNumber
<1>3. Len(s) = Size(item, num) /\ s \in Seq(Printed \cup {ANY})
  BY ShownIs
<1>4. Pad(item, num) = IF Width(item) > Len(s) THEN Width(item) - Len(s) ELSE 0
  <2>1. Width(item) \in Nat /\ Size(item, num) \in Nat
    BY WidthIs, ShownIs
  <2>. QED
    BY <1>3, <2>1 DEF Pad
<1>. HIDE DEF s
<1>5. <<>> \o s = s
  BY <1>3
<1>6. Zeroes(0) = <<>>
  <2>1. Zeroes(0) \in Seq(Printed) /\ Len(Zeroes(0)) = 0
    BY ZeroesIs
  <2>. QED
    BY <2>1
<1>7. Whole(item, num, view) = Lead(item) \o Filled(s, Width(item))
  BY <1>4 DEF Whole, Filled, s
<1>8. Filled(s, Width(item)) \in Seq(Printed \cup {ANY})
  <2>1. Pad(item, num) \in Nat
    BY WidthIs
  <2>2. Zeroes(Pad(item, num)) \in Seq(Printed)
    BY <2>1, ZeroesIs
  <2>3. Zeroes(Pad(item, num)) \o s \in Seq(Printed \cup {ANY})
    <3>1. Zeroes(Pad(item, num)) \in Seq(Printed \cup {ANY})
      BY <2>2
    <3>. QED
      BY <1>3, <3>1
  <2>. QED
    BY <1>4, <2>3 DEF Filled
<1>9. CASE item.char = "d"
  <2>1. Piece(item, view) = Filled(s, IF item.zero THEN DecimalDigits ELSE 0)
    BY <1>1, <1>2, <1>9 DEF Piece, Base
  <2>2. Lead(item) = <<>> /\ Width(item) = IF item.zero THEN DecimalDigits ELSE 0
    BY <1>9 DEF Lead, Width
  <2>. QED
    BY <1>1, <1>7, <1>8, <2>1, <2>2
<1>10. CASE item.char = "x"
  <2>1. Piece(item, view) = Filled(s, IF item.zero THEN HexDigits ELSE 0)
    BY <1>1, <1>2, <1>10 DEF Piece, Base
  <2>2. Lead(item) = <<>> /\ Width(item) = IF item.zero THEN HexDigits ELSE 0
    BY <1>10 DEF Lead, Width
  <2>. QED
    BY <1>1, <1>7, <1>8, <2>1, <2>2
<1>11. CASE item.char = "u"
  <2>1. Piece(item, view) = s
    BY <1>1, <1>2, <1>11 DEF Piece, Base
  <2>2. Lead(item) = <<>> /\ Width(item) = 0
    BY <1>11 DEF Lead, Width
  <2>3. Filled(s, 0) = s
    <3>1. ~(0 > Len(s))
      BY <1>3
    <3>. QED
      BY <1>5, <1>6, <3>1 DEF Filled
  <2>. QED
    BY <1>1, <1>7, <1>8, <2>1, <2>2, <2>3
<1>12. CASE item.char = "p"
  <2>1. Piece(item, view) = <<"0", "x">> \o Filled(s, HexDigits)
    BY <1>1, <1>2, <1>12 DEF Piece, Base
  <2>2. Lead(item) = <<"0", "x">> /\ Width(item) = HexDigits
    BY <1>12 DEF Lead, Width
  <2>. QED
    BY <1>1, <1>7, <2>1, <2>2
<1>. QED
  BY <1>9, <1>10, <1>11, <1>12 DEF IsNumber, Numbers

\* A %p without its argument may print any digits.
LEMMA PieceOfBare ==
  ASSUME NEW item, WellFormed(item), item.directive, IsNumber(item), item.args = <<>>,
         NEW view \in {"text", "shape"}, NEW num \in Word
  PROVE  Piece(item, view) \in Seq(Printed \cup {ANY}) /\ Weaker(Piece(item, view), Whole(item, num, view))
<1>1. item.char = "p"
  BY ArgumentIs DEF IsNumber, Numbers
<1>2. HexDigits \in Nat
  BY FormatAssumption
<1>3. Piece(item, view) = <<"0", "x">> \o Unknown(Zeroes(HexDigits))
  BY <1>1 DEF Piece
<1>4. Lead(item) = <<"0", "x">> /\ Lead(item) \in Seq(Printed)
  BY <1>1, LeadIs DEF Lead
<1>5. Zeroes(HexDigits) \in Seq(Printed) /\ Len(Zeroes(HexDigits)) = HexDigits
  BY <1>2, ZeroesIs
<1>6. /\ Unknown(Zeroes(HexDigits)) \in Seq(Printed \cup {ANY})
      /\ Len(Unknown(Zeroes(HexDigits))) = HexDigits
      /\ \A i \in 1..HexDigits : Unknown(Zeroes(HexDigits))[i] = ANY
  BY <1>2, <1>5 DEF Unknown
<1>7. Pad(item, num) \in Nat /\ Pad(item, num) + Size(item, num) = HexDigits
  <2>1. Width(item) = HexDigits /\ Size(item, num) \in Nat /\ Size(item, num) <= HexDigits
    BY <1>1, ShownIs DEF Width, Base
  <2>. QED
    BY <1>2, <2>1 DEF Pad
<1>8. /\ Zeroes(Pad(item, num)) \in Seq(Printed \cup {ANY}) /\ Len(Zeroes(Pad(item, num))) = Pad(item, num)
      /\ Shown(item, num, view) \in Seq(Printed \cup {ANY}) /\ Len(Shown(item, num, view)) = Size(item, num)
  <2>1. Zeroes(Pad(item, num)) \in Seq(Printed) /\ Len(Zeroes(Pad(item, num))) = Pad(item, num)
    BY <1>7, ZeroesIs
  <2>2. Shown(item, num, view) \in Seq(Printed \cup {ANY}) /\ Len(Shown(item, num, view)) = Size(item, num)
    BY ShownIs
  <2>. QED
    BY <2>1, <2>2
<1>9. PICK z, s, u : z = Zeroes(Pad(item, num)) /\ s = Shown(item, num, view) /\ u = Unknown(Zeroes(HexDigits))
  OBVIOUS
<1>10. z \o s \in Seq(Printed \cup {ANY}) /\ Len(z \o s) = HexDigits
  BY <1>7, <1>8, <1>9, JoinIs
<1>11. Weaker(u, z \o s) /\ u \in Seq(Printed \cup {ANY})
  BY <1>6, <1>9, <1>10 DEF Weaker
<1>12. Weaker(Lead(item) \o u, Lead(item) \o (z \o s)) /\ Lead(item) \o u \in Seq(Printed \cup {ANY})
  BY <1>4, <1>10, <1>11, WeakerJoin
<1>. QED
  BY <1>3, <1>4, <1>9, <1>12 DEF Whole

\* Nothing may be left out.
LEMMA EmptyJoin ==
  ASSUME NEW S, NEW s \in Seq(S)
  PROVE  <<>> \o s = s /\ s \o <<>> = s
OBVIOUS

\* A directive that shows no number puts just what is asked for.
LEMMA PieceOfOther ==
  ASSUME NEW item, WellFormed(item), item.directive, ~IsNumber(item), NEW num \in Word, NEW view \in {"text", "shape"}
  PROVE  Piece(item, view) = Whole(item, num, view)
<1>1. Pad(item, num) = 0
  <2>1. Width(item) = 0
    BY DEF Width, IsNumber, Numbers
  <2>2. Size(item, num) \in Nat
    BY ShownIs
  <2>. QED
    BY <2>1, <2>2 DEF Pad
<1>2. Zeroes(Pad(item, num)) = <<>>
  <2>1. Zeroes(0) \in Seq(Printed) /\ Len(Zeroes(0)) = 0
    BY ZeroesIs
  <2>. QED
    BY <1>1, <2>1
<1>3. Shown(item, num, view) \in Seq(Printed \cup {ANY}) /\ Lead(item) \in Seq(Printed)
  BY ShownIs, LeadIs
<1>4. Whole(item, num, view) = Lead(item) \o Shown(item, num, view)
  BY <1>2, <1>3, EmptyJoin DEF Whole
<1>5. CASE item.char = "s"
  <2>1. Piece(item, view) = item.args[1]
    BY <1>5 DEF Piece
  <2>2. Lead(item) = <<>> /\ Shown(item, num, view) = item.args[1]
    BY <1>5 DEF Lead, Shown, IsNumber
  <2>. QED
    BY <1>3, <1>4, <2>1, <2>2, EmptyJoin
<1>6. CASE item.char = "c"
  <2>1. Piece(item, view) = item.args[1]
    BY <1>6 DEF Piece
  <2>2. Lead(item) = item.args[1] /\ Shown(item, num, view) = <<>>
    BY <1>6 DEF Lead, Shown, IsNumber
  <2>. QED
    BY <1>3, <1>4, <2>1, <2>2, EmptyJoin
<1>7. CASE item.char = "%"
  <2>1. Piece(item, view) = <<"%">>
    BY <1>7 DEF Piece
  <2>2. Lead(item) = <<>> /\ Shown(item, num, view) = <<"%">>
    BY <1>7 DEF Lead, Shown, IsNumber
  <2>. QED
    BY <1>3, <1>4, <2>1, <2>2, EmptyJoin
<1>8. CASE item.char \notin {"s", "c", "%"}
  <2>1. Piece(item, view) = <<>>
    BY <1>8 DEF Piece, IsNumber, Numbers
  <2>2. Lead(item) = <<>> /\ Shown(item, num, view) = <<>>
    BY <1>8 DEF Lead, Shown, IsNumber, Numbers
  <2>. QED
    BY <1>3, <1>4, <2>1, <2>2, EmptyJoin
<1>. QED
  BY <1>5, <1>6, <1>7, <1>8

\* What is asked for is what the directive puts, or leaves more open.
LEMMA PieceIs ==
  ASSUME NEW item, WellFormed(item), item.directive, NEW num \in Word, NEW view \in {"text", "shape"},
         IsNumber(item) /\ item.args # <<>> => num = item.args[1]
  PROVE  Piece(item, view) \in Seq(Printed \cup {ANY}) /\ Weaker(Piece(item, view), Whole(item, num, view))
<1>1. Whole(item, num, view) \in Seq(Printed \cup {ANY})
  BY WholeIs
<1>2. Weaker(Whole(item, num, view), Whole(item, num, view))
  BY DEF Weaker
<1>3. CASE IsNumber(item) /\ item.args # <<>>
  BY <1>1, <1>2, <1>3, PieceOfNumber
<1>4. CASE IsNumber(item) /\ item.args = <<>>
  BY <1>4, PieceOfBare
<1>5. CASE ~IsNumber(item)
  BY <1>1, <1>2, <1>5, PieceOfOther
<1>. QED
  BY <1>3, <1>4, <1>5

-----------------------------------------------------------------------------
(* The text asked for. *)

\* What an item asks for is a sequence of characters.
LEMMA PieceType ==
  ASSUME NEW item, WellFormed(item), NEW view \in {"text", "shape"}
  PROVE  Piece(item, view) \in Seq(Printed \cup {ANY})
<1>1. CASE ~item.directive
  <2>1. Piece(item, view) = <<item.char>>
    BY <1>1 DEF Piece
  <2>2. item.char \in Alphabet /\ NUL \notin Alphabet
    BY FormatAssumption DEF WellFormed
  <2>3. item.char \in Printed
    BY <2>2 DEF Printed
  <2>. QED
    BY <2>1, <2>3
<1>2. CASE item.directive /\ IsNumber(item) /\ item.args # <<>>
  <2>1. item.args[1] \in Word
    BY <1>2, ArgumentIs DEF IsNumber
  <2>2. PICK num \in Word : num = item.args[1]
    BY <2>1
  <2>. QED
    BY <1>2, <2>2, PieceIs
<1>3. CASE item.directive /\ ~(IsNumber(item) /\ item.args # <<>>)
  <2>1. PICK num \in Word : TRUE
    BY WordIs
  <2>. QED
    BY <1>3, <2>1, PieceIs
<1>. QED
  BY <1>1, <1>2, <1>3

\* The text that is asked for goes on until the buffer is full.
LEMMA ToldIs ==
  ASSUME NEW m \in DOMAIN Messages, NEW view \in {"text", "shape"}
  PROVE  /\ Told(m, view, 0) = <<>>
         /\ \A k \in Nat : Told(m, view, k + 1) =
              IF Len(Told(m, view, k)) < BUFSZ THEN Told(m, view, k) \o Piece(Messages[m][k + 1], view)
              ELSE Told(m, view, k)
BY UptoIs DEF Told

\* It is made of what may be printed.
LEMMA ToldType ==
  ASSUME NEW m \in DOMAIN Messages, NEW view \in {"text", "shape"}, NEW k \in 0..Len(Messages[m])
  PROVE  Told(m, view, k) \in Seq(Printed \cup {ANY})
<1>. Len(Messages[m]) \in Nat
  BY MessagesAssumption
<1> DEFINE T == {n \in Nat : n <= Len(Messages[m]) /\ Told(m, view, n) \notin Seq(Printed \cup {ANY})}
<1> SUFFICES ASSUME T # {} PROVE FALSE
  OBVIOUS
<1>1. PICK n \in T : \A l \in T : n <= l
  BY LeastNat
<1>2. n # 0
  <2>1. <<>> \in Seq(Printed \cup {ANY})
    OBVIOUS
  <2>. QED
    BY <2>1, ToldIs
<1>3. PICK l \in Nat : n = l + 1 /\ l \notin T /\ n \in 1..Len(Messages[m])
  <2>1. n - 1 \in Nat /\ n = (n - 1) + 1 /\ n - 1 \notin T /\ n \in 1..Len(Messages[m])
    BY <1>1, <1>2
  <2>. QED
    BY <2>1
<1>4. Told(m, view, l) \in Seq(Printed \cup {ANY})
  BY <1>3
<1>5. Piece(Messages[m][n], view) \in Seq(Printed \cup {ANY})
  BY <1>3, ItemIs, PieceType
<1>6. Told(m, view, n) \in {Told(m, view, l), Told(m, view, l) \o Piece(Messages[m][n], view)}
  BY <1>3, ToldIs
<1>7. Told(m, view, l) \o Piece(Messages[m][n], view) \in Seq(Printed \cup {ANY})
  BY <1>4, <1>5
<1>. QED
  BY <1>4, <1>6, <1>7

\* Nothing is asked for behind a full buffer.
LEMMA ToldFull ==
  ASSUME NEW m \in DOMAIN Messages, NEW view \in {"text", "shape"}, NEW k \in 0..Len(Messages[m]),
         k = Len(Messages[m]) \/ ~(Len(Told(m, view, k)) < BUFSZ)
  PROVE  Reference(m, view) = Told(m, view, k)
<1>. Len(Messages[m]) \in Nat
  BY MessagesAssumption
<1>0. Reference(m, view) = Told(m, view, Len(Messages[m]))
  BY DEF Reference, Told
<1> DEFINE T == {n \in Nat : k <= n /\ n <= Len(Messages[m]) /\ Told(m, view, n) # Told(m, view, k)}
<1>1. CASE ~(Len(Told(m, view, k)) < BUFSZ)
  <2> SUFFICES ASSUME T # {} PROVE FALSE
    BY <1>0
  <2>1. PICK n \in T : \A l \in T : n <= l
    BY LeastNat
  <2>2. PICK l \in Nat : n = l + 1 /\ l \notin T /\ k <= l /\ l <= Len(Messages[m])
    <3>1. n - 1 \in Nat /\ n = (n - 1) + 1 /\ n - 1 \notin T /\ k <= n - 1 /\ n - 1 <= Len(Messages[m])
      BY <2>1
    <3>. QED
      BY <3>1
  <2>3. Told(m, view, l) = Told(m, view, k)
    BY <2>2
  <2>4. Told(m, view, n) = Told(m, view, l)
    BY <1>1, <2>2, <2>3, ToldIs
  <2>. QED
    BY <2>3, <2>4
<1>. QED
  BY <1>0, <1>1

-----------------------------------------------------------------------------
(* A call's buffer. *)

\* The bytes of a buffer are characters.
LEMMA StoreType ==
  ASSUME NEW call, call.buf \in [Place -> Character], NEW at \in Nat, NEW chars \in Seq(Character)
  PROVE  store(call, at, chars) \in [Place -> Character]
<1>1. ASSUME NEW i \in Place, i - at \in 0..(Len(chars) - 1) PROVE chars[i - at + 1] \in Character
  <2>1. i - at + 1 \in 1..Len(chars)
    BY <1>1 DEF Place
  <2>. QED
    BY <2>1
<1>. QED
  BY <1>1 DEF store

\* *ptr++ = ... for some characters, where that much is asked for.
LEMMA PutHolds ==
  ASSUME NEW buf \in [Place -> Character], NEW s \in Seq(Printed \cup {ANY}), Holds(buf, s),
         NEW chars \in Seq(Printed), NEW t \in Seq(Printed \cup {ANY}), Weaker(t, chars),
         Len(s) + Len(chars) <= BUFSZ + Slack + 1,
         NEW call, call.buf = buf, NEW new, new = store(call, Len(s), chars)
  PROVE  Holds(new, s \o t) /\ new \in [Place -> Character]
<1>. new = [i \in Place |-> IF i - Len(s) \in 0..(Len(chars) - 1) THEN chars[i - Len(s) + 1] ELSE buf[i]]
  BY DEF store
<1>0. BUFSZ \in Nat /\ Slack \in Nat
  BY FormatAssumption
<1>1. /\ Len(s \o t) = Len(s) + Len(t)
      /\ \A i \in 1..Len(s) : (s \o t)[i] = s[i]
      /\ \A i \in 1..Len(t) : (s \o t)[Len(s) + i] = t[i]
  BY JoinIs
<1>2. Len(t) = Len(chars) /\ Len(s) \in Nat /\ Len(t) \in Nat
  BY DEF Weaker
<1>3. ASSUME NEW i \in 1..Len(s \o t), (s \o t)[i] # ANY PROVE new[i - 1] = (s \o t)[i]
  <2>0. i - 1 \in Place
    BY <1>0, <1>1, <1>2 DEF Place
  <2>1. CASE i <= Len(s)
    <3>1. i \in 1..Len(s) /\ ~(i - 1 - Len(s) \in 0..(Len(chars) - 1))
      BY <1>2, <2>1
    <3>2. new[i - 1] = buf[i - 1] /\ (s \o t)[i] = s[i]
      BY <1>1, <2>0, <3>1
    <3>. QED
      BY <1>3, <3>1, <3>2 DEF Holds
  <2>2. CASE ~(i <= Len(s))
    <3>1. PICK j \in 1..Len(t) : i = Len(s) + j
      <4>1. i - Len(s) \in 1..Len(t) /\ i = Len(s) + (i - Len(s))
        BY <1>1, <1>2, <2>2
      <4>. QED
        BY <4>1
    <3>2. i - 1 - Len(s) = j - 1 /\ j - 1 \in 0..(Len(chars) - 1) /\ (i - 1) - Len(s) + 1 = j
      BY <1>2, <3>1
    <3>3. new[i - 1] = chars[j]
      BY <2>0, <3>2
    <3>4. (s \o t)[i] = t[j]
      BY <1>1, <3>1
    <3>5. j \in 1..Len(chars)
      BY <1>2
    <3>. QED
      BY <1>3, <3>3, <3>4, <3>5 DEF Weaker
  <2>. QED
    BY <2>1, <2>2
<1>4. ASSUME NEW j \in Place, j > Len(s \o t) PROVE new[j] = UNUSED
  <2>1. ~(j - Len(s) \in 0..(Len(chars) - 1)) /\ j > Len(s)
    BY <1>1, <1>2, <1>4 DEF Place
  <2>. QED
    BY <2>1 DEF Holds
<1>5. ASSUME NEW i \in Place PROVE new[i] \in Character
  <2>1. CASE i - Len(s) \in 0..(Len(chars) - 1)
    <3>1. i - Len(s) + 1 \in 1..Len(chars)
      BY <1>2, <2>1 DEF Place
    <3>2. chars[i - Len(s) + 1] \in Printed
      BY <3>1
    <3>. QED
      BY <2>1, <3>2, PrintedIs
  <2>2. CASE ~(i - Len(s) \in 0..(Len(chars) - 1))
    BY <2>2
  <2>. QED
    BY <2>1, <2>2
<1>6. new \in [Place -> Character]
  BY <1>5
<1>. QED
  BY <1>3, <1>4, <1>6 DEF Holds

\* A byte behind the text changes nothing of it.
LEMMA StoreHolds ==
  ASSUME NEW buf \in [Place -> Character], NEW s \in Seq(Printed \cup {ANY}), Holds(buf, s),
         Len(s) <= BUFSZ + Slack + 1,
         NEW ch \in Character, NEW call, call.buf = buf, NEW new, new = store(call, Len(s), <<ch>>)
  PROVE  Holds(new, s) /\ new \in [Place -> Character] /\ (Len(s) \in Place => new[Len(s)] = ch)
<1>. new = [i \in Place |-> IF i = Len(s) THEN ch ELSE buf[i]]
  <2>1. new = [i \in Place |-> IF i - Len(s) \in 0..(Len(<<ch>>) - 1) THEN <<ch>>[i - Len(s) + 1] ELSE buf[i]]
    BY DEF store
  <2>2. Len(<<ch>>) = 1 /\ <<ch>>[1] = ch /\ Len(s) \in Nat
    OBVIOUS
  <2>3. ASSUME NEW i \in Place PROVE new[i] = IF i = Len(s) THEN ch ELSE buf[i]
    <3>1. i \in Nat
      BY DEF Place
    <3>2. i - Len(s) \in 0..(Len(<<ch>>) - 1) <=> i = Len(s)
      BY <2>2, <3>1
    <3>3. i = Len(s) => i - Len(s) + 1 = 1
      BY <2>2, <3>1
    <3>. QED
      BY <2>1, <2>2, <3>2, <3>3
  <2>. QED
    BY <2>1, <2>3
<1>0. BUFSZ \in Nat /\ Slack \in Nat /\ Len(s) \in Nat
  BY FormatAssumption
<1>1. ASSUME NEW i \in 1..Len(s), s[i] # ANY PROVE new[i - 1] = s[i]
  <2>1. buf[i - 1] = s[i]
    BY <1>1 DEF Holds
  <2>2. i - 1 \in Place /\ i - 1 # Len(s)
    BY <1>0 DEF Place
  <2>. QED
    BY <2>1, <2>2
<1>. QED
  BY <1>1 DEF Holds

-----------------------------------------------------------------------------
(* The character and the argument a call reads next. *)

\* The characters of an item.
LEMMA CharIs ==
  ASSUME c \in CallType, NEW k \in Nat, k < Len(Messages[c.message]),
         NEW i \in 1..Len(Spelled(Messages[c.message][k + 1])), c.fmt = Len(Fmt(c.message, k)) + i
  PROVE  Char = Spelled(Messages[c.message][k + 1])[i]
<1>1. c.message \in DOMAIN Messages
  BY DEF CallType
<1>2. PICK m \in DOMAIN Messages : m = c.message
  BY <1>1
<1>3. LET spelled == Spelled(Messages[m][k + 1])
      IN  /\ Len(Fmt(m, k)) \in Nat /\ Len(Fmt(m, k + 1)) = Len(Fmt(m, k)) + Len(spelled)
          /\ Len(Fmt(m, k + 1)) <= Len(Format[m]) /\ Len(Format[m]) \in Nat
          /\ \A j \in 1..Len(spelled) : Format[m][Len(Fmt(m, k)) + j] = spelled[j]
  BY <1>2, CharsOfItem
<1>4. Len(Spelled(Messages[m][k + 1])) \in Nat
  <2>1. k + 1 \in 1..Len(Messages[m]) /\ Len(Messages[m]) \in Nat
    BY <1>2, MessagesAssumption
  <2>. QED
    BY <2>1, ItemIs, SpelledIs
<1>5. ~(c.fmt > Len(Format[c.message]))
  BY <1>2, <1>3, <1>4
<1>. QED
  BY <1>2, <1>3, <1>5 DEF Char

\* The end of a message.
LEMMA EndIs ==
  ASSUME c \in CallType, c.fmt = Len(Fmt(c.message, Len(Messages[c.message]))) + 1
  PROVE  Char = NUL
<1>1. PICK m \in DOMAIN Messages : m = c.message
  BY DEF CallType
<1>2. Format[m] = Fmt(m, Len(Messages[m])) /\ Len(Format[m]) \in Nat
  BY AllIs
<1>3. c.fmt > Len(Format[c.message])
  BY <1>1, <1>2
<1>. QED
  BY <1>3 DEF Char

\* In the loop, the first character of the next item.
LEMMA NextItem ==
  ASSUME c \in CallType, NEW k \in Nat, Behind(c, k), c.fmt = Len(Fmt(c.message, k)) + 1
  PROVE  /\ k <= Len(Messages[c.message]) /\ Len(Messages[c.message]) \in Nat
         /\ Char = NUL <=> k = Len(Messages[c.message])
         /\ k < Len(Messages[c.message]) =>
              LET item == Messages[c.message][k + 1]
              IN  WellFormed(item) /\ Char = IF item.directive THEN "%" ELSE item.char
<1>1. c.message \in DOMAIN Messages /\ Len(Messages[c.message]) \in Nat /\ k <= Len(Messages[c.message])
  BY MessagesAssumption DEF CallType, Behind
<1>2. CASE k = Len(Messages[c.message])
  BY <1>1, <1>2, EndIs
<1>3. CASE k < Len(Messages[c.message])
  <2>1. WellFormed(Messages[c.message][k + 1])
    BY <1>1, <1>3, ItemIs
  <2>2. PICK item : item = Messages[c.message][k + 1]
    OBVIOUS
  <2>3. 1 \in 1..Len(Spelled(item)) /\ Spelled(item)[1] = IF item.directive THEN "%" ELSE item.char
    <3>1. WellFormed(item) /\ item.directive \in BOOLEAN /\ item.zero \in BOOLEAN
      BY <2>1, <2>2, Zenon DEF WellFormed
    <3>2. CASE ~item.directive
      BY <3>1, <3>2, SpelledIs
    <3>3. CASE item.directive
      <4>1. Spelled(item)[1] = "%" /\ Len(Spelled(item)) \in {2, 3}
        BY <3>1, <3>3, SpelledIs
      <4>. QED
        BY <3>3, <4>1
    <3>. QED
      BY <3>2, <3>3, SMTT(30)
  <2>4. Char = Spelled(item)[1]
    BY <1>3, <2>2, <2>3, CharIs
  <2>5. Char # NUL
    <3>1. item.char \in Alphabet /\ NUL \notin Alphabet
      BY <2>1, <2>2, FormatAssumption DEF WellFormed
    <3>. QED
      BY <2>3, <2>4, <3>1, SMTT(30) DEF NUL
  <2>. QED
    BY <1>1, <1>3, <2>1, <2>2, <2>3, <2>4, <2>5
<1>. QED
  BY <1>1, <1>2, <1>3

\* An item without argument.
LEMMA NoArgument ==
  ASSUME c \in CallType, NEW k \in Nat, k < Len(Messages[c.message]), Behind(c, k),
         Messages[c.message][k + 1].args = <<>>,
         NEW w, w.message = c.message, w.ap = c.ap
  PROVE  Behind(w, k + 1)
<1>1. PICK m \in DOMAIN Messages : m = c.message
  BY DEF CallType
<1>2. Len(Messages[m]) \in Nat /\ k \in 0..Len(Messages[m]) /\ k + 1 \in 0..Len(Messages[m])
  BY <1>1, MessagesAssumption
<1>3. Args(m, k) \in Seq(Argument1) /\ Args(m, k + 1) = Args(m, k) \o <<>>
  BY <1>1, <1>2, PassedType, OneMore
<1>4. Args(m, k + 1) = Args(m, k)
  BY <1>3
<1>. QED
  BY <1>1, <1>2, <1>4 DEF Behind

\* An item with one, though not always.
LEMMA OneArgument ==
  ASSUME c \in CallType, NEW k \in Nat, k < Len(Messages[c.message]), Behind(c, k),
         Messages[c.message][k + 1].directive, Messages[c.message][k + 1].char \in Numbers \cup {"s", "c"},
         NEW arg \in Argument,
         NEW w, w.message = c.message, w.ap = c.ap + 1
  PROVE  /\ Behind(w, k + 1)
         /\ Messages[c.message][k + 1].args # <<>> => arg = Messages[c.message][k + 1].args[1]
         /\ Messages[c.message][k + 1].args = <<>> => arg \in Word
<1>1. PICK m \in DOMAIN Messages, ap \in Nat : m = c.message /\ ap = c.ap
  BY DEF CallType
<1>2. Len(Messages[m]) \in Nat /\ k \in 0..Len(Messages[m]) /\ k + 1 \in 1..Len(Messages[m])
  BY <1>1, MessagesAssumption
<1>3. Args(m, k) \in Seq(Argument1) /\ Len(Args(m, k)) \in Nat /\ Arguments[m] \in Seq(Argument1)
  BY <1>2, PassedType, AllIs
<1>4. ap = Len(Args(m, k)) + 1 \/ (ap > Len(Args(m, k)) /\ Args(m, k) = Arguments[m])
  BY <1>1 DEF Behind
<1>5. CASE Messages[m][k + 1].args # <<>>
  <2>1. /\ Len(Arguments[m]) \in Nat
        /\ Len(Args(m, k + 1)) = Len(Args(m, k)) + 1 /\ Len(Args(m, k)) + 1 <= Len(Arguments[m])
        /\ Arguments[m][Len(Args(m, k)) + 1] = Messages[m][k + 1].args[1]
    BY <1>1, <1>5, ArgOfItem
  <2>2. ap = Len(Args(m, k)) + 1
    BY <1>3, <1>4, <2>1
  <2>3. Argument = {Messages[m][k + 1].args[1]}
    BY <1>1, <2>1, <2>2 DEF Argument
  <2>4. Behind(w, k + 1)
    BY <1>1, <1>2, <2>1, <2>2 DEF Behind
  <2>. QED
    BY <1>1, <1>5, <2>3, <2>4
<1>6. CASE Messages[m][k + 1].args = <<>>
  <2>1. Messages[m][k + 1].char = "p"
    <3>1. WellFormed(Messages[m][k + 1])
      BY <1>2, ItemIs
    <3>. QED
      BY <1>1, <1>6, <3>1, ArgumentIs DEF Numbers
  <2>2. Args(m, k + 1) = Arguments[m] /\ Args(m, (k + 1) - 1) = Arguments[m]
    BY <1>1, <1>2, <1>6, <2>1, BareIsLast
  <2>3. Args(m, k) = Arguments[m]
    BY <2>2
  <2>4. ap > Len(Arguments[m])
    BY <1>3, <1>4, <2>3
  <2>5. Argument = Stray /\ Stray \subseteq Word
    <3>1. ~(c.ap <= Len(Arguments[c.message]))
      BY <1>1, <1>3, <2>3, <2>4
    <3>. QED
      BY <3>1, FormatAssumption DEF Argument
  <2>6. Behind(w, k + 1)
    BY <1>1, <1>2, <1>3, <2>2, <2>3, <2>4 DEF Behind
  <2>. QED
    BY <1>1, <1>6, <2>5, <2>6
<1>. QED
  BY <1>1, <1>5, <1>6

-----------------------------------------------------------------------------
(* The steps of the innermost call. *)

\* A character that stands for itself.
LEMMA literalKeeps ==
  ASSUME CallInv(c, buffer), c.pc = "loop", Char \notin {NUL, "%"}, Room,
         NEW w, w = [put(c, <<Char>>) EXCEPT !.fmt = @ + 1]
  PROVE  CallInv(w, buffer) /\ ~Wrote(w)
<1>1. c \in CallType
  BY DEF CallInv
<1>0. BUFSZ \in Nat \ {0} /\ Slack \in Nat
  BY FormatAssumption
<1>2. PICK k \in Nat : Written(c, k) /\ c.ptr <= BUFSZ + Slack /\ c.fmt = Len(Fmt(c.message, k)) + 1
  BY DEF CallInv, InLoop
<1>3. PICK m \in DOMAIN Messages : m = c.message
  BY <1>1 DEF CallType
<1>4. PICK item : item = Messages[m][k + 1]
  OBVIOUS
<1>5. k < Len(Messages[m]) /\ Len(Messages[m]) \in Nat /\ WellFormed(item) /\ ~item.directive /\ Char = item.char
  <2>1. Behind(c, k)
    BY <1>2 DEF Written
  <2>2. /\ k <= Len(Messages[m]) /\ Len(Messages[m]) \in Nat
        /\ Char = NUL <=> k = Len(Messages[m])
        /\ k < Len(Messages[m]) =>
              WellFormed(item) /\ Char = IF item.directive THEN "%" ELSE item.char
    BY <1>1, <1>2, <1>3, <1>4, <2>1, NextItem
  <2>. QED
    BY <2>2
<1>6. item.args = <<>> /\ item.char \in Alphabet /\ item.char \in Printed
  BY <1>5, FormatAssumption DEF WellFormed, Printed
<1>7. c.ptr < BUFSZ /\ c.ptr \in Nat /\ c.fmt \in Nat /\ c.copied = 0 /\ c.buf \in [Place -> Character]
  BY <1>1, <1>2 DEF Room, CallType, Written
<1>8. PICK chars \in Seq(Printed) : chars = <<Char>> /\ Len(chars) = 1
  <2>1. PICK ch \in Printed : ch = Char
    BY <1>5, <1>6
  <2>2. <<ch>> \in Seq(Printed) /\ Len(<<ch>>) = 1
    OBVIOUS
  <2>. QED
    BY <2>1, <2>2
<1>9. PICK ptr, fmt, buf : ptr \in Nat /\ fmt \in Nat /\ ptr = c.ptr + 1 /\ fmt = c.fmt + 1 /\ buf = store(c, c.ptr, chars)
  BY <1>7
<1>10. w = [c EXCEPT !.ptr = ptr, !.buf = buf, !.fmt = fmt]
  BY <1>1, <1>8, <1>9 DEF put, CallType
<1>11. /\ w.message = c.message /\ w.ap = c.ap /\ w.pc = "loop" /\ w.copied = 0 /\ w.overwritten = c.overwritten
       /\ w.ptr = ptr /\ w.fmt = fmt /\ w.buf = buf
  BY <1>1, <1>7, <1>10 DEF CallType
<1>12. Promised(w) = Promised(c)
  BY <1>11 DEF Promised
<1>13. Behind(w, k + 1)
  BY <1>1, <1>2, <1>3, <1>4, <1>5, <1>6, <1>11, NoArgument DEF Written
<1>14. fmt = Len(Fmt(m, k + 1)) + 1
  <2>1. Len(Spelled(item)) = 1
    BY <1>5, SpelledIs
  <2>2. Len(Fmt(m, k)) \in Nat /\ Len(Fmt(m, k + 1)) = Len(Fmt(m, k)) + 1
    BY <1>4, <1>5, <2>1, CharsOfItem
  <2>. QED
    BY <1>2, <1>3, <1>9, <2>2
<1>15. ASSUME NEW view \in Promised(c)
       PROVE  Holds(buf, Told(m, view, k + 1)) /\ ptr = Len(Told(m, view, k + 1))
  <2>1. view \in {"text", "shape"}
    BY DEF Promised
  <2>2. PICK s \in Seq(Printed \cup {ANY}) : s = Told(m, view, k)
    BY <1>5, <2>1, ToldType
  <2>3. Holds(c.buf, s) /\ c.ptr = Len(s)
    BY <1>2, <1>3, <2>2 DEF Written
  <2>4. Told(m, view, k + 1) = s \o <<Char>>
    <3>1. Piece(item, view) = <<Char>>
      BY <1>5 DEF Piece
    <3>. QED
      <4>1. Told(m, view, k + 1) = IF Len(Told(m, view, k)) < BUFSZ
                                   THEN Told(m, view, k) \o Piece(Messages[m][k + 1], view) ELSE Told(m, view, k)
        BY <2>1, ToldIs
      <4>2. Len(Told(m, view, k)) < BUFSZ
        BY <1>7, <2>2, <2>3
      <4>. QED
        BY <1>4, <2>2, <3>1, <4>1, <4>2
  <2>5. chars \in Seq(Printed \cup {ANY}) /\ Weaker(chars, chars)
    BY DEF Weaker
  <2>6. Len(s) + Len(chars) <= BUFSZ + Slack + 1
    BY <1>0, <1>7, <1>8, <2>3
  <2>7. Holds(buf, s \o chars)
    BY <1>7, <1>9, <2>3, <2>5, <2>6, PutHolds
  <2>8. Len(s \o chars) = Len(s) + 1
    BY <1>8, <2>5, JoinIs
  <2>. QED
    BY <1>8, <1>9, <2>3, <2>4, <2>7, <2>8
<1>16. buf \in [Place -> Character]
  <2>1. chars \in Seq(Character)
    BY PrintedIs
  <2>. QED
    BY <1>7, <1>9, <2>1, StoreType
<1>17. w \in CallType
  BY <1>1, <1>9, <1>10, <1>16, ZenonT(40) DEF CallType
<1>18. Written(w, k + 1)
  BY <1>3, <1>11, <1>12, <1>13, <1>15 DEF Written
<1>19. InLoop(w)
  <2>1. k + 1 \in Nat /\ ptr <= BUFSZ + Slack
    BY <1>0, <1>7, <1>9
  <2>. QED
    BY <1>3, <1>11, <1>14, <1>18, <2>1 DEF InLoop
<1>. QED
  BY <1>11, <1>17, <1>19 DEF CallInv, Wrote

\* The % of a directive.
LEMMA directiveKeeps ==
  ASSUME CallInv(c, buffer), c.pc = "loop", Char = "%", Room,
         NEW w, w = [c EXCEPT !.pc = "switch", !.fmt = @ + 1, !.zeroes = FALSE, !.fill = 0]
  PROVE  CallInv(w, buffer) /\ ~Wrote(w)
<1>1. c \in CallType
  BY DEF CallInv
<1>2. PICK k \in Nat : Written(c, k) /\ c.fmt = Len(Fmt(c.message, k)) + 1
  BY DEF CallInv, InLoop
<1>3. PICK m \in DOMAIN Messages : m = c.message
  BY <1>1 DEF CallType
<1>4. PICK item : item = Messages[m][k + 1]
  OBVIOUS
<1>5. k < Len(Messages[m]) /\ Len(Messages[m]) \in Nat /\ item.directive
  <2>1. Behind(c, k)
    BY <1>2 DEF Written
  <2>2. /\ k <= Len(Messages[m]) /\ Len(Messages[m]) \in Nat
        /\ Char = NUL <=> k = Len(Messages[m])
        /\ k < Len(Messages[m]) =>
              WellFormed(item) /\ Char = IF item.directive THEN "%" ELSE item.char
    BY <1>1, <1>2, <1>3, <1>4, <2>1, NextItem
  <2>. QED
    BY <2>2 DEF NUL, WellFormed
<1>6. c.ptr < BUFSZ /\ c.fmt \in Nat
  BY <1>1 DEF Room, CallType
<1>7. PICK fmt \in Nat : fmt = c.fmt + 1
  BY <1>6
<1>8. w = [c EXCEPT !.pc = "switch", !.fmt = fmt, !.zeroes = FALSE, !.fill = 0]
  BY <1>1, <1>7 DEF CallType
<1>9. /\ w \in CallType
      /\ w.message = c.message /\ w.ap = c.ap /\ w.pc = "switch" /\ w.copied = c.copied /\ w.overwritten = c.overwritten
      /\ w.ptr = c.ptr /\ w.fmt = fmt /\ w.buf = c.buf /\ w.zeroes = FALSE /\ w.fill = 0
  <2>1. w \in CallType
    <3>1. PICK no \in BOOLEAN, n \in Nat : no = FALSE /\ n = 0
      OBVIOUS
    <3>2. w = [c EXCEPT !.pc = "switch", !.fmt = fmt, !.zeroes = no, !.fill = n]
      BY <1>8, <3>1
    <3>. QED
      BY <1>1, <3>2, ZenonT(40) DEF CallType
  <2>2. /\ w.message = c.message /\ w.ap = c.ap /\ w.pc = "switch" /\ w.copied = c.copied /\ w.overwritten = c.overwritten
        /\ w.ptr = c.ptr /\ w.fmt = fmt /\ w.buf = c.buf /\ w.zeroes = FALSE /\ w.fill = 0
    BY <1>1, <1>8 DEF CallType
  <2>. QED
    BY <2>1, <2>2
<1>10. Promised(w) = Promised(c) /\ Behind(w, k)
  BY <1>2, <1>9 DEF Promised, Behind, Written
<1>11. Written(w, k)
  BY <1>2, <1>9, <1>10 DEF Written
<1>12. Len(Fmt(m, k)) \in Nat
  BY <1>5, CharsOfItem
<1>13. fmt = Len(Fmt(m, k)) + 2
  BY <1>2, <1>3, <1>7, <1>12
<1>14. InSwitch(w)
  BY <1>3, <1>4, <1>5, <1>6, <1>9, <1>11, <1>13 DEF InSwitch
<1>. QED
  BY <1>9, <1>14 DEF CallInv, Wrote

\* The end of kvsnprintf: at the end of the message or of the buffer.
LEMMA terminateKeeps ==
  ASSUME CallInv(c, buffer), c.pc = "loop", Char = NUL \/ ~Room,
         NEW w, w = [c EXCEPT !.buf = store(c, c.ptr, <<NUL>>), !.pc = "write"]
  PROVE  CallInv(w, buffer) /\ ~Wrote(w)
<1>1. c \in CallType
  BY DEF CallInv
<1>0. BUFSZ \in Nat \ {0} /\ Slack \in Nat
  BY FormatAssumption
<1>2. PICK k \in Nat : Written(c, k) /\ c.ptr <= BUFSZ + Slack /\ c.fmt = Len(Fmt(c.message, k)) + 1
  BY DEF CallInv, InLoop
<1>3. PICK m \in DOMAIN Messages : m = c.message
  BY <1>1 DEF CallType
<1>4. k \in 0..Len(Messages[m]) /\ (Char = NUL => k = Len(Messages[m]))
  <2>1. Behind(c, k)
    BY <1>2 DEF Written
  <2>2. /\ k <= Len(Messages[m]) /\ Len(Messages[m]) \in Nat
        /\ Char = NUL <=> k = Len(Messages[m])
    BY <1>1, <1>2, <1>3, <2>1, NextItem
  <2>. QED
    BY <2>2
<1>5. c.ptr \in Nat /\ c.buf \in [Place -> Character] /\ c.copied = 0
  BY <1>1, <1>2 DEF CallType, Written
<1>6. NUL \in Character /\ <<NUL>> \in Seq(Character)
  BY PrintedIs
<1>7. PICK buf \in [Place -> Character] : buf = store(c, c.ptr, <<NUL>>)
  BY <1>5, <1>6, StoreType
<1>8. w = [c EXCEPT !.buf = buf, !.pc = "write"]
  BY <1>1, <1>7 DEF CallType
<1>9. /\ w \in CallType
      /\ w.message = c.message /\ w.pc = "write" /\ w.copied = 0 /\ w.overwritten = c.overwritten
      /\ w.ptr = c.ptr /\ w.fmt = c.fmt /\ w.buf = buf
  <2>1. w \in CallType
    BY <1>1, <1>8 DEF CallType
  <2>2. /\ w.message = c.message /\ w.pc = "write" /\ w.copied = 0 /\ w.overwritten = c.overwritten
        /\ w.ptr = c.ptr /\ w.fmt = c.fmt /\ w.buf = buf
    BY <1>1, <1>5, <1>8 DEF CallType
  <2>. QED
    BY <2>1, <2>2
<1>10. Promised(w) = Promised(c)
  BY <1>9 DEF Promised
<1>11. ASSUME NEW view \in Promised(c) PROVE Matches(w, Reference(m, view))
  <2>1. view \in {"text", "shape"}
    BY DEF Promised
  <2>2. PICK s \in Seq(Printed \cup {ANY}) : s = Told(m, view, k)
    BY <1>4, <2>1, ToldType
  <2>3. Holds(c.buf, s) /\ c.ptr = Len(s)
    BY <1>2, <1>3, <2>2 DEF Written
  <2>4. Reference(m, view) = s
    <3>1. k = Len(Messages[m]) \/ ~(Len(Told(m, view, k)) < BUFSZ)
      BY <1>4, <2>2, <2>3 DEF Room
    <3>. QED
      BY <1>4, <2>1, <2>2, <3>1, ToldFull
  <2>5. Len(s) \in Place /\ Len(s) <= BUFSZ + Slack + 1
    BY <1>0, <1>2, <1>5, <2>3 DEF Place
  <2>6. Holds(buf, s) /\ buf[Len(s)] = NUL
    BY <1>5, <1>6, <1>7, <2>3, <2>5, StoreHolds
  <2>7. DOMAIN s = 1..Len(s)
    OBVIOUS
  <2>8. \A j \in (Len(s) + 1)..(BUFSZ + Slack) : j \in Place /\ j > Len(s)
    BY <1>0, <2>5 DEF Place
  <2>. QED
    BY <1>9, <2>3, <2>4, <2>6, <2>7, <2>8 DEF Matches, Holds
<1>12. c.fmt <= Len(Format[m]) + 1 /\ c.fmt # 0
  <2>1. Starts(Fmt(m, k), Format[m])
    BY <1>4, AllStarts
  <2>2. Len(Fmt(m, k)) \in Nat /\ Len(Format[m]) \in Nat
    BY <1>4, PassedType, AllIs
  <2>. QED
    BY <1>2, <1>3, <2>1, <2>2 DEF Starts
<1>13. w.ptr + w.copied <= BUFSZ + Slack
  BY <1>2, <1>5, <1>9
<1>. QED
  BY <1>3, <1>9, <1>10, <1>11, <1>12, <1>13 DEF CallInv, Wrote

\* The character after the %, and after the flag.
LEMMA SwitchIs ==
  ASSUME CallInv(c, buffer), c.pc = "switch"
  PROVE  \E k \in Nat :
           LET item == Messages[c.message][k + 1]
           IN  /\ Written(c, k) /\ k < Len(Messages[c.message]) /\ c.ptr < BUFSZ /\ c.fill = 0
               /\ WellFormed(item) /\ item.directive
               /\ Char = "0" => /\ item.zero /\ ~c.zeroes
                                /\ c.fmt + 1 = Len(Fmt(c.message, k)) + 3
               /\ Char # "0" => /\ Char = item.char /\ c.zeroes = item.zero
                                /\ c.fmt = Len(Fmt(c.message, k + 1))
<1>1. c \in CallType
  BY DEF CallInv
<1>2. PICK k \in Nat :
        /\ Written(c, k) /\ c.ptr < BUFSZ /\ c.fill = 0 /\ k < Len(Messages[c.message])
        /\ Messages[c.message][k + 1].directive /\ (c.zeroes => Messages[c.message][k + 1].zero)
        /\ c.fmt = Len(Fmt(c.message, k)) + (IF c.zeroes THEN 3 ELSE 2)
  BY DEF CallInv, InSwitch
<1>3. PICK m, item : m \in DOMAIN Messages /\ m = c.message /\ item = Messages[m][k + 1]
  BY <1>1 DEF CallType
<1>4. Len(Messages[m]) \in Nat /\ k + 1 \in 1..Len(Messages[m])
  BY <1>2, <1>3, MessagesAssumption
<1>5. WellFormed(item) /\ item.directive /\ item.zero \in BOOLEAN /\ item.char # "0"
  BY <1>2, <1>3, <1>4, ItemIs, ZenonT(40) DEF WellFormed
<1>6. c.zeroes \in BOOLEAN /\ c.fmt \in Nat
  BY <1>1 DEF CallType
<1>7. Len(Fmt(m, k)) \in Nat /\ Len(Fmt(m, k + 1)) = Len(Fmt(m, k)) + Len(Spelled(item))
  BY <1>2, <1>3, CharsOfItem
<1>8. CASE c.zeroes
  <2>1. Len(Spelled(item)) = 3 /\ Spelled(item)[3] = item.char
    BY <1>2, <1>3, <1>5, <1>8, SpelledIs
  <2>2. c.fmt = Len(Fmt(m, k)) + 3
    BY <1>2, <1>3, <1>8
  <2>3. 3 \in 1..Len(Spelled(item))
    BY <2>1
  <2>4. Char = item.char
    BY <1>1, <1>2, <1>3, <2>1, <2>2, <2>3, CharIs
  <2>5. c.fmt = Len(Fmt(m, k + 1)) /\ item.zero
    BY <1>2, <1>3, <1>7, <1>8, <2>1, <2>2
  <2>6. c.zeroes = item.zero
    BY <1>5, <1>6, <1>8, <2>5
  <2>. QED
    BY <1>2, <1>3, <1>5, <2>4, <2>5, <2>6
<1>9. CASE ~c.zeroes /\ item.zero
  <2>1. Len(Spelled(item)) = 3 /\ Spelled(item)[2] = "0"
    BY <1>5, <1>9, SpelledIs
  <2>2. c.fmt = Len(Fmt(m, k)) + 2
    BY <1>2, <1>3, <1>9
  <2>3. 2 \in 1..Len(Spelled(item))
    BY <2>1
  <2>4. Char = "0"
    BY <1>1, <1>2, <1>3, <2>1, <2>2, <2>3, CharIs
  <2>5. c.fmt + 1 = Len(Fmt(m, k)) + 3
    BY <1>7, <2>2
  <2>. QED
    BY <1>2, <1>3, <1>5, <1>9, <2>4, <2>5
<1>10. CASE ~c.zeroes /\ ~item.zero
  <2>1. Len(Spelled(item)) = 2 /\ Spelled(item)[2] = item.char
    BY <1>5, <1>10, SpelledIs
  <2>2. c.fmt = Len(Fmt(m, k)) + 2
    BY <1>2, <1>3, <1>10
  <2>3. 2 \in 1..Len(Spelled(item))
    BY <2>1
  <2>4. Char = item.char
    BY <1>1, <1>2, <1>3, <2>1, <2>2, <2>3, CharIs
  <2>5. c.fmt = Len(Fmt(m, k + 1))
    BY <1>7, <2>1, <2>2
  <2>6. c.zeroes = item.zero
    BY <1>5, <1>6, <1>10
  <2>. QED
    BY <1>2, <1>3, <1>5, <2>4, <2>5, <2>6
<1>. QED
  BY <1>8, <1>9, <1>10

\* The flag.
LEMMA flagKeeps ==
  ASSUME CallInv(c, buffer), c.pc = "switch", Char = "0", NEW w, w = flag
  PROVE  CallInv(w, buffer) /\ ~Wrote(w)
<1>1. c \in CallType
  BY DEF CallInv
<1>2. PICK k \in Nat :
        /\ Written(c, k) /\ k < Len(Messages[c.message]) /\ c.ptr < BUFSZ /\ c.fill = 0
        /\ Messages[c.message][k + 1].directive /\ Messages[c.message][k + 1].zero
        /\ c.fmt + 1 = Len(Fmt(c.message, k)) + 3
  BY SwitchIs
<1>3. PICK fmt \in Nat, yes \in BOOLEAN : fmt = c.fmt + 1 /\ yes = TRUE
  <2>1. PICK fmt \in Nat : fmt = c.fmt + 1
    BY <1>1 DEF CallType
  <2>2. PICK yes \in BOOLEAN : yes = TRUE
    OBVIOUS
  <2>. QED
    BY <2>1, <2>2
<1>4. w = [c EXCEPT !.zeroes = yes, !.fmt = fmt]
  BY <1>1, <1>3 DEF flag, CallType
<1>5. w \in CallType
  BY <1>1, <1>4 DEF CallType
<1>6. /\ w.message = c.message /\ w.ap = c.ap /\ w.pc = "switch" /\ w.copied = c.copied /\ w.overwritten = c.overwritten
      /\ w.ptr = c.ptr /\ w.fmt = fmt /\ w.buf = c.buf /\ w.fill = c.fill
  BY <1>1, <1>4 DEF CallType
<1>7. w.zeroes
  BY <1>1, <1>3, <1>4 DEF CallType
<1>8. Promised(w) = Promised(c) /\ Behind(w, k)
  BY <1>2, <1>6 DEF Promised, Behind, Written
<1>9. Written(w, k)
  BY <1>2, <1>6, <1>8 DEF Written
<1>10. InSwitch(w)
  BY <1>2, <1>3, <1>6, <1>7, <1>9 DEF InSwitch
<1>. QED
  BY <1>5, <1>6, <1>10 DEF CallInv, Wrote

\* The first step of a directive.
LEMMA Begun ==
  ASSUME c \in CallType, NEW k \in Nat, Written(c, k), k < Len(Messages[c.message]), c.ptr < BUFSZ,
         NEW item, item = Messages[c.message][k + 1], item.directive,
         NEW num \in Word, NEW w \in CallType,
         w.message = c.message, w.overwritten = c.overwritten, Behind(w, k + 1),
         w.fmt = Len(Fmt(c.message, k + 1)), w.copied = 0,
         w.ptr = c.ptr + Len(Lead(item)), w.buf = store(c, c.ptr, Lead(item)),
         Width(item) = IF w.zeroes THEN w.fill ELSE 0,
         \/ IsNumber(item) /\ w.pc = "utoa" /\ Converted(w, buffer, item, num)
         \/ ~IsNumber(item) /\ w.pc = "fill" /\ ~w.text.static /\ w.text.chars = Shown(item, num, "text")
  PROVE  CallInv(w, buffer)
<1>0. BUFSZ \in Nat \ {0} /\ Slack \in Nat
  BY FormatAssumption
<1>1. PICK m \in DOMAIN Messages : m = c.message
  BY DEF CallType
<1>2. Len(Messages[m]) \in Nat /\ k \in 0..Len(Messages[m]) /\ k + 1 \in 1..Len(Messages[m]) /\ WellFormed(item)
  BY <1>1, MessagesAssumption
<1>3. Lead(item) \in Seq(Printed) /\ Len(Lead(item)) \in Nat /\ Len(Lead(item)) <= Slack + 1
  <2>1. Pad(item, num) \in Nat /\ Size(item, num) \in Nat /\ Len(Lead(item)) \in Nat
        /\ Len(Lead(item)) + Pad(item, num) + Size(item, num) <= Slack + 1
    BY <1>2, WidthIs, ShownIs
  <2>. QED
    BY <1>0, <1>2, <2>1, LeadIs, SMTT(30)
<1>4. PICK start \in Nat : start = c.ptr
  BY DEF CallType
<1>5. ASSUME NEW view \in Promised(w)
      PROVE  LET before == Told(m, view, (k + 1) - 1)
             IN  start = Len(before) /\ Holds(w.buf, before \o Put(w, item, num, view))
  <2>1. view \in {"text", "shape"} /\ view \in Promised(c)
    BY DEF Promised
  <2>2. PICK s \in Seq(Printed \cup {ANY}) : s = Told(m, view, k)
    BY <1>2, <2>1, ToldType
  <2>3. Holds(c.buf, s) /\ start = Len(s)
    BY <1>1, <1>4, <2>1, <2>2 DEF Written
  <2>4. Put(w, item, num, view) = Lead(item)
    BY DEF Put
  <2>5. PICK chars \in Seq(Printed) : chars = Lead(item)
    BY <1>3
  <2>6. chars \in Seq(Printed \cup {ANY}) /\ Weaker(chars, chars)
    BY DEF Weaker
  <2>7. Len(s) + Len(chars) <= BUFSZ + Slack + 1
    BY <1>0, <1>3, <1>4, <2>3, <2>5
  <2>8. c.buf \in [Place -> Character]
    BY DEF CallType
  <2>9. Holds(w.buf, s \o chars)
    <3>1. w.buf = store(c, Len(s), chars)
      BY <1>4, <2>3, <2>5
    <3>2. PICK buf, new : buf = c.buf /\ new = w.buf
      OBVIOUS
    <3>. QED
      BY <2>3, <2>6, <2>7, <2>8, <3>1, <3>2, PutHolds
  <2>10. (k + 1) - 1 = k
    OBVIOUS
  <2>. QED
    BY <2>2, <2>3, <2>4, <2>5, <2>9, <2>10
<1>6. InItem(w, buffer, k + 1, num, start)
  BY <1>1, <1>2, <1>4, <1>5 DEF InItem
<1>7. k + 1 \in Nat
  OBVIOUS
<1>8. \E l \in Nat, n \in Word, at \in Nat : InItem(w, buffer, l, n, at)
  BY <1>4, <1>6, <1>7
<1>9. w.pc \notin {"loop", "switch", "write"}
  OBVIOUS
<1>. QED
  BY <1>8, <1>9 DEF CallInv

\* Storing nothing.
LEMMA StoreNothing ==
  ASSUME NEW call, call.buf \in [Place -> Character], NEW at \in Nat
  PROVE  store(call, at, <<>>) = call.buf
<1>1. ASSUME NEW i \in Place PROVE ~(i - at \in 0..(Len(<<>>) - 1))
  BY DEF Place
<1>. QED
  BY <1>1 DEF store

\* The first step of a conversion.
LEMMA ConvertedFirst ==
  ASSUME NEW w, NEW b, NEW item, NEW num \in Word, WellFormed(item), item.directive, IsNumber(item),
         w.pc = "utoa", w.digit = 14, w.value = num, w.base = Base(item),
         w.neg => item.char = "d" /\ Signed(w.message),
         ~w.neg /\ item.args # <<>> => num = item.args[1]
  PROVE  Converted(w, b, item, num)
<1>1. Places(item, num) \in 1..DecimalDigits /\ Base(item) \in {10, 16}
  BY ShownIs
<1>2. Power[<<Base(item), 0>>] = 1
  BY <1>1, PowerIs
<1>3. 14 - w.digit = 0 /\ num \div 1 = num /\ 0 <= Places(item, num)
  BY <1>1, WordIs
<1>4. Stored(w, b, item, num, 0)
  BY DEF Stored
<1>. QED
  BY <1>2, <1>3, <1>4 DEF Converted

\* A call that begins the conversion of a number.
Conversion(x, ptr, buf, zeroes, width, ap, value, base, neg) ==
  [x EXCEPT !.ptr = ptr, !.buf = buf, !.zeroes = zeroes, !.fill = width,
            !.pc = "utoa", !.ap = ap, !.value = value, !.base = base, !.neg = neg, !.digit = 14]

\* It is a call.
LEMMA ConversionType ==
  ASSUME NEW x \in CallType, NEW ptr \in Nat, NEW buf \in [Place -> Character], NEW zeroes \in BOOLEAN, NEW width \in Nat,
         NEW ap \in Nat, NEW value \in Word, NEW base \in {10, 16}, NEW neg \in BOOLEAN
  PROVE  Conversion(x, ptr, buf, zeroes, width, ap, value, base, neg) \in CallType
<1>1. PICK y : y = [x EXCEPT !.ptr = ptr, !.buf = buf, !.zeroes = zeroes, !.fill = width]
  OBVIOUS
<1>2. y \in CallType
  BY <1>1 DEF CallType
<1>3. PICK d \in 0..14 : d = 14
  OBVIOUS
<1>4. PICK z : z = [y EXCEPT !.pc = "utoa", !.ap = ap, !.value = value]
  OBVIOUS
<1>5. z \in CallType
  BY <1>2, <1>4 DEF CallType
<1>6. PICK u : u = [z EXCEPT !.base = base, !.neg = neg, !.digit = d]
  OBVIOUS
<1>7. u \in CallType
  BY <1>5, <1>6 DEF CallType
<1>8. Conversion(x, ptr, buf, zeroes, width, ap, value, base, neg) = u
  BY <1>1, <1>3, <1>4, <1>6 DEF Conversion
<1>. QED
  BY <1>7, <1>8

\* Its fields.
LEMMA ConversionFields ==
  ASSUME NEW x \in CallType, NEW ptr, NEW buf, NEW zeroes \in BOOLEAN, NEW width,
         NEW ap, NEW value, NEW base, NEW neg \in BOOLEAN,
         NEW w, w = Conversion(x, ptr, buf, zeroes, width, ap, value, base, neg)
  PROVE  /\ w.message = x.message /\ w.fmt = x.fmt /\ w.copied = x.copied /\ w.overwritten = x.overwritten
         /\ w.ptr = ptr /\ w.buf = buf /\ w.fill = width /\ w.pc = "utoa" /\ w.ap = ap
         /\ w.value = value /\ w.base = base /\ w.digit = 14
<1>1. w = [x EXCEPT !.ptr = ptr, !.buf = buf, !.zeroes = zeroes, !.fill = width,
                    !.pc = "utoa", !.ap = ap, !.value = value, !.base = base, !.neg = neg, !.digit = 14]
  BY DEF Conversion
<1>. QED
  BY <1>1 DEF CallType

\* Its flags.
LEMMA ConversionFlags ==
  ASSUME NEW x \in CallType, NEW ptr, NEW buf, NEW zeroes \in BOOLEAN, NEW width,
         NEW ap, NEW value, NEW base, NEW neg \in BOOLEAN,
         NEW w, w = Conversion(x, ptr, buf, zeroes, width, ap, value, base, neg)
  PROVE  (w.zeroes <=> zeroes) /\ (w.neg <=> neg)
<1>1. w = [x EXCEPT !.ptr = ptr, !.buf = buf, !.zeroes = zeroes, !.fill = width,
                    !.pc = "utoa", !.ap = ap, !.value = value, !.base = base, !.neg = neg, !.digit = 14]
  BY DEF Conversion
<1>2. w.zeroes = zeroes
  BY <1>1, ZenonT(40) DEF CallType
<1>3. w.neg = neg
  BY <1>1, Zenon DEF CallType
<1>. QED
  BY <1>2, <1>3

\* The directive of a number begins its conversion.
LEMMA NumberBegun ==
  ASSUME CallInv(c, buffer), NEW k \in Nat, Written(c, k), k < Len(Messages[c.message]), c.ptr < BUFSZ,
         NEW item, item = Messages[c.message][k + 1], WellFormed(item), item.directive, IsNumber(item),
         c.fmt = Len(Fmt(c.message, k + 1)),
         NEW num \in Word, NEW zeroes \in BOOLEAN, NEW width \in Nat, NEW neg \in BOOLEAN,
         \A x : x.message = c.message /\ x.ap = c.ap + 1 => Behind(x, k + 1),
         Width(item) = IF zeroes THEN width ELSE 0,
         neg => item.char = "d" /\ Signed(c.message),
         ~neg /\ item.args # <<>> => num = item.args[1],
         NEW base, base = Base(item),
         NEW ptr, ptr = c.ptr + Len(Lead(item)), NEW buf, buf = store(c, c.ptr, Lead(item)), NEW ap, ap = c.ap + 1,
         NEW w, w = Conversion(c, ptr, buf, zeroes, width, ap, num, base, neg)
  PROVE  CallInv(w, buffer) /\ ~Wrote(w)
<1>1. c \in CallType /\ c.copied = 0
  BY DEF CallInv, Written
<1>2. buf \in [Place -> Character]
  <2>1. Lead(item) \in Seq(Character)
    BY LeadIs, PrintedIs
  <2>2. c.ptr \in Nat /\ c.buf \in [Place -> Character]
    BY <1>1 DEF CallType
  <2>. QED
    BY <2>1, <2>2, StoreType
<1>3. base \in {10, 16}
  BY DEF Base
<1>4. ptr \in Nat /\ ap \in Nat
  <2>1. c.ptr \in Nat /\ c.ap \in Nat /\ Len(Lead(item)) \in Nat
    BY <1>1, LeadIs DEF CallType
  <2>. QED
    BY <2>1, SMTT(30)
<1>6. w \in CallType
  <2>1. width \in Nat /\ num \in Word /\ zeroes \in BOOLEAN /\ neg \in BOOLEAN
    OBVIOUS
  <2>2. Conversion(c, ptr, buf, zeroes, width, ap, num, base, neg) \in CallType
    BY ONLY <1>1, <1>2, <1>3, <1>4, <2>1, ConversionType
  <2>. QED
    BY <2>2
<1>7. /\ w.message = c.message /\ w.fmt = c.fmt /\ w.copied = c.copied /\ w.overwritten = c.overwritten
      /\ w.ptr = ptr /\ w.buf = buf /\ w.fill = width /\ w.pc = "utoa" /\ w.ap = ap
      /\ w.value = num /\ w.base = base /\ w.digit = 14
  BY <1>1, ConversionFields, SMTT(30)
<1>8. (w.zeroes <=> zeroes) /\ (w.neg <=> neg)
  BY <1>1, ConversionFlags
<1>9. Width(item) = IF w.zeroes THEN w.fill ELSE 0
  BY <1>7, <1>8
<1>10. Converted(w, buffer, item, num)
  <2>1. /\ w.neg => item.char = "d" /\ Signed(w.message)
        /\ ~w.neg /\ item.args # <<>> => num = item.args[1]
    BY <1>7, <1>8, SMTT(30)
  <2>. QED
    <3>1. num \in Word /\ WellFormed(item) /\ item.directive /\ IsNumber(item) /\ base = Base(item)
      BY SMTT(30)
    <3>2. w.pc = "utoa" /\ w.digit = 14 /\ w.value = num /\ w.base = base
      BY <1>7, SMTT(30)
    <3>. QED
      BY ONLY <2>1, <3>1, <3>2, ConvertedFirst
<1>11. Behind(w, k + 1)
  BY <1>4, <1>7
<1>12. CallInv(w, buffer)
  <2>1. /\ k \in Nat /\ Written(c, k) /\ k < Len(Messages[c.message]) /\ c.ptr < BUFSZ
        /\ item = Messages[c.message][k + 1] /\ item.directive /\ num \in Word /\ IsNumber(item)
    BY SMTT(30)
  <2>2. /\ w.message = c.message /\ w.overwritten = c.overwritten /\ w.copied = 0 /\ w.pc = "utoa"
        /\ w.fmt = Len(Fmt(c.message, k + 1)) /\ w.ptr = c.ptr + Len(Lead(item)) /\ w.buf = store(c, c.ptr, Lead(item))
    BY <1>1, <1>7
  <2>. QED
    BY ONLY <1>1, <1>6, <1>9, <1>10, <1>11, <2>1, <2>2, Begun
<1>. QED
  BY <1>7, <1>12 DEF Wrote

\* The directive of a number, and its argument.
LEMMA NumberRead ==
  ASSUME CallInv(c, buffer), c.pc = "switch", Char \in Numbers, NEW arg \in Argument
  PROVE  /\ arg \in Word /\ c \in CallType /\ c.ptr < BUFSZ /\ c.fill = 0
         /\ \E k \in Nat :
              LET item == Messages[c.message][k + 1]
              IN  /\ Written(c, k) /\ k < Len(Messages[c.message])
                  /\ WellFormed(item) /\ item.directive /\ IsNumber(item) /\ item.char = Char
                  /\ c.fmt = Len(Fmt(c.message, k + 1)) /\ c.zeroes = item.zero
                  /\ item.args # <<>> => arg = item.args[1]
                  /\ \A x : x.message = c.message /\ x.ap = c.ap + 1 => Behind(x, k + 1)
<1>1. c \in CallType
  BY DEF CallInv
<1>2. PICK k, item :
        /\ k \in Nat
        /\ item = Messages[c.message][k + 1]
        /\ Written(c, k) /\ k < Len(Messages[c.message]) /\ c.ptr < BUFSZ /\ c.fill = 0
        /\ WellFormed(item) /\ item.directive
        /\ Char = item.char /\ c.zeroes = item.zero /\ c.fmt = Len(Fmt(c.message, k + 1))
  BY SwitchIs DEF Numbers
<1>3. Behind(c, k) /\ item.char \in Numbers
  BY <1>2 DEF Written
<1>4. ASSUME NEW x, x.message = c.message, x.ap = c.ap + 1
      PROVE  /\ Behind(x, k + 1) /\ (item.args # <<>> => arg = item.args[1])
             /\ (item.args = <<>> => arg \in Word)
  <2>1. item.char \in Numbers \cup {"s", "c"}
    BY <1>3
  <2>. QED
    BY <1>1, <1>2, <1>3, <1>4, <2>1, OneArgument
<1>5. (item.args # <<>> => arg = item.args[1]) /\ (item.args = <<>> => arg \in Word)
  <2>1. PICK x : x = [message |-> c.message, ap |-> c.ap + 1]
    OBVIOUS
  <2>2. x.message = c.message /\ x.ap = c.ap + 1
    BY <2>1
  <2>. QED
    BY <1>4, <2>2
<1>6. arg \in Word
  <2>1. item.args # <<>> => item.args[1] \in Word
    BY <1>2, <1>3, ArgumentIs
  <2>. QED
    BY <1>5, <2>1
<1>7. IsNumber(item)
  BY <1>3 DEF IsNumber
<1>8. \A x : x.message = c.message /\ x.ap = c.ap + 1 => Behind(x, k + 1)
  BY <1>4
<1>9. c.ptr < BUFSZ /\ c.fill = 0
  BY <1>2
<1>. QED
  BY <1>1, <1>2, <1>5, <1>6, <1>7, <1>8, <1>9

\* An unsigned number.
LEMMA uKeeps ==
  ASSUME CallInv(c, buffer), c.pc = "switch", Char = "u", NEW arg \in Argument, NEW w, w = utoa(c, arg, 10)
  PROVE  CallInv(w, buffer) /\ ~Wrote(w)
<1>0. BUFSZ \in Nat /\ HexDigits \in Nat /\ DecimalDigits \in Nat
  BY FormatAssumption
<1>1. Char \in Numbers
  BY DEF Numbers
<1>2. arg \in Word /\ c \in CallType /\ c.ptr < BUFSZ /\ c.fill = 0
  BY <1>1, NumberRead
<1>3. PICK k, item :
        /\ k \in Nat
        /\ item = Messages[c.message][k + 1]
        /\ Written(c, k) /\ k < Len(Messages[c.message])
        /\ WellFormed(item) /\ item.directive /\ IsNumber(item) /\ item.char = "u"
        /\ c.fmt = Len(Fmt(c.message, k + 1)) /\ c.zeroes = item.zero
        /\ item.args # <<>> => arg = item.args[1]
        /\ \A x : x.message = c.message /\ x.ap = c.ap + 1 => Behind(x, k + 1)
  BY <1>1, NumberRead
<1>4. PICK num \in Word : num = arg
  BY <1>2
<1>5. PICK zeroes \in BOOLEAN : zeroes = c.zeroes
  BY <1>2 DEF CallType
<1>6. PICK neg \in BOOLEAN : neg = FALSE
  OBVIOUS
<1>7. PICK ptr, buf, ap : ptr = c.ptr + Len(Lead(item)) /\ buf = store(c, c.ptr, Lead(item)) /\ ap = c.ap + 1
  OBVIOUS
<1>8. ptr = c.ptr /\ buf = c.buf
  <2>1. Lead(item) = <<>> /\ Len(Lead(item)) = 0
    BY <1>3, LeadIs
  <2>2. c.ptr \in Nat /\ c.buf \in [Place -> Character]
    BY <1>2 DEF CallType
  <2>3. store(c, c.ptr, <<>>) = c.buf
    BY <2>2, StoreNothing
  <2>. QED
    BY <1>7, <2>1, <2>2, <2>3
<1>9. w = Conversion(c, ptr, buf, zeroes, c.fill, ap, num, 10, neg)
  BY <1>2, <1>4, <1>5, <1>6, <1>7, <1>8, ZenonT(40) DEF utoa, Conversion, CallType
<1>10. 10 = Base(item) /\ c.fill \in Nat /\ c.ptr < BUFSZ
  BY <1>0, <1>2, <1>3 DEF Base
<1>11. Width(item) = IF zeroes THEN c.fill ELSE 0
  BY <1>2, <1>3 DEF Width
<1>12. /\ neg => item.char = "d" /\ Signed(c.message)
       /\ ~neg /\ item.args # <<>> => num = item.args[1]
  BY <1>3, <1>4, <1>6
<1>13. PICK base : base = 10
  OBVIOUS
<1>14. PICK width : width = c.fill
  OBVIOUS
<1>. QED
  BY <1>3, <1>7, <1>9, <1>10, <1>11, <1>12, <1>13, <1>14, NumberBegun, SMTT(30)

\* A hexadecimal number.
LEMMA xKeeps ==
  ASSUME CallInv(c, buffer), c.pc = "switch", Char = "x", NEW arg \in Argument,
         NEW w, w = utoa([c EXCEPT !.fill = HexDigits], arg, 16)
  PROVE  CallInv(w, buffer) /\ ~Wrote(w)
<1>0. BUFSZ \in Nat /\ HexDigits \in Nat /\ DecimalDigits \in Nat
  BY FormatAssumption
<1>1. Char \in Numbers
  BY DEF Numbers
<1>2. arg \in Word /\ c \in CallType /\ c.ptr < BUFSZ /\ c.fill = 0
  BY <1>1, NumberRead
<1>3. PICK k, item :
        /\ k \in Nat
        /\ item = Messages[c.message][k + 1]
        /\ Written(c, k) /\ k < Len(Messages[c.message])
        /\ WellFormed(item) /\ item.directive /\ IsNumber(item) /\ item.char = "x"
        /\ c.fmt = Len(Fmt(c.message, k + 1)) /\ c.zeroes = item.zero
        /\ item.args # <<>> => arg = item.args[1]
        /\ \A x : x.message = c.message /\ x.ap = c.ap + 1 => Behind(x, k + 1)
  BY <1>1, NumberRead
<1>4. PICK num \in Word : num = arg
  BY <1>2
<1>5. PICK zeroes \in BOOLEAN : zeroes = c.zeroes
  BY <1>2 DEF CallType
<1>6. PICK neg \in BOOLEAN : neg = FALSE
  OBVIOUS
<1>7. PICK ptr, buf, ap : ptr = c.ptr + Len(Lead(item)) /\ buf = store(c, c.ptr, Lead(item)) /\ ap = c.ap + 1
  OBVIOUS
<1>8. ptr = c.ptr /\ buf = c.buf
  <2>1. Lead(item) = <<>> /\ Len(Lead(item)) = 0
    BY <1>3, LeadIs
  <2>2. c.ptr \in Nat /\ c.buf \in [Place -> Character]
    BY <1>2 DEF CallType
  <2>3. store(c, c.ptr, <<>>) = c.buf
    BY <2>2, StoreNothing
  <2>. QED
    BY <1>7, <2>1, <2>2, <2>3
<1>9. w = Conversion(c, ptr, buf, zeroes, HexDigits, ap, num, 16, neg)
  BY <1>2, <1>4, <1>5, <1>6, <1>7, <1>8, ZenonT(40) DEF utoa, Conversion, CallType
<1>10. 16 = Base(item) /\ HexDigits \in Nat /\ c.ptr < BUFSZ
  BY <1>0, <1>2, <1>3 DEF Base
<1>11. Width(item) = IF zeroes THEN HexDigits ELSE 0
  BY <1>3, <1>5 DEF Width
<1>12. /\ neg => item.char = "d" /\ Signed(c.message)
       /\ ~neg /\ item.args # <<>> => num = item.args[1]
  BY <1>3, <1>4, <1>6
<1>13. PICK base : base = 16
  OBVIOUS
<1>14. PICK width : width = HexDigits
  OBVIOUS
<1>. QED
  BY <1>3, <1>7, <1>9, <1>10, <1>11, <1>12, <1>13, <1>14, NumberBegun

\* A signed number.
LEMMA dKeeps ==
  ASSUME CallInv(c, buffer), c.pc = "switch", Char = "d", NEW arg \in Argument,
         NEW w, w = itoa([c EXCEPT !.fill = DecimalDigits], arg)
  PROVE  CallInv(w, buffer) /\ ~Wrote(w)
<1>0. BUFSZ \in Nat /\ HexDigits \in Nat /\ DecimalDigits \in Nat
  BY FormatAssumption
<1>1. Char \in Numbers
  BY DEF Numbers
<1>2. arg \in Word /\ c \in CallType /\ c.ptr < BUFSZ /\ c.fill = 0
  BY <1>1, NumberRead
<1>3. PICK k, item :
        /\ k \in Nat
        /\ item = Messages[c.message][k + 1]
        /\ Written(c, k) /\ k < Len(Messages[c.message])
        /\ WellFormed(item) /\ item.directive /\ IsNumber(item) /\ item.char = "d"
        /\ c.fmt = Len(Fmt(c.message, k + 1)) /\ c.zeroes = item.zero
        /\ item.args # <<>> => arg = item.args[1]
        /\ \A x : x.message = c.message /\ x.ap = c.ap + 1 => Behind(x, k + 1)
  BY <1>1, NumberRead
<1>4. PICK num \in Word : num = IF arg < Sign THEN arg ELSE 2 * Sign - arg
  BY <1>2, WordIs DEF Word
<1>5. PICK zeroes \in BOOLEAN : zeroes = c.zeroes
  BY <1>2 DEF CallType
<1>6. PICK neg \in BOOLEAN : neg = ~(arg < Sign)
  OBVIOUS
<1>7. PICK ptr, buf, ap : ptr = c.ptr + Len(Lead(item)) /\ buf = store(c, c.ptr, Lead(item)) /\ ap = c.ap + 1
  OBVIOUS
<1>8. ptr = c.ptr /\ buf = c.buf
  <2>1. Lead(item) = <<>> /\ Len(Lead(item)) = 0
    BY <1>3, LeadIs
  <2>2. c.ptr \in Nat /\ c.buf \in [Place -> Character]
    BY <1>2 DEF CallType
  <2>3. store(c, c.ptr, <<>>) = c.buf
    BY <2>2, StoreNothing
  <2>. QED
    BY <1>7, <2>1, <2>2, <2>3
<1>9. w = Conversion(c, ptr, buf, zeroes, DecimalDigits, ap, num, 10, neg)
  <2>1. CASE arg < Sign
    <3>1. num = arg /\ neg = FALSE
      BY <1>4, <1>6, <2>1
    <3>2. w = utoa([c EXCEPT !.fill = DecimalDigits], arg, 10)
      BY <2>1 DEF itoa
    <3>. QED
      BY ONLY <1>2, <1>5, <1>7, <1>8, <3>1, <3>2, ZenonT(40) DEF utoa, Conversion, CallType
  <2>2. CASE ~(arg < Sign)
    <3>1. num = 2 * Sign - arg /\ neg = TRUE
      BY <1>4, <1>6, <2>2
    <3>2. w = [utoa([c EXCEPT !.fill = DecimalDigits], num, 10) EXCEPT !.neg = TRUE]
      BY <2>2, <3>1 DEF itoa
    <3>3. PICK y : y = utoa([c EXCEPT !.fill = DecimalDigits], num, 10)
      OBVIOUS
    <3>4. y = Conversion(c, ptr, buf, zeroes, DecimalDigits, ap, num, 10, FALSE)
      BY ONLY <1>2, <1>5, <1>7, <1>8, <3>3, ZenonT(40) DEF utoa, Conversion, CallType
    <3>5. w = [y EXCEPT !.neg = neg]
      BY <3>1, <3>2, <3>3
    <3>. QED
      BY ONLY <1>2, <3>4, <3>5, ZenonT(40) DEF Conversion, CallType
  <2>. QED
    BY <2>1, <2>2
<1>10. 10 = Base(item) /\ DecimalDigits \in Nat /\ c.ptr < BUFSZ
  BY <1>0, <1>2, <1>3 DEF Base
<1>11. Width(item) = IF zeroes THEN DecimalDigits ELSE 0
  BY <1>3, <1>5 DEF Width
<1>12. /\ neg => item.char = "d" /\ Signed(c.message)
       /\ ~neg /\ item.args # <<>> => num = item.args[1]
  <2>1. arg = item.args[1]
    BY <1>3, ArgumentIs DEF IsNumber
  <2>2. CASE arg < Sign
    BY <1>4, <1>6, <2>1, <2>2
  <2>3. CASE ~(arg < Sign)
    <3>1. c.message \in DOMAIN Messages /\ k + 1 \in DOMAIN Messages[c.message]
      BY <1>2, <1>3, MessagesAssumption DEF CallType
    <3>2. item.args[1] >= Sign
      BY <1>2, <2>1, <2>3, WordIs
    <3>3. Signed(c.message)
      BY <1>3, <3>1, <3>2 DEF Signed
    <3>. QED
      BY <1>3, <1>6, <2>3, <3>3
  <2>. QED
    BY <2>2, <2>3
<1>13. PICK base : base = 10
  OBVIOUS
<1>14. PICK width : width = DecimalDigits
  OBVIOUS
<1>. QED
  BY <1>3, <1>7, <1>9, <1>10, <1>11, <1>12, <1>13, <1>14, NumberBegun, SMTT(30)

\* An address.
LEMMA pKeeps ==
  ASSUME CallInv(c, buffer), c.pc = "switch", Char = "p", NEW arg \in Argument,
         NEW w, w = utoa([put(c, <<"0", "x">>) EXCEPT !.zeroes = TRUE, !.fill = HexDigits], arg, 16)
  PROVE  CallInv(w, buffer) /\ ~Wrote(w)
<1>0. BUFSZ \in Nat /\ HexDigits \in Nat /\ DecimalDigits \in Nat
  BY FormatAssumption
<1>1. Char \in Numbers
  BY DEF Numbers
<1>2. arg \in Word /\ c \in CallType /\ c.ptr < BUFSZ /\ c.fill = 0
  BY <1>1, NumberRead
<1>3. PICK k, item :
        /\ k \in Nat
        /\ item = Messages[c.message][k + 1]
        /\ Written(c, k) /\ k < Len(Messages[c.message])
        /\ WellFormed(item) /\ item.directive /\ IsNumber(item) /\ item.char = "p"
        /\ c.fmt = Len(Fmt(c.message, k + 1)) /\ c.zeroes = item.zero
        /\ item.args # <<>> => arg = item.args[1]
        /\ \A x : x.message = c.message /\ x.ap = c.ap + 1 => Behind(x, k + 1)
  BY <1>1, NumberRead
<1>4. PICK num \in Word : num = arg
  BY <1>2
<1>5. PICK zeroes \in BOOLEAN : zeroes = TRUE
  OBVIOUS
<1>6. PICK neg \in BOOLEAN : neg = FALSE
  OBVIOUS
<1>7. PICK ptr, buf, ap : ptr = c.ptr + Len(Lead(item)) /\ buf = store(c, c.ptr, Lead(item)) /\ ap = c.ap + 1
  OBVIOUS
<1>8. ptr = c.ptr + Len(<<"0", "x">>) /\ buf = store(c, c.ptr, <<"0", "x">>)
  <2>1. Lead(item) = <<"0", "x">>
    BY <1>3 DEF Lead
  <2>. QED
    BY <1>7, <2>1
<1>9. w = Conversion(c, ptr, buf, zeroes, HexDigits, ap, num, 16, neg)
  BY <1>2, <1>4, <1>5, <1>6, <1>7, <1>8 DEF utoa, put, Conversion, CallType
<1>10. 16 = Base(item) /\ HexDigits \in Nat /\ c.ptr < BUFSZ
  BY <1>0, <1>2, <1>3 DEF Base
<1>11. Width(item) = IF zeroes THEN HexDigits ELSE 0
  BY <1>3, <1>5 DEF Width
<1>12. /\ neg => item.char = "d" /\ Signed(c.message)
       /\ ~neg /\ item.args # <<>> => num = item.args[1]
  BY <1>3, <1>4, <1>6
<1>13. PICK base : base = 16
  OBVIOUS
<1>14. PICK width : width = HexDigits
  OBVIOUS
<1>. QED
  BY <1>3, <1>7, <1>9, <1>10, <1>11, <1>12, <1>13, <1>14, NumberBegun

\* A call that begins to copy a text.
Showing(x, ptr, buf, ap, chars) ==
  [x EXCEPT !.ptr = ptr, !.buf = buf, !.ap = ap, !.pc = "fill", !.text = Literal(chars)]

\* It is a call.
LEMMA ShowingType ==
  ASSUME NEW x \in CallType, NEW ptr \in Nat, NEW buf \in [Place -> Character], NEW ap \in Nat,
         NEW chars \in Seq(Character)
  PROVE  Showing(x, ptr, buf, ap, chars) \in CallType
<1>1. PICK text : text = Literal(chars)
  OBVIOUS
<1>2. text \in [static : BOOLEAN, chars : Seq(Character), at : Nat]
  BY <1>1 DEF Literal
<1>3. PICK y : y = [x EXCEPT !.ptr = ptr, !.buf = buf, !.ap = ap, !.pc = "fill", !.text = text]
  OBVIOUS
<1>4. y \in CallType
  BY <1>2, <1>3 DEF CallType
<1>. QED
  BY <1>1, <1>3, <1>4 DEF Showing

\* Its fields.
LEMMA ShowingFields ==
  ASSUME NEW x \in CallType, NEW ptr, NEW buf, NEW ap, NEW chars, NEW w, w = Showing(x, ptr, buf, ap, chars)
  PROVE  /\ w.message = x.message /\ w.fmt = x.fmt /\ w.copied = x.copied /\ w.overwritten = x.overwritten
         /\ w.ptr = ptr /\ w.buf = buf /\ w.ap = ap /\ w.pc = "fill" /\ w.fill = x.fill
         /\ ~w.text.static /\ w.text.chars = chars
<1>1. PICK text : text = Literal(chars)
  OBVIOUS
<1>2. w = [x EXCEPT !.ptr = ptr, !.buf = buf, !.ap = ap, !.pc = "fill", !.text = text]
  BY <1>1 DEF Showing
<1>3. /\ w.message = x.message /\ w.fmt = x.fmt /\ w.copied = x.copied /\ w.overwritten = x.overwritten
      /\ w.ptr = ptr /\ w.buf = buf /\ w.ap = ap /\ w.pc = "fill" /\ w.fill = x.fill
      /\ w.text = text
  BY <1>2 DEF CallType
<1>4. ~text.static /\ text.chars = chars
  BY <1>1, SMTT(30) DEF Literal
<1>. QED
  BY <1>3, <1>4

\* A directive that is no number begins to copy its text.
LEMMA TextBegun ==
  ASSUME CallInv(c, buffer), NEW k \in Nat, Written(c, k), k < Len(Messages[c.message]), c.ptr < BUFSZ, c.fill = 0,
         NEW item, item = Messages[c.message][k + 1], WellFormed(item), item.directive, ~IsNumber(item),
         c.fmt = Len(Fmt(c.message, k + 1)),
         NEW ap \in Nat, \A x : x.message = c.message /\ x.ap = ap => Behind(x, k + 1),
         NEW chars, chars = Shown(item, 0, "text"),
         NEW ptr, ptr = c.ptr + Len(Lead(item)), NEW buf, buf = store(c, c.ptr, Lead(item)),
         NEW w, w = Showing(c, ptr, buf, ap, chars)
  PROVE  CallInv(w, buffer) /\ ~Wrote(w)
<1>1. c \in CallType /\ c.copied = 0 /\ 0 \in Word
  BY WordIs DEF CallInv, Written
<1>2. buf \in [Place -> Character]
  <2>1. Lead(item) \in Seq(Character)
    BY LeadIs, PrintedIs
  <2>2. c.ptr \in Nat /\ c.buf \in [Place -> Character]
    BY <1>1 DEF CallType
  <2>. QED
    BY <2>1, <2>2, StoreType
<1>3. chars \in Seq(Character)
  <2>1. Shown(item, 0, "text") \in Seq(Printed)
    BY <1>1, ShownIs
  <2>. QED
    BY <2>1, PrintedIs
<1>4. ptr \in Nat
  <2>1. c.ptr \in Nat /\ Len(Lead(item)) \in Nat
    BY <1>1, LeadIs DEF CallType
  <2>. QED
    BY <2>1
<1>5. w \in CallType
  BY <1>1, <1>2, <1>3, <1>4, ShowingType, SMTT(30)
<1>6. /\ w.message = c.message /\ w.fmt = c.fmt /\ w.copied = c.copied /\ w.overwritten = c.overwritten
      /\ w.ptr = ptr /\ w.buf = buf /\ w.ap = ap /\ w.pc = "fill" /\ w.fill = c.fill
      /\ ~w.text.static /\ w.text.chars = chars
  BY <1>1, ShowingFields, SMTT(30)
<1>7. Width(item) = IF w.zeroes THEN w.fill ELSE 0
  BY <1>6, SMTT(30) DEF Width, IsNumber, Numbers
<1>8. Behind(w, k + 1)
  BY <1>6
<1>9. CallInv(w, buffer)
  <2>1. /\ k \in Nat /\ Written(c, k) /\ k < Len(Messages[c.message]) /\ c.ptr < BUFSZ
        /\ item = Messages[c.message][k + 1] /\ item.directive /\ ~IsNumber(item)
    BY SMTT(30)
  <2>2. /\ w.message = c.message /\ w.overwritten = c.overwritten /\ w.copied = 0 /\ w.pc = "fill"
        /\ w.fmt = Len(Fmt(c.message, k + 1)) /\ w.ptr = c.ptr + Len(Lead(item)) /\ w.buf = store(c, c.ptr, Lead(item))
        /\ ~w.text.static /\ w.text.chars = Shown(item, 0, "text")
    BY <1>1, <1>6
  <2>. QED
    BY ONLY <1>1, <1>5, <1>7, <1>8, <2>1, <2>2, Begun, SMTT(30)
<1>. QED
  BY <1>6, <1>9 DEF Wrote

\* A % of its own.
LEMMA percentKeeps ==
  ASSUME CallInv(c, buffer), c.pc = "switch", Char = "%", NEW w, w = shows(c, <<"%">>)
  PROVE  CallInv(w, buffer) /\ ~Wrote(w)
<1>1. c \in CallType /\ c.ap \in Nat
  BY DEF CallInv, CallType
<1>2. PICK k, item, ap :
        /\ k \in Nat
        /\ item = Messages[c.message][k + 1] /\ ap = c.ap
        /\ Written(c, k) /\ k < Len(Messages[c.message]) /\ c.ptr < BUFSZ /\ c.fill = 0
        /\ WellFormed(item) /\ item.directive /\ ~IsNumber(item) /\ item.char = "%"
        /\ c.fmt = Len(Fmt(c.message, k + 1))
  <2>1. PICK k, item :
          /\ k \in Nat
          /\ item = Messages[c.message][k + 1]
          /\ Written(c, k) /\ k < Len(Messages[c.message]) /\ c.ptr < BUFSZ /\ c.fill = 0
          /\ WellFormed(item) /\ item.directive /\ Char = item.char
          /\ c.fmt = Len(Fmt(c.message, k + 1))
    BY SwitchIs DEF Numbers
  <2>2. ~IsNumber(item) /\ item.char = "%"
    BY <2>1 DEF IsNumber, Numbers
  <2>3. PICK ap : ap = c.ap
    OBVIOUS
  <2>. QED
    BY <2>1, <2>2, <2>3
<1>3. item.args = <<>> /\ \A x : x.message = c.message /\ x.ap = ap => Behind(x, k + 1)
  <2>1. item.args = <<>> /\ Behind(c, k)
    BY <1>2, ArgumentIs DEF Written, IsNumber, Numbers
  <2>. QED
    BY <1>1, <1>2, <2>1, NoArgument
<1>4. PICK ptr, buf, chars :
        ptr = c.ptr + Len(Lead(item)) /\ buf = store(c, c.ptr, Lead(item)) /\ chars = Shown(item, 0, "text")
  OBVIOUS
<1>5. ptr = c.ptr /\ buf = c.buf
  <2>1. Lead(item) = <<>> /\ Len(Lead(item)) = 0
    BY <1>2, LeadIs DEF IsNumber, Numbers
  <2>2. c.ptr \in Nat /\ c.buf \in [Place -> Character]
    BY <1>1 DEF CallType
  <2>3. store(c, c.ptr, <<>>) = c.buf
    BY <2>2, StoreNothing
  <2>. QED
    BY <1>4, <2>1, <2>2, <2>3
<1>6. chars = <<"%">>
  BY <1>2, <1>3, <1>4 DEF Shown, Numbers
<1>7. w = Showing(c, ptr, buf, ap, chars)
  BY <1>1, <1>2, <1>5, <1>6, Zenon DEF shows, put, Showing, CallType
<1>8. ap \in Nat
  BY <1>1, <1>2
<1>9. CallInv(c, buffer) /\ \A x : x.message = c.message /\ x.ap = ap => Behind(x, k + 1)
  BY <1>3
<1>. QED
  BY ONLY <1>2, <1>4, <1>7, <1>8, <1>9, TextBegun, SMTT(30)

\* A directive there is none for.
LEMMA otherKeeps ==
  ASSUME CallInv(c, buffer), c.pc = "switch", Char \notin Numbers \cup {"0", "%", "s", "c"}, NEW w, w = shows(c, <<>>)
  PROVE  CallInv(w, buffer) /\ ~Wrote(w)
<1>1. c \in CallType /\ c.ap \in Nat
  BY DEF CallInv, CallType
<1>2. PICK k, item, ap :
        /\ k \in Nat
        /\ item = Messages[c.message][k + 1] /\ ap = c.ap
        /\ Written(c, k) /\ k < Len(Messages[c.message]) /\ c.ptr < BUFSZ /\ c.fill = 0
        /\ WellFormed(item) /\ item.directive /\ ~IsNumber(item) /\ item.char \notin {"%", "s", "c"}
        /\ c.fmt = Len(Fmt(c.message, k + 1))
  <2>1. PICK k, item :
          /\ k \in Nat
          /\ item = Messages[c.message][k + 1]
          /\ Written(c, k) /\ k < Len(Messages[c.message]) /\ c.ptr < BUFSZ /\ c.fill = 0
          /\ WellFormed(item) /\ item.directive /\ Char = item.char
          /\ c.fmt = Len(Fmt(c.message, k + 1))
    BY SwitchIs DEF Numbers
  <2>2. ~IsNumber(item) /\ item.char \notin {"%", "s", "c"}
    BY <2>1 DEF IsNumber, Numbers
  <2>3. PICK ap : ap = c.ap
    OBVIOUS
  <2>. QED
    BY <2>1, <2>2, <2>3
<1>3. item.args = <<>> /\ \A x : x.message = c.message /\ x.ap = ap => Behind(x, k + 1)
  <2>1. item.args = <<>> /\ Behind(c, k)
    BY <1>2, ArgumentIs DEF Written, IsNumber, Numbers
  <2>. QED
    BY <1>1, <1>2, <2>1, NoArgument
<1>4. PICK ptr, buf, chars :
        ptr = c.ptr + Len(Lead(item)) /\ buf = store(c, c.ptr, Lead(item)) /\ chars = Shown(item, 0, "text")
  OBVIOUS
<1>5. ptr = c.ptr /\ buf = c.buf
  <2>1. Lead(item) = <<>> /\ Len(Lead(item)) = 0
    BY <1>2, LeadIs DEF IsNumber, Numbers
  <2>2. c.ptr \in Nat /\ c.buf \in [Place -> Character]
    BY <1>1 DEF CallType
  <2>3. store(c, c.ptr, <<>>) = c.buf
    BY <2>2, StoreNothing
  <2>. QED
    BY <1>4, <2>1, <2>2, <2>3
<1>6. chars = <<>>
  BY <1>2, <1>3, <1>4 DEF Shown, Numbers
<1>7. w = Showing(c, ptr, buf, ap, chars)
  BY <1>1, <1>2, <1>5, <1>6, Zenon DEF shows, put, Showing, CallType
<1>8. ap \in Nat
  BY <1>1, <1>2
<1>9. CallInv(c, buffer) /\ \A x : x.message = c.message /\ x.ap = ap => Behind(x, k + 1)
  BY <1>3
<1>. QED
  BY ONLY <1>2, <1>4, <1>7, <1>8, <1>9, TextBegun, SMTT(30)

\* A string.
LEMMA sKeeps ==
  ASSUME CallInv(c, buffer), c.pc = "switch", Char = "s", NEW arg \in Argument,
         NEW w, w = [shows(c, arg) EXCEPT !.ap = @ + 1]
  PROVE  CallInv(w, buffer) /\ ~Wrote(w)
<1>1. c \in CallType /\ c.ap \in Nat
  BY DEF CallInv, CallType
<1>2. PICK k, item, ap :
        /\ k \in Nat
        /\ item = Messages[c.message][k + 1] /\ ap = c.ap + 1
        /\ Written(c, k) /\ k < Len(Messages[c.message]) /\ c.ptr < BUFSZ /\ c.fill = 0
        /\ WellFormed(item) /\ item.directive /\ ~IsNumber(item) /\ item.char = "s"
        /\ c.fmt = Len(Fmt(c.message, k + 1))
  <2>1. PICK k, item :
          /\ k \in Nat
          /\ item = Messages[c.message][k + 1]
          /\ Written(c, k) /\ k < Len(Messages[c.message]) /\ c.ptr < BUFSZ /\ c.fill = 0
          /\ WellFormed(item) /\ item.directive /\ Char = item.char
          /\ c.fmt = Len(Fmt(c.message, k + 1))
    BY SwitchIs DEF Numbers
  <2>2. ~IsNumber(item) /\ item.char = "s"
    BY <2>1 DEF IsNumber, Numbers
  <2>3. PICK ap : ap = c.ap + 1
    OBVIOUS
  <2>. QED
    BY <2>1, <2>2, <2>3
<1>3. item.args # <<>> /\ arg = item.args[1] /\ \A x : x.message = c.message /\ x.ap = ap => Behind(x, k + 1)
  <2>1. item.args # <<>> /\ Behind(c, k) /\ item.char \in Numbers \cup {"s", "c"}
    BY <1>2, ArgumentIs DEF Written
  <2>2. ASSUME NEW x, x.message = c.message, x.ap = ap PROVE Behind(x, k + 1) /\ arg = item.args[1]
    BY <1>1, <1>2, <2>1, <2>2, OneArgument
  <2>3. PICK x : x = [message |-> c.message, ap |-> ap]
    OBVIOUS
  <2>4. x.message = c.message /\ x.ap = ap
    BY <2>3
  <2>. QED
    BY <2>1, <2>2, <2>4
<1>4. PICK ptr, buf, chars :
        ptr = c.ptr + Len(Lead(item)) /\ buf = store(c, c.ptr, Lead(item)) /\ chars = Shown(item, 0, "text")
  OBVIOUS
<1>5. ptr = c.ptr /\ buf = c.buf
  <2>1. Lead(item) = <<>> /\ Len(Lead(item)) = 0
    BY <1>2, LeadIs DEF IsNumber, Numbers
  <2>2. c.ptr \in Nat /\ c.buf \in [Place -> Character]
    BY <1>1 DEF CallType
  <2>3. store(c, c.ptr, <<>>) = c.buf
    BY <2>2, StoreNothing
  <2>. QED
    BY <1>4, <2>1, <2>2, <2>3
<1>6. chars = arg
  BY <1>2, <1>3, <1>4 DEF Shown, Numbers
<1>7. w = Showing(c, ptr, buf, ap, chars)
  BY <1>1, <1>2, <1>5, <1>6, Zenon DEF shows, put, Showing, CallType
<1>8. ap \in Nat
  BY <1>1, <1>2
<1>9. CallInv(c, buffer) /\ \A x : x.message = c.message /\ x.ap = ap => Behind(x, k + 1)
  BY <1>3
<1>. QED
  BY ONLY <1>2, <1>4, <1>7, <1>8, <1>9, TextBegun, SMTT(30)

\* A character.
LEMMA cKeeps ==
  ASSUME CallInv(c, buffer), c.pc = "switch", Char = "c", NEW arg \in Argument,
         NEW w, w = [shows(put(c, arg), <<>>) EXCEPT !.ap = @ + 1]
  PROVE  CallInv(w, buffer) /\ ~Wrote(w)
<1>1. c \in CallType /\ c.ap \in Nat
  BY DEF CallInv, CallType
<1>2. PICK k, item, ap :
        /\ k \in Nat
        /\ item = Messages[c.message][k + 1] /\ ap = c.ap + 1
        /\ Written(c, k) /\ k < Len(Messages[c.message]) /\ c.ptr < BUFSZ /\ c.fill = 0
        /\ WellFormed(item) /\ item.directive /\ ~IsNumber(item) /\ item.char = "c"
        /\ c.fmt = Len(Fmt(c.message, k + 1))
  <2>1. PICK k, item :
          /\ k \in Nat
          /\ item = Messages[c.message][k + 1]
          /\ Written(c, k) /\ k < Len(Messages[c.message]) /\ c.ptr < BUFSZ /\ c.fill = 0
          /\ WellFormed(item) /\ item.directive /\ Char = item.char
          /\ c.fmt = Len(Fmt(c.message, k + 1))
    BY SwitchIs DEF Numbers
  <2>2. ~IsNumber(item) /\ item.char = "c"
    BY <2>1 DEF IsNumber, Numbers
  <2>3. PICK ap : ap = c.ap + 1
    OBVIOUS
  <2>. QED
    BY <2>1, <2>2, <2>3
<1>3. item.args # <<>> /\ arg = item.args[1] /\ \A x : x.message = c.message /\ x.ap = ap => Behind(x, k + 1)
  <2>1. item.args # <<>> /\ Behind(c, k) /\ item.char \in Numbers \cup {"s", "c"}
    BY <1>2, ArgumentIs DEF Written
  <2>2. ASSUME NEW x, x.message = c.message, x.ap = ap PROVE Behind(x, k + 1) /\ arg = item.args[1]
    BY <1>1, <1>2, <2>1, <2>2, OneArgument
  <2>3. PICK x : x = [message |-> c.message, ap |-> ap]
    OBVIOUS
  <2>4. x.message = c.message /\ x.ap = ap
    BY <2>3
  <2>. QED
    BY <2>1, <2>2, <2>4
<1>4. PICK ptr, buf, chars :
        ptr = c.ptr + Len(Lead(item)) /\ buf = store(c, c.ptr, Lead(item)) /\ chars = Shown(item, 0, "text")
  OBVIOUS
<1>5. ptr = c.ptr + Len(arg) /\ buf = store(c, c.ptr, arg)
  BY <1>2, <1>3, <1>4 DEF Lead
<1>6. chars = <<>>
  BY <1>2, <1>3, <1>4 DEF Shown, Numbers
<1>7. w = Showing(c, ptr, buf, ap, chars)
  BY <1>1, <1>2, <1>5, <1>6, Zenon DEF shows, put, Showing, CallType
<1>8. ap \in Nat
  BY <1>1, <1>2
<1>9. CallInv(c, buffer) /\ \A x : x.message = c.message /\ x.ap = ap => Behind(x, k + 1)
  BY <1>3
<1>. QED
  BY ONLY <1>2, <1>4, <1>7, <1>8, <1>9, TextBegun, SMTT(30)

-----------------------------------------------------------------------------
(* Conversions. *)

\* A number is divided by its base once more.
LEMMA DividedMore ==
  ASSUME NEW n \in Nat, NEW base \in {10, 16}, NEW k \in Nat
  PROVE  (n \div Power[<<base, k>>]) \div base = n \div Power[<<base, k + 1>>]
<1>1. Power[<<base, k>>] \in Nat \ {0}
  BY PowerPositive
<1>2. PICK v \in Nat \ {0} : v = Power[<<base, k>>]
  BY <1>1
<1>3. Power[<<base, k + 1>>] = base * v
  <2>1. base \in Nat
    OBVIOUS
  <2>2. \A l \in Nat : Power[<<base, l + 1>>] = base * Power[<<base, l>>]
    BY <2>1, PowerIs
  <2>. QED
    BY <1>2, <2>2
<1>4. CASE base = 10
  <2>1. (n \div v) \div 10 = n \div (10 * v)
    OBVIOUS
  <2>. QED
    BY <1>2, <1>3, <1>4, <2>1
<1>5. CASE base = 16
  <2>1. (n \div v) \div 16 = n \div (16 * v)
    OBVIOUS
  <2>. QED
    BY <1>2, <1>3, <1>5, <2>1
<1>. QED
  BY <1>4, <1>5

\* A quotient is a number, and zero just if the divisor is greater.
LEMMA DivisionIs ==
  ASSUME NEW n \in Nat, NEW v \in Nat \ {0}
  PROVE  n \div v \in Nat /\ n \div v <= n /\ (n \div v > 0 <=> n >= v) /\ (n \div v = 0 <=> n < v)
OBVIOUS

\* While something is left, a digit is missing, and none when nothing is left.
LEMMA DigitsLeft ==
  ASSUME NEW n \in Word, NEW base \in {10, 16}, NEW d \in Nat, d <= Len(Numeral(n, base))
  PROVE  /\ n \div Power[<<base, d>>] \in Word
         /\ n \div Power[<<base, d>>] > 0 \/ d = 0 => d < Len(Numeral(n, base))
         /\ n \div Power[<<base, d>>] = 0 /\ d > 0 => d = Len(Numeral(n, base))
<1>1. PICK len \in 1..DecimalDigits :
        /\ len = Len(Numeral(n, base)) /\ n < Power[<<base, len>>]
        /\ \A k \in 1..DecimalDigits : n < Power[<<base, k>>] => len <= k
  BY NumeralIs
<1>2. Power[<<base, d>>] \in Nat \ {0} /\ Power[<<base, len>>] \in Nat \ {0}
  BY PowerPositive
<1>3. n \in Nat /\ DecimalDigits \in Nat
  BY WordIs, FormatAssumption
<1>4. PICK v \in Nat \ {0} : v = Power[<<base, d>>]
  BY <1>2
<1>5. n \div v \in Nat /\ n \div v <= n /\ (n \div v > 0 => n >= v) /\ (n \div v = 0 => n < v)
  BY <1>3, DivisionIs
<1>6. n \div v \in Word
  BY <1>3, <1>5, WordIs DEF Word
<1>7. ASSUME n \div v > 0 \/ d = 0 PROVE d < len
  <2>1. CASE d = len
    <3>1. n < v
      BY <1>1, <1>4, <2>1
    <3>2. d # 0
      BY <2>1
    <3>. QED
      BY <1>3, <1>5, <1>7, <3>1, <3>2
  <2>. QED
    BY <1>1, <2>1
<1>8. ASSUME n \div v = 0, d > 0 PROVE d = len
  <2>1. d \in 1..DecimalDigits /\ n < Power[<<base, d>>]
    BY <1>1, <1>3, <1>4, <1>5, <1>8
  <2>. QED
    BY <1>1, <2>1
<1>. QED
  BY <1>1, <1>4, <1>6, <1>7, <1>8

\* What is known of a directive that is being carried out.
LEMMA CarriedOut ==
  ASSUME NEW x, NEW b, CallInv(x, b), x.pc \in {"utoa", "sign", "fill", "strcpy", "next"}
  PROVE  \E k, num, start, item :
           /\ k \in Nat /\ num \in Word /\ start \in Nat
           /\ InItem(x, b, k, num, start) /\ x \in CallType /\ x.message \in DOMAIN Messages
           /\ k \in 1..Len(Messages[x.message]) /\ Len(Messages[x.message]) \in Nat
           /\ item = Messages[x.message][k] /\ WellFormed(item) /\ item.directive
           /\ start < BUFSZ
           /\ IsNumber(item) => Converted(x, b, item, num)
           /\ x.pc \in {"utoa", "sign"} => IsNumber(item)
           /\ ~IsNumber(item) => ~x.text.static /\ x.text.chars = Shown(item, num, "text")
<1>1. x \in CallType
  BY DEF CallInv
<1>2. PICK k \in Nat, num \in Word, start \in Nat : InItem(x, b, k, num, start)
  BY DEF CallInv
<1>3. x.message \in DOMAIN Messages /\ Len(Messages[x.message]) \in Nat
  BY <1>1, MessagesAssumption DEF CallType
<1>4. PICK item : item = Messages[x.message][k]
  OBVIOUS
<1>5. k \in 1..Len(Messages[x.message]) /\ item.directive /\ start < BUFSZ
  BY <1>2, <1>4 DEF InItem
<1>6. WellFormed(item)
  BY <1>3, <1>4, <1>5, ItemIs
<1>7. /\ IsNumber(item) => Converted(x, b, item, num)
      /\ x.pc \in {"utoa", "sign"} => IsNumber(item)
      /\ ~IsNumber(item) => ~x.text.static /\ x.text.chars = Shown(item, num, "text")
  BY <1>2, <1>4 DEF InItem
<1>. QED
  BY <1>1, <1>2, <1>3, <1>4, <1>5, <1>6, <1>7

\* The digit that is stored.
LEMMA NextDigit ==
  ASSUME NEW x, NEW b, CallInv(x, b), x.pc = "utoa"
  PROVE  /\ x.digit \in 0..14 /\ Digits[(x.value % x.base) + 1] \in Chars \ {NUL}
         /\ x.value > 0 \/ x.digit = 14 => x.digit > 14 - DecimalDigits
<1>1. PICK k, num, item : k \in Nat /\ num \in Word /\ x \in CallType /\ WellFormed(item) /\ item.directive /\ IsNumber(item)
                                           /\ Converted(x, b, item, num)
  BY CarriedOut
<1>2. Base(item) \in {10, 16} /\ Places(item, num) \in 1..DecimalDigits
  BY <1>1, ShownIs
<1>3. PICK base \in {10, 16}, d \in Nat : base = Base(item) /\ d = 14 - x.digit /\ x.digit = 14 - d /\ x.digit \in 0..14
  <2>1. x.digit \in 0..14
    BY <1>1 DEF CallType
  <2>2. 14 - x.digit \in Nat /\ x.digit = 14 - (14 - x.digit)
    BY <2>1
  <2>. QED
    BY <1>2, <2>1, <2>2
<1>4. d <= Len(Numeral(num, base)) /\ x.value = num \div Power[<<base, d>>] /\ x.base = base
  BY <1>1, <1>3 DEF Converted, Places
<1>5. x.value \in Nat
  BY <1>1, WordIs DEF CallType
<1>6. (x.value % x.base) + 1 \in 1..16
  <2>1. PICK v \in Nat : v = x.value
    BY <1>5
  <2>2. (v % base) + 1 \in 1..16
    <3>1. CASE base = 10
      BY ONLY <2>1, <3>1
    <3>2. CASE base = 16
      BY ONLY <2>1, <3>2
    <3>. QED
      BY <3>1, <3>2
  <2>. QED
    BY <1>4, <2>1, <2>2
<1>7. x.value > 0 \/ d = 0 => d < Len(Numeral(num, base))
  BY <1>1, <1>4, DigitsLeft
<1>8. PICK len \in 1..DecimalDigits : len = Len(Numeral(num, base))
  BY <1>2, <1>3 DEF Places
<1>9. x.value > 0 \/ x.digit = 14 => x.digit > 14 - DecimalDigits
  <2>1. x.digit = 14 => d = 0
    BY <1>3
  <2>2. x.value > 0 \/ x.digit = 14 => d < len
    BY <1>7, <1>8, <2>1
  <2>3. DecimalDigits \in Nat
    BY FormatAssumption
  <2>. QED
    BY <1>3, <2>2, <2>3
<1>. QED
  BY <1>3, <1>6, <1>9, DigitIs

\* A call that is as far with its directive.
SameItem(x, w) ==
  /\ w.message = x.message /\ w.ap = x.ap /\ w.fmt = x.fmt /\ w.zeroes = x.zeroes /\ w.fill = x.fill
  /\ w.ptr = x.ptr /\ w.buf = x.buf /\ w.copied = x.copied /\ w.overwritten = x.overwritten

\* What a step of the conversion leaves alone.
LEMMA StillInItem ==
  ASSUME NEW x, NEW b, NEW k, NEW num, NEW start, NEW item, item = Messages[x.message][k], IsNumber(item),
         InItem(x, b, k, num, start), x.pc \in {"utoa", "sign", "fill"},
         NEW w, NEW b2, w.pc \in {"utoa", "sign", "fill"}, SameItem(x, w), Converted(w, b2, item, num)
  PROVE  InItem(w, b2, k, num, start)
<1>. /\ w.message = x.message /\ w.ap = x.ap /\ w.fmt = x.fmt /\ w.zeroes = x.zeroes /\ w.fill = x.fill
     /\ w.ptr = x.ptr /\ w.buf = x.buf /\ w.copied = x.copied /\ w.overwritten = x.overwritten
  BY DEF SameItem
<1>1. Behind(w, k)
  BY DEF InItem, Behind
<1>2. Promised(w) = Promised(x)
  BY DEF Promised
<1>3. \A view : Put(w, item, num, view) = Put(x, item, num, view)
  BY DEF Put
<1>4. Width(item) = IF w.zeroes THEN w.fill ELSE 0
  BY DEF InItem
<1>5. /\ k \in 1..Len(Messages[x.message]) /\ item.directive /\ start < BUFSZ
      /\ w.fmt = Len(Fmt(w.message, k)) /\ w.ptr = start + Len(Lead(item)) /\ w.copied = 0
  BY DEF InItem
<1>6. \A view \in Promised(w) :
        start = Len(Told(w.message, view, k - 1))
        /\ Holds(w.buf, Told(w.message, view, k - 1) \o Put(w, item, num, view))
  BY <1>2, <1>3 DEF InItem
<1>. QED
  BY <1>1, <1>4, <1>5, <1>6 DEF InItem

\* A character is stored in utoa's buffer.
Stores(b, b2, at, ch) == b2 = [b EXCEPT ![at] = ch]

\* utoa's buffer with a character that is not NUL stored in the digits' part.
LEMMA StoredIs ==
  ASSUME NEW b, BufferInv(b), NEW at \in 0..14, at > 14 - DecimalDigits, NEW ch \in Chars \ {NUL},
         NEW b2, Stores(b, b2, at, ch)
  PROVE  /\ BufferInv(b2) /\ b2[at] = ch
         /\ \A i \in 0..15 : i # at => b2[i] = b[i]
         /\ \A i \in 0..15 : b[i] # NUL => b2[i] # NUL
<1>1. DecimalDigits \in Nat
  BY FormatAssumption
<1>2. b \in [0..15 -> Chars] /\ at \in 0..15 /\ at # 15
  BY DEF BufferInv
<1>3. b2 \in [0..15 -> Chars] /\ b2[at] = ch /\ \A i \in 0..15 : i # at => b2[i] = b[i]
  BY <1>2 DEF Stores
<1>4. \A i \in 0..(14 - DecimalDigits) : i # at /\ i \in 0..15
  BY <1>1
<1>5. BufferInv(b2)
  BY <1>2, <1>3, <1>4 DEF BufferInv
<1>. QED
  BY <1>3, <1>5

\* What the digits of a call depend on.
SameFlags(x, w) == w.overwritten = x.overwritten /\ w.neg = x.neg

\* Digit d, counted from the end, is stored.
StoredBefore(b, b2, d, ch) == b2[14 - d] = ch /\ \A i \in 0..15 : i # 14 - d => b2[i] = b[i]

\* The digits stored with one more.
LEMMA StoredMore ==
  ASSUME NEW x, NEW w, NEW b, NEW b2, NEW item, NEW num, NEW d \in 0..13, Stored(x, b, item, num, d),
         SameFlags(x, w), NEW ch, ch # NUL, StoredBefore(b, b2, d, ch),
         ch = Digits[((num \div Power[<<Base(item), d>>]) % Base(item)) + 1]
  PROVE  Stored(w, b2, item, num, d + 1)
<1>. /\ w.overwritten = x.overwritten /\ w.neg = x.neg
     /\ b2[14 - d] = ch /\ \A i \in 0..15 : i # 14 - d => b2[i] = b[i]
  BY DEF SameFlags, StoredBefore
<1>1. ASSUME NEW j \in 0..((d + 1) - 1) PROVE j = d \/ (j \in 0..(d - 1) /\ 14 - j \in 0..15 /\ 14 - j # 14 - d)
  OBVIOUS
<1>2. ASSUME NEW j \in 0..((d + 1) - 1) PROVE b2[14 - j] # NUL
  <2>1. CASE j = d
    BY <2>1
  <2>2. CASE j \in 0..(d - 1) /\ 14 - j \in 0..15 /\ 14 - j # 14 - d
    BY <2>2 DEF Stored
  <2>. QED
    BY <1>1, <2>1, <2>2
<1>3. ASSUME ~w.overwritten /\ ~w.neg, NEW j \in 0..((d + 1) - 1)
      PROVE  b2[14 - j] = Digits[((num \div Power[<<Base(item), j>>]) % Base(item)) + 1]
  <2>0. ~x.overwritten /\ ~x.neg
    BY <1>3
  <2>1. CASE j = d
    BY <2>1
  <2>2. CASE j \in 0..(d - 1) /\ 14 - j \in 0..15 /\ 14 - j # 14 - d
    <3>1. b[14 - j] = Digits[((num \div Power[<<Base(item), j>>]) % Base(item)) + 1]
      BY <2>0, <2>2, SMTT(30) DEF Stored
    <3>. QED
      BY <2>2, <3>1
  <2>. QED
    BY <1>1, <2>1, <2>2
<1>. QED
  BY <1>2, <1>3 DEF Stored

\* One digit.
LEMMA utoa_digitKeeps ==
  ASSUME CallInv(c, buffer), BufferInv(buffer), c.pc = "utoa", c.value > 0 \/ c.digit = 14,
         NEW b2, b2 = stored(Digits[(c.value % c.base) + 1]),
         NEW w, w = [c EXCEPT !.value = @ \div c.base, !.digit = @ - 1]
  PROVE  CallInv(w, b2) /\ BufferInv(b2) /\ \A i \in 0..15 : buffer[i] # NUL => b2[i] # NUL
<1>1. PICK k, num, start, item :
        /\ k \in Nat /\ num \in Word /\ start \in Nat
        /\ InItem(c, buffer, k, num, start) /\ c \in CallType
        /\ item = Messages[c.message][k] /\ WellFormed(item) /\ item.directive
        /\ IsNumber(item) /\ Converted(c, buffer, item, num)
  BY CarriedOut
<1>2. PICK ch \in Chars \ {NUL} : ch = Digits[(c.value % c.base) + 1]
  BY NextDigit
<1>3. c.digit \in 0..14 /\ c.digit > 14 - DecimalDigits
  BY NextDigit, SMTT(30)
<1>4. /\ BufferInv(b2) /\ b2[c.digit] = ch
      /\ \A i \in 0..15 : i # c.digit => b2[i] = buffer[i]
      /\ \A i \in 0..15 : buffer[i] # NUL => b2[i] # NUL
  <2>1. PICK at \in 0..14 : at = c.digit /\ at > 14 - DecimalDigits
    BY <1>3
  <2>2. Stores(buffer, b2, at, ch)
    BY <1>2, <2>1 DEF stored, Stores
  <2>3. /\ BufferInv(b2) /\ b2[at] = ch
        /\ \A i \in 0..15 : i # at => b2[i] = buffer[i]
        /\ \A i \in 0..15 : buffer[i] # NUL => b2[i] # NUL
    <3>1. BufferInv(buffer) /\ at \in 0..14 /\ at > 14 - DecimalDigits /\ ch \in Chars \ {NUL}
      BY <2>1
    <3>. QED
      BY ONLY <2>2, <3>1, StoredIs
  <2>. QED
    BY <2>1, <2>3, Zenon
<1>5. DecimalDigits \in Nat /\ DecimalDigits < 14
  BY FormatAssumption
<1>6. PICK d \in 0..13 : d = 14 - c.digit /\ c.digit = 14 - d /\ 14 - (c.digit - 1) = d + 1
  <2>1. 14 - c.digit \in 0..13 /\ c.digit = 14 - (14 - c.digit) /\ 14 - (c.digit - 1) = (14 - c.digit) + 1
    BY <1>3, <1>5
  <2>. QED
    BY <2>1
<1>7. PICK base \in {10, 16} : base = Base(item)
  BY <1>1, ShownIs
<1>8. /\ c.base = base /\ d <= Len(Numeral(num, base)) /\ c.value = num \div Power[<<base, d>>]
      /\ Stored(c, buffer, item, num, d)
  BY <1>1, <1>6, <1>7 DEF Converted, Places
<1>9. d < Len(Numeral(num, base)) /\ Len(Numeral(num, base)) \in Nat
  <2>1. c.value > 0 \/ d = 0
    BY <1>6
  <2>2. d < Len(Numeral(num, base))
    BY <1>1, <1>8, <2>1, DigitsLeft
  <2>3. Len(Numeral(num, base)) \in 1..DecimalDigits
    BY <1>1, NumeralIs
  <2>. QED
    BY <1>5, <2>2, <2>3
<1>10. PICK value : value = c.value \div base
  OBVIOUS
<1>11. value = num \div Power[<<base, d + 1>>] /\ value \in Word
  <2>1. num \in Nat
    BY <1>1, WordIs
  <2>2. value = num \div Power[<<base, d + 1>>]
    BY <1>8, <1>10, <2>1, DividedMore
  <2>3. d + 1 \in Nat /\ d + 1 <= Len(Numeral(num, base))
    BY <1>9
  <2>4. num \div Power[<<base, d + 1>>] \in Word
    BY <1>1, <2>3, DigitsLeft
  <2>. QED
    BY <2>2, <2>4
<1>12. PICK digit \in 0..14 : digit = c.digit - 1
  BY <1>3, <1>5
<1>13. w = [c EXCEPT !.value = value, !.digit = digit]
  BY <1>1, <1>8, <1>10, <1>12 DEF CallType
<1>14. w \in CallType
  BY <1>1, <1>11, <1>13, ZenonT(40) DEF CallType
<1>15. /\ w.pc = "utoa" /\ w.message = c.message /\ w.ap = c.ap /\ w.fmt = c.fmt /\ w.zeroes = c.zeroes /\ w.fill = c.fill
       /\ w.ptr = c.ptr /\ w.buf = c.buf /\ w.copied = c.copied /\ w.overwritten = c.overwritten /\ w.neg = c.neg
       /\ w.base = c.base /\ w.value = value /\ w.digit = digit
  BY <1>1, <1>13 DEF CallType
<1>16. Stored(w, b2, item, num, d + 1)
  <2>1. ch # NUL /\ StoredBefore(buffer, b2, d, ch)
    BY <1>4, <1>6 DEF StoredBefore
  <2>2. ch = Digits[((num \div Power[<<Base(item), d>>]) % Base(item)) + 1]
    BY <1>2, <1>7, <1>8
  <2>. QED
    <3>1. d \in 0..13 /\ Stored(c, buffer, item, num, d) /\ SameFlags(c, w)
      BY <1>8, <1>15 DEF SameFlags
    <3>. QED
      BY ONLY <2>1, <2>2, <3>1, StoredMore
<1>17. Converted(w, b2, item, num)
  <2>1. 14 - w.digit = d + 1
    BY <1>6, <1>12, <1>15
  <2>2. d + 1 <= Places(item, num)
    BY <1>7, <1>9 DEF Places
  <2>3. /\ w.base = Base(item) /\ (w.neg => item.char = "d" /\ Signed(w.message))
        /\ (~w.neg /\ item.args # <<>> => num = item.args[1])
    BY <1>1, <1>15 DEF Converted
  <2>. QED
    <3>1. w.pc = "utoa" /\ w.value = num \div Power[<<Base(item), d + 1>>]
      BY <1>7, <1>11, <1>15
    <3>. QED
      BY ONLY <1>16, <2>1, <2>2, <2>3, <3>1 DEF Converted
<1>18. InItem(w, b2, k, num, start)
  <2>1. SameItem(c, w)
    BY <1>15 DEF SameItem
  <2>. QED
    <3>1. /\ item = Messages[c.message][k] /\ IsNumber(item) /\ InItem(c, buffer, k, num, start)
          /\ c.pc = "utoa" /\ w.pc = "utoa"
      BY <1>1, <1>15
    <3>. QED
      BY ONLY <1>17, <2>1, <3>1, StillInItem
<1>19. CallInv(w, b2)
  BY <1>1, <1>14, <1>15, <1>18 DEF CallInv
<1>. QED
  BY <1>4, <1>19, Zenon

\* What utoa returns, and what itoa returns.
Returned(x, at, pc) == [x EXCEPT !.text = Static(at), !.pc = pc]

\* Its fields, and what is the same.
LEMMA ReturnedIs ==
  ASSUME NEW x, NEW at, NEW pc, x \in CallType, at \in Nat, pc \in {"sign", "fill"},
         NEW w, w = Returned(x, at, pc)
  PROVE  /\ w \in CallType /\ w.pc = pc /\ w.text.static /\ w.text.at = at
         /\ SameItem(x, w) /\ SameFlags(x, w) /\ w.base = x.base
<1>1. PICK text : text = Static(at)
  OBVIOUS
<1>2. text \in [static : BOOLEAN, chars : Seq(Character), at : Nat] /\ text.at = at
  <2>1. <<>> \in Seq(Character)
    OBVIOUS
  <2>. QED
    BY <1>1, <2>1 DEF Static
<1>3. text.static
  BY <1>1 DEF Static
<1>4. w = [x EXCEPT !.text = text, !.pc = pc]
  BY <1>1 DEF Returned
<1>5. w \in CallType
  BY <1>2, <1>4 DEF CallType
<1>6. w.pc = pc /\ w.text = text /\ w.base = x.base
  BY <1>4 DEF CallType
<1>7. SameItem(x, w)
  BY <1>4 DEF CallType, SameItem
<1>8. SameFlags(x, w)
  BY <1>4 DEF CallType, SameFlags
<1>. QED
  BY <1>2, <1>3, <1>5, <1>6, <1>7, <1>8

\* The digits of a call do not change by themselves.
LEMMA StoredStays ==
  ASSUME NEW x, NEW w, NEW b, NEW item, NEW num, NEW d, Stored(x, b, item, num, d), SameFlags(x, w)
  PROVE  Stored(w, b, item, num, d)
BY DEF Stored, SameFlags

\* The end of utoa.
LEMMA utoa_returnKeeps ==
  ASSUME CallInv(c, buffer), c.pc = "utoa", c.value = 0, c.digit < 14,
         NEW w, w = [c EXCEPT !.text = Static(c.digit + 1), !.pc = IF c.neg THEN "sign" ELSE "fill"]
  PROVE  CallInv(w, buffer) /\ Wrote(c)
<1>1. PICK k, num, start, item :
        /\ k \in Nat /\ num \in Word /\ start \in Nat
        /\ InItem(c, buffer, k, num, start) /\ c \in CallType
        /\ item = Messages[c.message][k] /\ WellFormed(item) /\ item.directive
        /\ IsNumber(item) /\ Converted(c, buffer, item, num)
  BY CarriedOut
<1>2. PICK base \in {10, 16} : base = Base(item)
  BY <1>1, ShownIs
<1>3. PICK d \in Nat, at \in Nat : d = 14 - c.digit /\ d > 0 /\ at = 15 - d /\ at = c.digit + 1
  <2>1. c.digit \in 0..14
    BY <1>1 DEF CallType
  <2>2. /\ 14 - c.digit \in Nat /\ 14 - c.digit > 0 /\ c.digit + 1 \in Nat
        /\ c.digit + 1 = 15 - (14 - c.digit)
    BY <2>1
  <2>. QED
    BY <2>2
<1>4. /\ d <= Len(Numeral(num, base)) /\ num \div Power[<<base, d>>] = 0
      /\ Stored(c, buffer, item, num, d)
  BY <1>1, <1>2, <1>3 DEF Converted, Places
<1>5. d = Len(Numeral(num, base))
  BY <1>1, <1>3, <1>4, DigitsLeft
<1>6. d = Places(item, num)
  BY <1>2, <1>5 DEF Places
<1>7. PICK pc \in {"sign", "fill"} : pc = IF c.neg THEN "sign" ELSE "fill"
  OBVIOUS
<1>8. w = Returned(c, at, pc)
  BY <1>3, <1>7 DEF Returned
<1>9. /\ w \in CallType /\ w.pc = pc /\ w.text.static /\ w.text.at = at
      /\ SameItem(c, w) /\ SameFlags(c, w) /\ w.base = c.base
  <2>1. c \in CallType /\ at \in Nat /\ pc \in {"sign", "fill"} /\ w = Returned(c, at, pc)
    BY <1>1, <1>3, <1>7, <1>8
  <2>. QED
    BY ONLY <2>1, ReturnedIs
<1>10. Stored(w, buffer, item, num, Places(item, num))
  BY <1>4, <1>6, <1>9, StoredStays
<1>11. Converted(w, buffer, item, num)
  <2>1. w.pc = "sign" <=> w.neg
    BY <1>7, <1>9 DEF SameFlags
  <2>2. w.text.at = 15 - Places(item, num)
    BY <1>3, <1>6, <1>9
  <2>3. w.base = Base(item) /\ (w.neg => item.char = "d" /\ Signed(w.message))
        /\ (~w.neg /\ item.args # <<>> => num = item.args[1])
    BY <1>1, <1>9 DEF Converted, SameFlags, SameItem
  <2>4. w.pc # "utoa" /\ w.text.static
    BY <1>7, <1>9
  <2>. QED
    BY ONLY <1>10, <2>1, <2>2, <2>3, <2>4 DEF Converted
<1>12. InItem(w, buffer, k, num, start)
  <2>1. /\ item = Messages[c.message][k] /\ IsNumber(item) /\ InItem(c, buffer, k, num, start)
        /\ c.pc = "utoa" /\ w.pc \in {"sign", "fill"} /\ SameItem(c, w)
    BY <1>1, <1>7, <1>9
  <2>. QED
    BY ONLY <1>11, <2>1, StillInItem
<1>13. CallInv(w, buffer)
  BY <1>1, <1>7, <1>9, <1>12 DEF CallInv
<1>. QED
  BY <1>13 DEF Wrote

\* The sign of a negative number.
LEMMA itoa_signKeeps ==
  ASSUME CallInv(c, buffer), BufferInv(buffer), c.pc = "sign",
         NEW b2, b2 = [buffer EXCEPT ![c.text.at] = "-"],
         NEW w, w = [c EXCEPT !.text = Static(c.text.at - 1), !.pc = "fill"]
  PROVE  /\ CallInv(w, b2) /\ BufferInv(b2) /\ \A i \in 0..15 : buffer[i] # NUL => b2[i] # NUL
         /\ ~Wrote(w)
<1>1. PICK k, num, start, item :
        /\ k \in Nat /\ num \in Word /\ start \in Nat
        /\ InItem(c, buffer, k, num, start) /\ c \in CallType
        /\ item = Messages[c.message][k] /\ WellFormed(item) /\ item.directive
        /\ IsNumber(item) /\ Converted(c, buffer, item, num)
  BY CarriedOut
<1>2. PICK d \in 1..DecimalDigits : d = Places(item, num)
  BY <1>1, ShownIs
<1>3. DecimalDigits \in Nat /\ DecimalDigits < 14
  BY FormatAssumption
<1>4. c.neg /\ c.text.at = 15 - d /\ Stored(c, buffer, item, num, d)
  BY <1>1, <1>2 DEF Converted
<1>5. PICK at \in 0..14 : at = c.text.at /\ at > 14 - DecimalDigits /\ at - 1 = 14 - d /\ at - 1 \in Nat
  BY <1>2, <1>3, <1>4
<1>6. PICK ch \in Chars \ {NUL} : ch = "-"
  BY DEF Chars, NUL
<1>7. /\ BufferInv(b2)
      /\ \A i \in 0..15 : buffer[i] # NUL => b2[i] # NUL
  <2>1. Stores(buffer, b2, at, ch)
    BY <1>5, <1>6 DEF Stores
  <2>2. BufferInv(buffer) /\ at \in 0..14 /\ at > 14 - DecimalDigits /\ ch \in Chars \ {NUL}
    BY <1>5
  <2>3. /\ BufferInv(b2) /\ b2[at] = ch
        /\ \A i \in 0..15 : i # at => b2[i] = buffer[i]
        /\ \A i \in 0..15 : buffer[i] # NUL => b2[i] # NUL
    BY ONLY <2>1, <2>2, StoredIs
  <2>. QED
    BY <2>3
<1>8. w = Returned(c, at - 1, "fill")
  BY <1>5 DEF Returned
<1>9. /\ w \in CallType /\ w.pc = "fill" /\ w.text.static /\ w.text.at = at - 1
      /\ SameItem(c, w) /\ SameFlags(c, w) /\ w.base = c.base
  <2>1. PICK to \in Nat, pc \in {"sign", "fill"} : to = at - 1 /\ pc = "fill"
    BY <1>5
  <2>2. c \in CallType /\ to \in Nat /\ pc \in {"sign", "fill"} /\ w = Returned(c, to, pc)
    BY <1>1, <1>8, <2>1
  <2>3. /\ w \in CallType /\ w.pc = pc /\ w.text.static /\ w.text.at = to
        /\ SameItem(c, w) /\ SameFlags(c, w) /\ w.base = c.base
    BY ONLY <2>2, ReturnedIs
  <2>. QED
    BY <2>1, <2>3
<1>10. Stored(w, b2, item, num, d)
  <2>1. ASSUME NEW j \in 0..(d - 1) PROVE b2[14 - j] # NUL
    <3>1. 14 - j \in 0..15
      BY <1>2, <1>3
    <3>2. buffer[14 - j] # NUL
      BY <1>4 DEF Stored
    <3>. QED
      BY <1>7, <3>1, <3>2
  <2>2. w.neg
    BY <1>4, <1>9 DEF SameFlags
  <2>. QED
    BY <2>1, <2>2 DEF Stored
<1>11. Converted(w, b2, item, num)
  <2>1. w.neg
    BY <1>4, <1>9 DEF SameFlags
  <2>2. w.text.at = 14 - Places(item, num) /\ Stored(w, b2, item, num, Places(item, num))
    BY <1>2, <1>5, <1>9, <1>10
  <2>3. w.base = Base(item) /\ (w.neg => item.char = "d" /\ Signed(w.message))
    BY <1>1, <1>9 DEF Converted, SameFlags, SameItem
  <2>4. w.pc = "fill" /\ w.text.static
    BY <1>9
  <2>. QED
    BY ONLY <2>1, <2>2, <2>3, <2>4 DEF Converted
<1>12. InItem(w, b2, k, num, start)
  <2>1. /\ item = Messages[c.message][k] /\ IsNumber(item) /\ InItem(c, buffer, k, num, start)
        /\ c.pc = "sign" /\ w.pc = "fill" /\ SameItem(c, w)
    BY <1>1, <1>9
  <2>. QED
    BY ONLY <1>11, <2>1, StillInItem
<1>13. CallInv(w, b2)
  BY <1>1, <1>9, <1>12 DEF CallInv
<1>. QED
  BY <1>7, <1>9, <1>13 DEF Wrote

\* The static text: up to the first NUL.
LEMMA StaticText ==
  ASSUME BufferInv(buffer), c.text.static, NEW at \in 0..15, at = c.text.at
  PROVE  /\ Text \in Seq(Printed) /\ Len(Text) <= 15 - at
         /\ \A i \in 1..Len(Text) : Text[i] = buffer[at + i - 1]
         /\ buffer[at] = NUL => Len(Text) = 0
         /\ (\A i \in at..14 : buffer[i] # NUL) => Len(Text) = 15 - at
<1> DEFINE N == {i \in at..15 : buffer[i] = NUL}
           end == Min(N)
<1>1. buffer \in [0..15 -> Chars] /\ buffer[15] = NUL
  BY DEF BufferInv
<1>2. N \in SUBSET Nat /\ 15 \in N
  BY <1>1
<1>3. end \in N /\ \A i \in N : end <= i
  BY <1>2, MinIs
<1>4. Text = [i \in 1..(end - at) |-> buffer[at + i - 1]]
  BY DEF Text
<1> HIDE DEF end
<1>5. end \in at..15 /\ buffer[end] = NUL /\ \A i \in at..15 : buffer[i] = NUL => end <= i
  BY <1>3
<1> HIDE DEF N
<1>6. PICK len \in Nat : len = end - at /\ len <= 15 - at
  <2>1. end - at \in Nat /\ end - at <= 15 - at
    BY <1>5
  <2>. QED
    BY <2>1
<1>7. ASSUME NEW i \in 1..len PROVE buffer[at + i - 1] \in Printed
  <2>1. at + i - 1 \in at..15 /\ at + i - 1 < end /\ at + i - 1 \in 0..15
    BY <1>5, <1>6
  <2>2. buffer[at + i - 1] \in Chars /\ buffer[at + i - 1] # NUL
    BY <1>1, <1>5, <2>1
  <2>. QED
    BY <2>2 DEF Printed
<1>8. Text \in Seq(Printed) /\ Len(Text) = len /\ \A i \in 1..len : Text[i] = buffer[at + i - 1]
  BY <1>4, <1>6, <1>7
<1>9. buffer[at] = NUL => len = 0
  BY <1>5, <1>6
<1>10. (\A i \in at..14 : buffer[i] # NUL) => len = 15 - at
  <2>1. end = 15 \/ end \in at..14
    BY <1>5
  <2>. QED
    BY <1>5, <1>6, <2>1
<1>. QED
  BY <1>6, <1>8, <1>9, <1>10

\* The text of the innermost call is what its directive shows, if anything is
\* promised.
Shows(item, num) ==
  /\ Text \in Seq(Printed)
  /\ IF IsNumber(item) /\ c.neg
     THEN Len(Text) <= DecimalDigits /\ Promised(c) = {}
     ELSE Len(Text) = Size(item, num) /\ \A view \in Promised(c) : Weaker(Shown(item, num, view), Text)

\* A negative number.
LEMMA NegativeShows ==
  ASSUME BufferInv(buffer), NEW num \in Word, NEW item, WellFormed(item), item.directive, IsNumber(item),
         c.pc \in {"fill", "strcpy", "next"}, Converted(c, buffer, item, num), c.neg
  PROVE  Shows(item, num)
<1>1. PICK d \in 1..DecimalDigits : d = Places(item, num)
  BY ShownIs
<1>2. DecimalDigits \in Nat /\ DecimalDigits < 14
  BY FormatAssumption
<1>3. c.text.static /\ c.text.at = 14 - d
  BY <1>1 DEF Converted
<1>4. PICK at \in 0..15 : at = c.text.at /\ at = 14 - d
  BY <1>1, <1>2, <1>3
<1>5. Text \in Seq(Printed) /\ Len(Text) <= 15 - at /\ (buffer[at] = NUL => Len(Text) = 0)
  BY <1>3, <1>4, StaticText
<1>6. Len(Text) \in Nat
  BY <1>5
<1>7. d = DecimalDigits => buffer[at] = NUL
  <2>1. d = DecimalDigits => at \in 0..(14 - DecimalDigits)
    BY <1>2, <1>4
  <2>. QED
    BY <2>1 DEF BufferInv
<1>8. Len(Text) <= DecimalDigits
  BY <1>1, <1>2, <1>4, <1>5, <1>6, <1>7
<1>9. Promised(c) = {}
  BY DEF Promised, Converted
<1>. QED
  BY <1>5, <1>8, <1>9 DEF Shows

\* Another number.
LEMMA NumberShows ==
  ASSUME BufferInv(buffer), NEW num \in Word, NEW item, WellFormed(item), item.directive, IsNumber(item),
         c.pc \in {"fill", "strcpy", "next"}, Converted(c, buffer, item, num), ~c.neg
  PROVE  Shows(item, num)
<1>1. PICK d \in 1..DecimalDigits, base \in {10, 16} : d = Places(item, num) /\ base = Base(item)
  BY ShownIs
<1>2. DecimalDigits \in Nat /\ DecimalDigits < 14
  BY FormatAssumption
<1>3. c.text.static /\ c.text.at = 15 - d /\ Stored(c, buffer, item, num, d)
  BY <1>1 DEF Converted
<1>4. PICK at \in 0..15 : at = c.text.at /\ at = 15 - d
  BY <1>1, <1>2, <1>3
<1>5. ASSUME NEW i \in at..14 PROVE buffer[i] # NUL
  <2>1. PICK j \in 0..(d - 1) : i = 14 - j
    <3>1. 14 - i \in 0..(d - 1) /\ i = 14 - (14 - i)
      BY <1>1, <1>2, <1>4
    <3>. QED
      BY <3>1
  <2>. QED
    BY <1>3, <2>1 DEF Stored
<1>6. Text \in Seq(Printed) /\ Len(Text) = 15 - at /\ \A i \in 1..Len(Text) : Text[i] = buffer[at + i - 1]
  BY <1>3, <1>4, <1>5, StaticText
<1>7. Len(Text) = d /\ Len(Text) = Size(item, num)
  <2>1. Size(item, num) = Places(item, num)
    BY ShownIs
  <2>. QED
    BY <1>1, <1>2, <1>4, <1>6, <2>1
<1>8. PICK s \in Seq(Chars \ {NUL}) :
        /\ s = Numeral(num, base) /\ Len(s) = d
        /\ \A i \in 1..d : s[i] = Digits[((num \div Power[<<base, d - i>>]) % base) + 1]
  <2>1. Len(Numeral(num, base)) = d
    BY <1>1 DEF Places
  <2>2. PICK s : s = Numeral(num, base)
    OBVIOUS
  <2>3. /\ s \in Seq(Chars \ {NUL})
        /\ \A i \in 1..d : s[i] = Digits[((num \div Power[<<base, d - i>>]) % base) + 1]
    <3>1. LET len == Len(Numeral(num, base))
          IN  /\ Numeral(num, base) \in Seq(Chars \ {NUL})
              /\ \A i \in 1..len : Numeral(num, base)[i] = Digits[((num \div Power[<<base, len - i>>]) % base) + 1]
      BY NumeralIs
    <3>. QED
      BY ONLY <2>1, <2>2, <3>1
  <2>. QED
    BY <2>1, <2>2, <2>3
<1>9. ASSUME NEW view \in Promised(c) PROVE Weaker(Shown(item, num, view), Text)
  <2>1. CASE view = "text"
    <3>1. Shown(item, num, view) = s
      BY <1>1, <1>8, <2>1 DEF Shown
    <3>2. ~c.overwritten
      BY <2>1 DEF Promised
    <3>3. ASSUME NEW i \in 1..d PROVE s[i] = Text[i]
      <4>1. PICK j \in 0..(d - 1) : j = d - i
        BY <1>1, <1>2
      <4>2. at + i - 1 = 14 - j
        BY <1>1, <1>2, <1>4, <4>1
      <4>3. buffer[14 - j] = Digits[((num \div Power[<<base, j>>]) % base) + 1]
        BY <1>1, <1>3, <3>2 DEF Stored
      <4>. QED
        BY <1>6, <1>7, <1>8, <4>1, <4>2, <4>3
    <3>. QED
      BY <1>7, <1>8, <3>1, <3>3 DEF Weaker
  <2>2. CASE view = "shape"
    <3>1. Shown(item, num, view) = Unknown(s)
      BY <1>1, <1>8, <2>2 DEF Shown
    <3>2. Len(Unknown(s)) = d /\ \A i \in 1..d : Unknown(s)[i] = ANY
      BY <1>8 DEF Unknown
    <3>. QED
      BY <1>7, <3>1, <3>2 DEF Weaker
  <2>. QED
    BY <2>1, <2>2 DEF Promised
<1>. QED
  BY <1>6, <1>7, <1>9 DEF Shows

\* All directives.
LEMMA TextShows ==
  ASSUME BufferInv(buffer), NEW num \in Word, NEW item, WellFormed(item), item.directive,
         c.pc \in {"fill", "strcpy", "next"}, IsNumber(item) => Converted(c, buffer, item, num),
         ~IsNumber(item) => ~c.text.static /\ c.text.chars = Shown(item, num, "text")
  PROVE  Shows(item, num)
<1>1. CASE IsNumber(item)
  BY <1>1, NegativeShows, NumberShows
<1>2. CASE ~IsNumber(item)
  <2>1. Text = Shown(item, num, "text")
    BY <1>2 DEF Text
  <2>2. ASSUME NEW view \in Promised(c) PROVE Weaker(Shown(item, num, view), Text)
    <3>1. view \in {"text", "shape"}
      BY DEF Promised
    <3>. QED
      BY <2>1, <3>1, ShownIs
  <2>3. Text \in Seq(Printed) /\ Len(Text) = Size(item, num)
    BY <2>1, ShownIs
  <2>. QED
    BY <1>2, <2>2, <2>3 DEF Shows
<1>. QED
  BY <1>1, <1>2

\* The first characters of a sequence, one more, and all of them.
LEMMA FirstIs ==
  ASSUME NEW S, NEW s \in Seq(S), NEW n \in Nat, n <= Len(s)
  PROVE  /\ SubSeq(s, 1, n) \in Seq(S) /\ Len(SubSeq(s, 1, n)) = n
         /\ SubSeq(s, 1, 0) = <<>> /\ SubSeq(s, 1, Len(s)) = s
         /\ n < Len(s) => SubSeq(s, 1, n + 1) = SubSeq(s, 1, n) \o <<s[n + 1]>> /\ s[n + 1] \in S
<1>1. SubSeq(s, 1, n) \in Seq(S) /\ Len(SubSeq(s, 1, n)) = n /\ SubSeq(s, 1, 0) = <<>> /\ SubSeq(s, 1, Len(s)) = s
  OBVIOUS
<1>2. ASSUME n < Len(s) PROVE SubSeq(s, 1, n + 1) = SubSeq(s, 1, n) \o <<s[n + 1]>> /\ s[n + 1] \in S
  BY <1>2
<1>. QED
  BY <1>1, <1>2

\* A call that is copying the same text.
SameText(x, w) ==
  /\ w.message = x.message /\ w.ap = x.ap /\ w.fmt = x.fmt /\ w.zeroes = x.zeroes /\ w.fill = x.fill
  /\ w.text = x.text /\ w.base = x.base /\ w.neg = x.neg /\ w.overwritten = x.overwritten

\* How far a directive is behind its conversion.
Reached(x, item, num, start) ==
  IF IsNumber(item) /\ x.neg
  THEN x.ptr \in start..(start + DecimalDigits) /\ x.copied <= DecimalDigits
  ELSE /\ x.ptr = start + Len(Lead(item)) + Pad(item, num)
       /\ x.copied <= Size(item, num)
       /\ x.pc = "next" => x.copied = Size(item, num)

\* A directive that shows its text goes on.
LEMMA StillShown ==
  ASSUME NEW x, NEW b, NEW k \in Nat, NEW num \in Word, NEW start \in Nat, InItem(x, b, k, num, start),
         x.pc \in {"fill", "strcpy", "next"}, NEW item, item = Messages[x.message][k],
         NEW w \in CallType, SameText(x, w), w.pc \in {"strcpy", "next"}, Reached(w, item, num, start),
         \A view \in Promised(x) : Holds(w.buf, Told(x.message, view, k - 1) \o Put(w, item, num, view))
  PROVE  CallInv(w, b)
<1>. /\ w.message = x.message /\ w.ap = x.ap /\ w.fmt = x.fmt /\ w.zeroes = x.zeroes /\ w.fill = x.fill
     /\ w.text = x.text /\ w.base = x.base /\ w.neg = x.neg /\ w.overwritten = x.overwritten
  BY DEF SameText
<1>1. /\ k \in 1..Len(Messages[x.message]) /\ item.directive /\ Behind(x, k) /\ start < BUFSZ
      /\ x.fmt = Len(Fmt(x.message, k)) /\ Width(item) = IF x.zeroes THEN x.fill ELSE 0
      /\ IF IsNumber(item) THEN Converted(x, b, item, num)
         ELSE ~x.text.static /\ x.text.chars = Shown(item, num, "text")
      /\ \A view \in Promised(x) : start = Len(Told(x.message, view, k - 1))
  BY DEF InItem
<1>2. Promised(w) = Promised(x)
  BY DEF Promised
<1>3. Behind(w, k)
  BY <1>1 DEF Behind
<1>4. IsNumber(item) => Converted(w, b, item, num)
  <2>1. SUFFICES ASSUME IsNumber(item) PROVE Converted(w, b, item, num)
    OBVIOUS
  <2>2. Stored(w, b, item, num, Places(item, num))
    <3>1. Stored(x, b, item, num, Places(item, num))
      BY <1>1, <2>1 DEF Converted
    <3>2. SameFlags(x, w)
      BY DEF SameFlags
    <3>. QED
      BY ONLY <3>1, <3>2, StoredStays
  <2>3. /\ w.base = Base(item) /\ (w.neg => item.char = "d" /\ Signed(w.message))
        /\ (~w.neg /\ item.args # <<>> => num = item.args[1])
        /\ w.text.static /\ w.text.at = IF w.neg THEN 14 - Places(item, num) ELSE 15 - Places(item, num)
    BY <1>1, <2>1 DEF Converted
  <2>. QED
    BY <2>2, <2>3 DEF Converted
<1>5. InItem(w, b, k, num, start)
  BY <1>1, <1>2, <1>3, <1>4 DEF InItem, Reached
<1>. QED
  BY <1>5 DEF CallInv

\* Sequences behind each other, the last one the first characters of another.
JoinsFour(S, before, lead, pad, s, n) ==
  LET laid(m) == lead \o (pad \o SubSeq(s, 1, m))
  IN  /\ laid(n) \in Seq(S) /\ before \o laid(n) \in Seq(S)
      /\ Len(before \o laid(n)) = Len(before) + Len(lead) + Len(pad) + n
      /\ laid(0) = lead \o pad /\ laid(Len(s)) = lead \o (pad \o s)
      /\ n < Len(s) => /\ s[n + 1] \in S
                       /\ before \o laid(n + 1) = (before \o laid(n)) \o <<s[n + 1]>>

\* Three sequences behind each other.
JoinsThree(S, x, y, z) == (x \o y) \o z = x \o (y \o z)

\* Joining sequences is associative.
LEMMA Joined ==
  ASSUME NEW S, NEW x \in Seq(S), NEW y \in Seq(S), NEW z \in Seq(S)
  PROVE  JoinsThree(S, x, y, z)
<1>1. (x \o y) \o z = x \o (y \o z)
  OBVIOUS
<1>. QED
  BY <1>1 DEF JoinsThree

\* The first characters of a text, and one more, after what is before it.
LEMMA JoinFour ==
  ASSUME NEW S, NEW before \in Seq(S), NEW lead \in Seq(S), NEW pad \in Seq(S), NEW s \in Seq(S),
         NEW n \in Nat, n <= Len(s)
  PROVE  JoinsFour(S, before, lead, pad, s, n)
<1> DEFINE laid(m) == lead \o (pad \o SubSeq(s, 1, m))
<1>3. /\ SubSeq(s, 1, n) \in Seq(S) /\ Len(SubSeq(s, 1, n)) = n
      /\ SubSeq(s, 1, 0) = <<>> /\ SubSeq(s, 1, Len(s)) = s
      /\ n < Len(s) => SubSeq(s, 1, n + 1) = SubSeq(s, 1, n) \o <<s[n + 1]>> /\ s[n + 1] \in S
  BY FirstIs
<1>4. PICK t \in Seq(S) : t = SubSeq(s, 1, n) /\ Len(t) = n
  BY <1>3
<1>5. PICK u \in Seq(S) : u = pad \o t /\ Len(u) = Len(pad) + n
  <2>1. pad \o t \in Seq(S) /\ Len(pad \o t) = Len(pad) + Len(t)
    BY JoinIs
  <2>. QED
    BY <1>4, <2>1
<1>6. PICK v \in Seq(S) : v = lead \o u /\ Len(v) = Len(lead) + Len(pad) + n
  <2>1. lead \o u \in Seq(S) /\ Len(lead \o u) = Len(lead) + Len(u)
    BY JoinIs
  <2>2. Len(lead) \in Nat /\ Len(pad) \in Nat
    OBVIOUS
  <2>3. PICK x \in Seq(S) : x = lead \o u
    BY <2>1
  <2>4. Len(x) = Len(lead) + Len(pad) + n
    BY <1>5, <2>1, <2>2, <2>3
  <2>. QED
    BY <2>3, <2>4
<1>7. before \o v \in Seq(S) /\ Len(before \o v) = Len(before) + Len(lead) + Len(pad) + n
  <2>1. before \o v \in Seq(S) /\ Len(before \o v) = Len(before) + Len(v)
    BY JoinIs
  <2>2. Len(before) \in Nat /\ Len(lead) \in Nat /\ Len(pad) \in Nat
    OBVIOUS
  <2>. QED
    BY <1>6, <2>1, <2>2
<1>8. laid(0) = lead \o pad
  <2>1. pad \o <<>> = pad
    BY EmptyJoin
  <2>. QED
    BY <1>3, <2>1
<1>9. laid(Len(s)) = lead \o (pad \o s)
  BY <1>3
<1>11. laid(n) = v
  BY <1>4, <1>5, <1>6
<1>10. ASSUME n < Len(s)
       PROVE  s[n + 1] \in S /\ before \o laid(n + 1) = (before \o v) \o <<s[n + 1]>>
  <2>1. PICK e \in Seq(S) : e = <<s[n + 1]>> /\ s[n + 1] \in S /\ SubSeq(s, 1, n + 1) = t \o e
    <3>1. s[n + 1] \in S /\ SubSeq(s, 1, n + 1) = t \o <<s[n + 1]>>
      BY <1>3, <1>4, <1>10
    <3>2. PICK x \in S : x = s[n + 1]
      BY <3>1
    <3>3. <<x>> \in Seq(S)
      OBVIOUS
    <3>. QED
      BY <3>1, <3>2, <3>3
  <2>2. pad \o (t \o e) = u \o e
    <3>1. (pad \o t) \o e = pad \o (t \o e)
      <4>1. JoinsThree(S, pad, t, e)
        BY Joined
      <4>. QED
        BY ONLY <4>1 DEF JoinsThree
    <3>. QED
      BY <1>5, <3>1
  <2>3. lead \o (u \o e) = v \o e
    <3>1. (lead \o u) \o e = lead \o (u \o e)
      <4>1. JoinsThree(S, lead, u, e)
        BY Joined
      <4>. QED
        BY ONLY <4>1 DEF JoinsThree
    <3>. QED
      BY <1>6, <3>1
  <2>4. before \o (v \o e) = (before \o v) \o e
    <3>1. JoinsThree(S, before, v, e)
      BY Joined
    <3>. QED
      BY ONLY <3>1 DEF JoinsThree
  <2>5. laid(n + 1) = lead \o (pad \o (t \o e))
    BY <2>1
  <2>. QED
    BY <2>1, <2>2, <2>3, <2>4, <2>5
<1>12. laid(n) \in Seq(S)
  BY <1>6, <1>11
<1> HIDE DEF laid
<1>13. /\ laid(n) \in Seq(S) /\ before \o laid(n) \in Seq(S)
       /\ Len(before \o laid(n)) = Len(before) + Len(lead) + Len(pad) + n
       /\ laid(0) = lead \o pad /\ laid(Len(s)) = lead \o (pad \o s)
       /\ n < Len(s) => /\ s[n + 1] \in S
                        /\ before \o laid(n + 1) = (before \o laid(n)) \o <<s[n + 1]>>
  BY <1>7, <1>8, <1>9, <1>10, <1>11, <1>12
<1>. QED
  BY <1>13 DEF laid, JoinsFour

\* What Put is while a directive shows its text.
Laid(item, num, view, n) == Lead(item) \o (Zeroes(Pad(item, num)) \o SubSeq(Shown(item, num, view), 1, n))

\* Its characters after others, its length, and one character more.
LaidAfter(before, item, num, view, n) ==
  /\ before \o Laid(item, num, view, n) \in Seq(Printed \cup {ANY})
  /\ Len(before \o Laid(item, num, view, n)) = Len(before) + Len(Lead(item)) + Pad(item, num) + n
  /\ Laid(item, num, view, 0) = Lead(item) \o Zeroes(Pad(item, num))
  /\ Laid(item, num, view, Size(item, num)) = Whole(item, num, view)
  /\ n < Size(item, num) =>
       /\ Shown(item, num, view)[n + 1] \in Printed \cup {ANY}
       /\ before \o Laid(item, num, view, n + 1)
            = (before \o Laid(item, num, view, n)) \o <<Shown(item, num, view)[n + 1]>>

\* So it is for every directive.
LEMMA LaidIs ==
  ASSUME NEW item, WellFormed(item), item.directive, NEW num \in Word, NEW view \in {"text", "shape"},
         NEW n \in Nat, n <= Size(item, num), NEW before \in Seq(Printed \cup {ANY})
  PROVE  LaidAfter(before, item, num, view, n)
<1>1. PICK lead \in Seq(Printed \cup {ANY}), pad \in Seq(Printed \cup {ANY}) :
        /\ lead = Lead(item) /\ pad = Zeroes(Pad(item, num)) /\ Len(pad) = Pad(item, num)
  <2>1. Lead(item) \in Seq(Printed) /\ Pad(item, num) \in Nat
    BY LeadIs, WidthIs
  <2>2. Zeroes(Pad(item, num)) \in Seq(Printed) /\ Len(Zeroes(Pad(item, num))) = Pad(item, num)
    BY <2>1, ZeroesIs
  <2>3. Lead(item) \in Seq(Printed \cup {ANY}) /\ Zeroes(Pad(item, num)) \in Seq(Printed \cup {ANY})
    BY <2>1, <2>2
  <2>. QED
    BY <2>2, <2>3
<1>2. PICK s \in Seq(Printed \cup {ANY}) : s = Shown(item, num, view) /\ Len(s) = Size(item, num)
  BY ShownIs
<1>3. n <= Len(s)
  BY <1>2
<1> DEFINE laid(m) == lead \o (pad \o SubSeq(s, 1, m))
<1>4. /\ laid(n) \in Seq(Printed \cup {ANY}) /\ before \o laid(n) \in Seq(Printed \cup {ANY})
      /\ Len(before \o laid(n)) = Len(before) + Len(lead) + Len(pad) + n
      /\ laid(0) = lead \o pad /\ laid(Len(s)) = lead \o (pad \o s)
      /\ n < Len(s) => /\ s[n + 1] \in Printed \cup {ANY}
                       /\ before \o laid(n + 1) = (before \o laid(n)) \o <<s[n + 1]>>
  <2>1. /\ before \in Seq(Printed \cup {ANY}) /\ lead \in Seq(Printed \cup {ANY}) /\ pad \in Seq(Printed \cup {ANY})
        /\ s \in Seq(Printed \cup {ANY}) /\ n \in Nat
    OBVIOUS
  <2>2. JoinsFour(Printed \cup {ANY}, before, lead, pad, s, n)
    BY ONLY <1>3, <2>1, JoinFour
  <2>. QED
    BY <2>2 DEF JoinsFour
<1>5. \A m : laid(m) = Laid(item, num, view, m)
  BY <1>1, <1>2 DEF Laid
<1>6. lead \o (pad \o s) = Whole(item, num, view)
  BY <1>1, <1>2 DEF Whole
<1> HIDE DEF laid
<1>. QED
  BY <1>1, <1>2, <1>4, <1>5, <1>6 DEF LaidAfter

\* Before the text.
LEMMA LaidNone ==
  ASSUME NEW item, WellFormed(item), item.directive, NEW num \in Word, NEW view \in {"text", "shape"}
  PROVE  Laid(item, num, view, 0) = Lead(item) \o Zeroes(Pad(item, num))
<1>1. <<>> \in Seq(Printed \cup {ANY}) /\ 0 \in Nat /\ 0 <= Size(item, num)
  BY ShownIs
<1>2. PICK none \in Seq(Printed \cup {ANY}), n \in Nat : n = 0 /\ n <= Size(item, num)
  BY <1>1
<1>3. LaidAfter(none, item, num, view, n)
  BY <1>2, LaidIs
<1>. QED
  BY <1>3 DEF LaidAfter

\* The zeroes.
LEMMA fillKeeps ==
  ASSUME CallInv(c, buffer), BufferInv(buffer), c.pc = "fill",
         NEW w, w = [put(c, Zeroes(missing(Len(Text)))) EXCEPT !.pc = "strcpy"]
  PROVE  CallInv(w, buffer) /\ ~Wrote(w)
<1>1. PICK k, num, start, item :
        /\ k \in Nat /\ num \in Word /\ start \in Nat
        /\ InItem(c, buffer, k, num, start) /\ c \in CallType /\ c.message \in DOMAIN Messages
        /\ k \in 1..Len(Messages[c.message]) /\ Len(Messages[c.message]) \in Nat
        /\ item = Messages[c.message][k] /\ WellFormed(item) /\ item.directive /\ start < BUFSZ
        /\ IsNumber(item) => Converted(c, buffer, item, num)
        /\ ~IsNumber(item) => ~c.text.static /\ c.text.chars = Shown(item, num, "text")
  BY CarriedOut
<1>0. BUFSZ \in Nat \ {0} /\ Slack \in Nat /\ DecimalDigits \in Nat
  BY FormatAssumption
<1>2. Shows(item, num)
  BY <1>1, TextShows
<1>3. /\ c.ptr = start + Len(Lead(item)) /\ c.copied = 0 /\ c.fill \in Nat /\ c.buf \in [Place -> Character]
      /\ Width(item) = IF c.zeroes THEN c.fill ELSE 0
  BY <1>1 DEF InItem, CallType
<1>4. PICK lead \in Nat, pad \in Nat, size \in Nat, width \in Nat :
        /\ lead = Len(Lead(item)) /\ pad = Pad(item, num) /\ size = Size(item, num) /\ width = Width(item)
        /\ lead + pad + size <= Slack + 1
  BY <1>1, WidthIs, ShownIs, SMTT(30)
<1>5. PICK len \in Nat : len = Len(Text)
  BY <1>2 DEF Shows
<1>6. PICK n \in Nat : n = missing(Len(Text)) /\ n = IF len < width THEN width - len ELSE 0
  <2>1. missing(Len(Text)) = IF len < width THEN width - len ELSE 0
    BY <1>3, <1>4, <1>5 DEF missing
  <2>. QED
    BY <1>4, <1>5, <2>1
<1>7. PICK chars \in Seq(Printed) : chars = Zeroes(n) /\ Len(chars) = n
  BY ZeroesIs
<1>8. PICK ptr \in Nat, buf \in [Place -> Character] : ptr = c.ptr + n /\ buf = store(c, c.ptr, chars)
  <2>1. chars \in Seq(Character) /\ c.ptr \in Nat
    BY <1>1, PrintedIs DEF CallType
  <2>2. store(c, c.ptr, chars) \in [Place -> Character]
    BY <1>3, <2>1, StoreType
  <2>. QED
    BY <2>1, <2>2
<1>9. w = [c EXCEPT !.ptr = ptr, !.buf = buf, !.pc = "strcpy"]
  BY <1>1, <1>6, <1>7, <1>8 DEF put, CallType
<1>10. w \in CallType
  BY <1>1, <1>8, <1>9, ZenonT(40) DEF CallType
<1>11. w.pc = "strcpy" /\ w.ptr = ptr /\ w.buf = buf /\ w.copied = 0
  BY <1>1, <1>3, <1>9 DEF CallType
<1>12. SameText(c, w)
  BY <1>1, <1>9 DEF CallType, SameText
<1>13. IsNumber(item) /\ c.neg => Lead(item) = <<>> /\ lead = 0 /\ width <= DecimalDigits
  <2>1. IsNumber(item) /\ c.neg => item.char = "d"
    BY <1>1 DEF Converted
  <2>2. item.char = "d" => Lead(item) = <<>> /\ Len(Lead(item)) = 0
    BY <1>1, LeadIs
  <2>3. item.char = "d" => Width(item) \in {0, DecimalDigits}
    BY DEF Width
  <2>4. 0 <= DecimalDigits /\ DecimalDigits <= DecimalDigits
    BY <1>0
  <2>. QED
    BY <1>4, <2>1, <2>2, <2>3, <2>4
<1>14. ~(IsNumber(item) /\ c.neg) => len = size /\ n = pad
  <2>1. pad = IF size < width THEN width - size ELSE 0
    BY <1>4 DEF Pad
  <2>2. ~(IsNumber(item) /\ c.neg) => len = size
    BY <1>2, <1>4, <1>5 DEF Shows
  <2>. QED
    BY <1>6, <2>1, <2>2
<1>15. Reached(w, item, num, start)
  <2>1. w.neg = c.neg
    BY <1>12 DEF SameText
  <2>2. CASE IsNumber(item) /\ c.neg
    <3>1. ptr = start + n
      BY <1>1, <1>3, <1>4, <1>8, <1>13, <2>2
    <3>2. n <= DecimalDigits
      BY <1>0, <1>5, <1>6, <1>13, <2>2
    <3>3. ptr \in start..(start + DecimalDigits)
      BY <1>0, <1>1, <3>1, <3>2, SMTT(30)
    <3>4. 0 <= DecimalDigits
      BY <1>0
    <3>. QED
      BY <1>11, <2>1, <2>2, <3>3, <3>4 DEF Reached
  <2>3. CASE ~(IsNumber(item) /\ c.neg)
    <3>1. ptr = start + Len(Lead(item)) + Pad(item, num)
      BY <1>3, <1>4, <1>8, <1>14, <2>3
    <3>. QED
      BY <1>4, <1>11, <2>1, <2>3, <3>1 DEF Reached
  <2>. QED
    BY <2>2, <2>3
<1>16. ASSUME NEW view \in Promised(c)
       PROVE  Holds(w.buf, Told(c.message, view, k - 1) \o Put(w, item, num, view))
  <2>1. ~(IsNumber(item) /\ c.neg)
    BY <1>2 DEF Shows
  <2>2. view \in {"text", "shape"}
    BY DEF Promised
  <2>3. PICK before \in Seq(Printed \cup {ANY}) : before = Told(c.message, view, k - 1)
    <3>1. k - 1 \in 0..Len(Messages[c.message])
      BY <1>1, SMTT(30)
    <3>. QED
      BY <1>1, <2>2, <3>1, ToldType
  <2>4. PICK first \in Seq(Printed) : first = Lead(item) /\ first \in Seq(Printed \cup {ANY}) /\ Len(first) = lead
    <3>1. Lead(item) \in Seq(Printed)
      BY <1>1, LeadIs
    <3>2. Lead(item) \in Seq(Printed \cup {ANY})
      BY <3>1
    <3>. QED
      BY <1>4, <3>1, <3>2
  <2>5. start = Len(before) /\ Holds(c.buf, before \o first)
    BY <1>1, <2>3, <2>4 DEF InItem, Put
  <2>6. PICK s \in Seq(Printed \cup {ANY}) : s = before \o first /\ Len(s) = Len(before) + lead
    BY <2>4, JoinIs
  <2>7. chars \in Seq(Printed \cup {ANY}) /\ Weaker(chars, chars)
    BY DEF Weaker
  <2>8. Len(s) = c.ptr /\ Len(s) + Len(chars) <= BUFSZ + Slack + 1
    BY <1>0, <1>1, <1>3, <1>4, <1>7, <1>14, <2>1, <2>5, <2>6, SMTT(30)
  <2>9. Holds(buf, s \o chars)
    BY <1>3, <1>8, <2>5, <2>6, <2>7, <2>8, PutHolds
  <2>10. s \o chars = before \o (first \o chars)
    <3>1. before \in Seq(Printed \cup {ANY}) /\ first \in Seq(Printed \cup {ANY}) /\ chars \in Seq(Printed \cup {ANY})
          /\ s = before \o first
      BY <2>4, <2>6, <2>7
    <3>. QED
      BY ONLY <3>1
  <2>11. Put(w, item, num, view) = first \o chars
    <3>1. Put(w, item, num, view) = Laid(item, num, view, 0)
      BY <1>11 DEF Put, Laid
    <3>2. Laid(item, num, view, 0) = Lead(item) \o Zeroes(Pad(item, num))
      BY <1>1, <2>2, LaidNone
    <3>3. chars = Zeroes(Pad(item, num))
      BY <1>4, <1>7, <1>14, <2>1
    <3>. QED
      BY <2>4, <3>1, <3>2, <3>3
  <2>. QED
    BY <1>11, <2>3, <2>9, <2>10, <2>11
<1>17. CallInv(w, buffer)
  <2>1. w.pc \in {"strcpy", "next"} /\ c.pc \in {"fill", "strcpy", "next"}
    BY <1>11
  <2>. QED
    BY <1>1, <1>10, <1>12, <1>15, <1>16, <2>1, StillShown, ZenonT(40)
<1>. QED
  BY <1>11, <1>17 DEF Wrote

\* One character of the text.
LEMMA copyKeeps ==
  ASSUME CallInv(c, buffer), BufferInv(buffer), c.pc = "strcpy", c.copied < Len(Text),
         NEW w, w = [c EXCEPT !.buf = store(c, c.ptr + c.copied, <<Text[c.copied + 1]>>), !.copied = c.copied + 1]
  PROVE  CallInv(w, buffer) /\ ~Wrote(w)
<1>1. PICK k, num, start, item :
        /\ k \in Nat /\ num \in Word /\ start \in Nat
        /\ InItem(c, buffer, k, num, start) /\ c \in CallType /\ c.message \in DOMAIN Messages
        /\ k \in 1..Len(Messages[c.message]) /\ Len(Messages[c.message]) \in Nat
        /\ item = Messages[c.message][k] /\ WellFormed(item) /\ item.directive /\ start < BUFSZ
        /\ IsNumber(item) => Converted(c, buffer, item, num)
        /\ ~IsNumber(item) => ~c.text.static /\ c.text.chars = Shown(item, num, "text")
  BY CarriedOut
<1>0. BUFSZ \in Nat \ {0} /\ Slack \in Nat /\ DecimalDigits \in Nat
  BY FormatAssumption
<1>2. Shows(item, num)
  BY <1>1, TextShows
<1>3. PICK n \in Nat : n = c.copied
  BY <1>1 DEF CallType
<1>4. c.ptr \in Nat /\ c.buf \in [Place -> Character] /\ Reached(c, item, num, start)
  BY <1>1 DEF InItem, CallType, Reached
<1>5. PICK ch \in Printed : ch = Text[n + 1]
  <2>1. Text \in Seq(Printed) /\ n + 1 \in 1..Len(Text)
    BY <1>2, <1>3 DEF Shows
  <2>. QED
    BY <2>1
<1>6. PICK chars \in Seq(Printed) : chars = <<ch>> /\ Len(chars) = 1 /\ chars[1] = ch
  <2>1. <<ch>> \in Seq(Printed) /\ Len(<<ch>>) = 1 /\ <<ch>>[1] = ch
    OBVIOUS
  <2>. QED
    BY <2>1
<1>7. PICK copied \in Nat, buf \in [Place -> Character] : copied = n + 1 /\ buf = store(c, c.ptr + n, chars)
  <2>1. chars \in Seq(Character) /\ c.ptr + n \in Nat
    BY <1>4, PrintedIs
  <2>2. store(c, c.ptr + n, chars) \in [Place -> Character]
    BY <1>4, <2>1, StoreType
  <2>. QED
    BY <2>2
<1>8. w = [c EXCEPT !.buf = buf, !.copied = copied]
  BY <1>3, <1>5, <1>6, <1>7
<1>9. w \in CallType
  BY <1>1, <1>7, <1>8, ZenonT(40) DEF CallType
<1>10. w.pc = "strcpy" /\ w.ptr = c.ptr /\ w.buf = buf /\ w.copied = copied
  BY <1>1, <1>8 DEF CallType
<1>11. SameText(c, w)
  BY <1>1, <1>8 DEF CallType, SameText
<1>12. ~(IsNumber(item) /\ c.neg) => n < Size(item, num) /\ copied <= Size(item, num)
  <2>1. ~(IsNumber(item) /\ c.neg) => Len(Text) = Size(item, num)
    BY <1>2 DEF Shows
  <2>2. Size(item, num) \in Nat
    BY <1>1, ShownIs
  <2>. QED
    BY <1>3, <1>7, <2>1, <2>2
<1>13. Reached(w, item, num, start)
  <2>1. w.neg = c.neg
    BY <1>11 DEF SameText
  <2>2. IsNumber(item) /\ c.neg => copied <= DecimalDigits
    <3>1. Len(Text) \in Nat
      BY <1>2 DEF Shows
    <3>2. IsNumber(item) /\ c.neg => Len(Text) <= DecimalDigits
      BY <1>2 DEF Shows
    <3>. QED
      BY <1>0, <1>3, <1>7, <3>1, <3>2
  <2>. QED
    BY <1>4, <1>10, <1>12, <2>1, <2>2 DEF Reached
<1>14. ASSUME NEW view \in Promised(c)
       PROVE  Holds(w.buf, Told(c.message, view, k - 1) \o Put(w, item, num, view))
  <2>1. ~(IsNumber(item) /\ c.neg)
    BY <1>2 DEF Shows
  <2>2. view \in {"text", "shape"}
    BY DEF Promised
  <2>3. PICK before \in Seq(Printed \cup {ANY}) : before = Told(c.message, view, k - 1)
    <3>1. k - 1 \in 0..Len(Messages[c.message])
      BY <1>1
    <3>. QED
      BY <1>1, <2>2, <3>1, ToldType
  <2>4. n \in Nat /\ n <= Size(item, num) /\ n < Size(item, num) /\ Size(item, num) \in Nat
    BY <1>1, <1>12, <2>1, ShownIs
  <2>5. /\ before \o Laid(item, num, view, n) \in Seq(Printed \cup {ANY})
        /\ Len(before \o Laid(item, num, view, n)) = Len(before) + Len(Lead(item)) + Pad(item, num) + n
        /\ Shown(item, num, view)[n + 1] \in Printed \cup {ANY}
        /\ before \o Laid(item, num, view, n + 1)
             = (before \o Laid(item, num, view, n)) \o <<Shown(item, num, view)[n + 1]>>
    <3>1. /\ WellFormed(item) /\ item.directive /\ num \in Word /\ view \in {"text", "shape"}
          /\ before \in Seq(Printed \cup {ANY})
      BY <1>1, <2>2
    <3>2. LaidAfter(before, item, num, view, n)
      BY ONLY <2>4, <3>1, LaidIs
    <3>. QED
      BY <2>4, <3>2 DEF LaidAfter
  <2>6. PICK s \in Seq(Printed \cup {ANY}) : s = before \o Laid(item, num, view, n)
    BY <2>5
  <2>7. start = Len(before) /\ Holds(c.buf, s)
    <3>1. Put(c, item, num, view) = Laid(item, num, view, n)
      BY <1>3 DEF Put, Laid
    <3>. QED
      BY <1>1, <2>3, <2>6, <3>1 DEF InItem
  <2>8. Len(s) = c.ptr + n /\ Len(s) + Len(chars) <= BUFSZ + Slack + 1
    <3>1. PICK lead \in Nat, pad \in Nat, size \in Nat :
            /\ lead = Len(Lead(item)) /\ pad = Pad(item, num) /\ size = Size(item, num)
            /\ lead + pad + size <= Slack + 1
      BY <1>1, WidthIs, ShownIs
    <3>2. c.ptr = start + lead + pad
      BY <1>4, <2>1, <3>1 DEF Reached
    <3>3. Len(s) = start + lead + pad + n
      BY <2>5, <2>6, <2>7, <3>1
    <3>4. /\ start \in Nat /\ start < BUFSZ /\ n \in Nat /\ n < size
          /\ lead \in Nat /\ pad \in Nat /\ size \in Nat /\ lead + pad + size <= Slack + 1
      BY <1>1, <2>4, <3>1
    <3>5. start + lead + pad + n + 1 <= BUFSZ + Slack
      BY ONLY <1>0, <3>4
    <3>6. Len(s) = c.ptr + n
      BY <3>2, <3>3, <3>4
    <3>7. Len(s) + 1 <= BUFSZ + Slack + 1
      BY ONLY <1>0, <3>3, <3>4, <3>5
    <3>. QED
      BY <1>6, <3>6, <3>7
  <2>9. PICK e \in Seq(Printed \cup {ANY}) :
          e = <<Shown(item, num, view)[n + 1]>> /\ Len(e) = 1 /\ e[1] = Shown(item, num, view)[n + 1]
    <3>1. PICK x \in Printed \cup {ANY} : x = Shown(item, num, view)[n + 1]
      BY <2>5
    <3>2. <<x>> \in Seq(Printed \cup {ANY}) /\ Len(<<x>>) = 1 /\ <<x>>[1] = x
      OBVIOUS
    <3>. QED
      BY <3>1, <3>2
  <2>10. Weaker(e, chars)
    <3>1. Weaker(Shown(item, num, view), Text)
      BY <1>2, <2>1 DEF Shows
    <3>2. n + 1 \in 1..Len(Text)
      <4>1. Len(Text) \in Nat
        BY <1>2 DEF Shows
      <4>. QED
        BY <1>3, <4>1
    <3>3. e[1] # ANY => e[1] = chars[1]
      BY <1>5, <1>6, <2>9, <3>1, <3>2 DEF Weaker
    <3>. QED
      BY <1>6, <2>9, <3>3 DEF Weaker
  <2>11. Holds(buf, s \o e)
    <3>1. PICK old \in [Place -> Character] : old = c.buf
      BY <1>4
    <3>2. buf = store(c, Len(s), chars)
      BY <1>7, <2>8
    <3>. QED
      BY <2>7, <2>8, <2>10, <3>1, <3>2, PutHolds
  <2>12. Put(w, item, num, view) = Laid(item, num, view, n + 1)
    BY <1>7, <1>10 DEF Put, Laid
  <2>. QED
    BY <1>10, <2>3, <2>5, <2>6, <2>9, <2>11, <2>12
<1>15. CallInv(w, buffer)
  <2>1. w.pc \in {"strcpy", "next"} /\ c.pc \in {"fill", "strcpy", "next"}
    BY <1>10
  <2>2. k \in Nat /\ num \in Word /\ start \in Nat /\ InItem(c, buffer, k, num, start) /\ item = Messages[c.message][k]
    BY <1>1
  <2>. QED
    BY ONLY <1>9, <1>11, <1>13, <1>14, <2>1, <2>2, StillShown
<1>. QED
  BY <1>10, <1>15 DEF Wrote

\* The end of the text.
LEMMA copiedKeeps ==
  ASSUME CallInv(c, buffer), BufferInv(buffer), c.pc = "strcpy", ~(c.copied < Len(Text)),
         NEW w, w = [c EXCEPT !.buf = store(c, c.ptr + c.copied, <<NUL>>), !.pc = "next"]
  PROVE  CallInv(w, buffer) /\ ~Wrote(w)
<1>1. PICK k, num, start, item :
        /\ k \in Nat /\ num \in Word /\ start \in Nat
        /\ InItem(c, buffer, k, num, start) /\ c \in CallType /\ c.message \in DOMAIN Messages
        /\ k \in 1..Len(Messages[c.message]) /\ Len(Messages[c.message]) \in Nat
        /\ item = Messages[c.message][k] /\ WellFormed(item) /\ item.directive /\ start < BUFSZ
        /\ IsNumber(item) => Converted(c, buffer, item, num)
        /\ ~IsNumber(item) => ~c.text.static /\ c.text.chars = Shown(item, num, "text")
  BY CarriedOut
<1>0. BUFSZ \in Nat \ {0} /\ Slack \in Nat /\ DecimalDigits \in Nat
  BY FormatAssumption
<1>2. Shows(item, num)
  BY <1>1, TextShows
<1>3. PICK n \in Nat : n = c.copied
  BY <1>1 DEF CallType
<1>4. c.ptr \in Nat /\ c.buf \in [Place -> Character] /\ Reached(c, item, num, start)
  BY <1>1 DEF InItem, CallType, Reached
<1>5. NUL \in Character /\ <<NUL>> \in Seq(Character)
  BY PrintedIs
<1>7. PICK buf \in [Place -> Character] : buf = store(c, c.ptr + n, <<NUL>>)
  <2>1. c.ptr + n \in Nat
    BY <1>4
  <2>. QED
    BY <1>4, <1>5, <2>1, StoreType
<1>8. w = [c EXCEPT !.buf = buf, !.pc = "next"]
  BY <1>3, <1>7
<1>9. w \in CallType
  BY <1>1, <1>7, <1>8, ZenonT(40) DEF CallType
<1>10. w.pc = "next" /\ w.ptr = c.ptr /\ w.buf = buf /\ w.copied = n
  BY <1>1, <1>3, <1>8 DEF CallType
<1>11. SameText(c, w)
  BY <1>1, <1>8 DEF CallType, SameText
<1>12. ~(IsNumber(item) /\ c.neg) => n = Size(item, num)
  <2>1. ~(IsNumber(item) /\ c.neg) => Len(Text) = Size(item, num)
    BY <1>2 DEF Shows
  <2>2. Size(item, num) \in Nat
    BY <1>1, ShownIs
  <2>3. ~(IsNumber(item) /\ c.neg) => n <= Size(item, num)
    BY <1>3, <1>4 DEF Reached
  <2>. QED
    BY <1>3, <2>1, <2>2, <2>3
<1>13. Reached(w, item, num, start)
  <2>1. w.neg = c.neg
    BY <1>11 DEF SameText
  <2>. QED
    BY <1>3, <1>4, <1>10, <1>12, <2>1 DEF Reached
<1>14. ASSUME NEW view \in Promised(c)
       PROVE  Holds(w.buf, Told(c.message, view, k - 1) \o Put(w, item, num, view))
  <2>1. ~(IsNumber(item) /\ c.neg)
    BY <1>2 DEF Shows
  <2>2. view \in {"text", "shape"}
    BY DEF Promised
  <2>3. PICK before \in Seq(Printed \cup {ANY}) : before = Told(c.message, view, k - 1)
    <3>1. k - 1 \in 0..Len(Messages[c.message])
      BY <1>1
    <3>. QED
      BY <1>1, <2>2, <3>1, ToldType
  <2>4. n \in Nat /\ n <= Size(item, num) /\ Size(item, num) \in Nat
    BY <1>1, <1>12, <2>1, ShownIs
  <2>5. /\ before \o Laid(item, num, view, n) \in Seq(Printed \cup {ANY})
        /\ Len(before \o Laid(item, num, view, n)) = Len(before) + Len(Lead(item)) + Pad(item, num) + n
    <3>1. /\ WellFormed(item) /\ item.directive /\ num \in Word /\ view \in {"text", "shape"}
          /\ before \in Seq(Printed \cup {ANY})
      BY <1>1, <2>2
    <3>2. LaidAfter(before, item, num, view, n)
      BY ONLY <2>4, <3>1, LaidIs
    <3>. QED
      BY <2>4, <3>2 DEF LaidAfter
  <2>6. PICK s \in Seq(Printed \cup {ANY}) : s = before \o Laid(item, num, view, n)
    BY <2>5
  <2>7. start = Len(before) /\ Holds(c.buf, s)
    <3>1. Put(c, item, num, view) = Laid(item, num, view, n)
      BY <1>3 DEF Put, Laid
    <3>. QED
      BY <1>1, <2>3, <2>6, <3>1 DEF InItem
  <2>8. Len(s) = c.ptr + n /\ Len(s) <= BUFSZ + Slack + 1
    <3>1. PICK lead \in Nat, pad \in Nat, size \in Nat :
            /\ lead = Len(Lead(item)) /\ pad = Pad(item, num) /\ size = Size(item, num)
            /\ lead + pad + size <= Slack + 1
      BY <1>1, WidthIs, ShownIs, SMTT(30)
    <3>2. c.ptr = start + lead + pad
      BY <1>4, <2>1, <3>1 DEF Reached
    <3>3. Len(s) = start + lead + pad + n
      BY <2>5, <2>6, <2>7, <3>1
    <3>4. /\ start \in Nat /\ start < BUFSZ /\ n \in Nat /\ n <= size
          /\ lead \in Nat /\ pad \in Nat /\ size \in Nat /\ lead + pad + size <= Slack + 1
      BY <1>1, <2>4, <3>1
    <3>5. start + lead + pad + n <= BUFSZ + Slack
      BY ONLY <1>0, <3>4
    <3>6. Len(s) = c.ptr + n
      BY <3>2, <3>3, <3>4
    <3>7. Len(s) <= BUFSZ + Slack + 1
      BY ONLY <1>0, <3>3, <3>4, <3>5
    <3>. QED
      BY <3>6, <3>7
  <2>11. Holds(buf, s)
    <3>1. PICK old \in [Place -> Character] : old = c.buf
      BY <1>4
    <3>2. buf = store(c, Len(s), <<NUL>>)
      BY <1>7, <2>8
    <3>. QED
      BY <1>5, <2>7, <2>8, <3>1, <3>2, StoreHolds
  <2>12. Put(w, item, num, view) = Laid(item, num, view, n)
    BY <1>10 DEF Put, Laid
  <2>. QED
    BY <1>10, <2>3, <2>6, <2>11, <2>12
<1>15. CallInv(w, buffer)
  <2>1. w.pc \in {"strcpy", "next"} /\ c.pc \in {"fill", "strcpy", "next"}
    BY <1>10
  <2>2. k \in Nat /\ num \in Word /\ start \in Nat /\ InItem(c, buffer, k, num, start) /\ item = Messages[c.message][k]
    BY <1>1
  <2>. QED
    BY ONLY <1>9, <1>11, <1>13, <1>14, <2>1, <2>2, StillShown
<1>. QED
  BY <1>10, <1>15 DEF Wrote

\* A buffer that holds a text holds a weaker one.
LEMMA HoldsWeaker ==
  ASSUME NEW buf, NEW s, NEW t, Holds(buf, t), Len(s) = Len(t), Weaker(s, t)
  PROVE  Holds(buf, s)
BY DEF Holds, Weaker

\* Weaker sequences after the same one.
LEMMA WeakerAfter ==
  ASSUME NEW a \in Seq(Printed \cup {ANY}), NEW s \in Seq(Printed \cup {ANY}), NEW t \in Seq(Printed \cup {ANY}),
         Weaker(s, t)
  PROVE  Weaker(a \o s, a \o t)
<1>1. /\ Len(a \o s) = Len(a) + Len(s)
      /\ \A i \in 1..Len(a) : (a \o s)[i] = a[i]
      /\ \A i \in 1..Len(s) : (a \o s)[Len(a) + i] = s[i]
  BY JoinIs
<1>2. /\ Len(a \o t) = Len(a) + Len(t)
      /\ \A i \in 1..Len(a) : (a \o t)[i] = a[i]
      /\ \A i \in 1..Len(t) : (a \o t)[Len(a) + i] = t[i]
  BY JoinIs
<1>3. Len(s) = Len(t) /\ Len(s) \in Nat /\ Len(a) \in Nat
  BY DEF Weaker
<1>4. ASSUME NEW i \in 1..Len(a \o t), (a \o s)[i] # ANY PROVE (a \o s)[i] = (a \o t)[i]
  <2>1. CASE i \in 1..Len(a)
    BY <1>1, <1>2, <2>1
  <2>2. CASE i \notin 1..Len(a)
    <3>1. PICK j \in 1..Len(t) : i = Len(a) + j
      <4>1. i - Len(a) \in 1..Len(t) /\ i = Len(a) + (i - Len(a))
        BY <1>2, <1>3, <2>2
      <4>. QED
        BY <4>1
    <3>2. (a \o s)[i] = s[j] /\ (a \o t)[i] = t[j]
      BY <1>1, <1>2, <1>3, <3>1
    <3>. QED
      BY <1>3, <1>4, <3>1, <3>2 DEF Weaker
  <2>. QED
    BY <2>1, <2>2
<1>. QED
  BY <1>1, <1>2, <1>3, <1>4 DEF Weaker

\* Room for one directive after a full buffer.
Continues(item, num, start) ==
  /\ c.ptr \in Nat /\ Len(Text) \in Nat /\ c.ptr + Len(Text) <= BUFSZ + Slack
  /\ ~(IsNumber(item) /\ c.neg) =>
       /\ c.copied = Size(item, num)
       /\ c.ptr + Len(Text) = start + Len(Lead(item)) + Pad(item, num) + Size(item, num)

\* A directive fits into that room.
LEMMA nextFits ==
  ASSUME CallInv(c, buffer), BufferInv(buffer), c.pc = "next", NEW k, NEW num \in Word, NEW start \in Nat, NEW item,
         InItem(c, buffer, k, num, start), item = Messages[c.message][k], WellFormed(item), item.directive,
         Shows(item, num)
  PROVE  Continues(item, num, start)
<1>0. BUFSZ \in Nat \ {0} /\ Slack \in Nat /\ DecimalDigits \in Nat /\ 2 * DecimalDigits <= Slack + 1
  BY FormatAssumption
<1>1. Reached(c, item, num, start) /\ start < BUFSZ /\ c.ptr \in Nat
  BY DEF InItem, Reached, CallInv, CallType
<1>2. PICK len \in Nat : len = Len(Text)
  BY DEF Shows
<1>3. CASE IsNumber(item) /\ c.neg
  <2>1. len <= DecimalDigits
    BY <1>2, <1>3 DEF Shows
  <2>2. c.ptr \in Nat /\ c.ptr <= start + DecimalDigits
    BY <1>0, <1>1, <1>3 DEF Reached
  <2>3. c.ptr + len <= BUFSZ + Slack
    BY <1>0, <1>1, <1>2, <2>1, <2>2
  <2>. QED
    BY <1>1, <1>2, <1>3, <2>3 DEF Continues
<1>4. CASE ~(IsNumber(item) /\ c.neg)
  <2>1. PICK lead \in Nat, pad \in Nat, size \in Nat :
          /\ lead = Len(Lead(item)) /\ pad = Pad(item, num) /\ size = Size(item, num)
          /\ lead + pad + size <= Slack + 1
    BY WidthIs, ShownIs
  <2>2. c.ptr = start + lead + pad /\ len = size /\ c.copied = size
    BY <1>1, <1>2, <1>4, <2>1 DEF Reached, Shows
  <2>3. /\ start \in Nat /\ start < BUFSZ
        /\ lead \in Nat /\ pad \in Nat /\ size \in Nat /\ lead + pad + size <= Slack + 1
    BY <1>1, <2>1
  <2>4. start + lead + pad + size <= BUFSZ + Slack
    BY ONLY <1>0, <2>3
  <2>5. c.ptr + len = start + lead + pad + size
    BY <2>2
  <2>. QED
    BY <1>1, <1>2, <2>1, <2>2, <2>4, <2>5 DEF Continues
<1>. QED
  BY <1>3, <1>4 DEF Continues

\* The next item.
LEMMA nextKeeps ==
  ASSUME CallInv(c, buffer), BufferInv(buffer), c.pc = "next",
         NEW w, w = [c EXCEPT !.ptr = @ + Len(Text), !.fmt = @ + 1, !.copied = 0, !.pc = "loop"]
  PROVE  CallInv(w, buffer) /\ ~Wrote(w)
<1>1. PICK k, num, start, item :
        /\ k \in Nat /\ num \in Word /\ start \in Nat
        /\ InItem(c, buffer, k, num, start) /\ c \in CallType /\ c.message \in DOMAIN Messages
        /\ k \in 1..Len(Messages[c.message]) /\ Len(Messages[c.message]) \in Nat
        /\ item = Messages[c.message][k] /\ WellFormed(item) /\ item.directive /\ start < BUFSZ
        /\ IsNumber(item) => Converted(c, buffer, item, num)
        /\ ~IsNumber(item) => ~c.text.static /\ c.text.chars = Shown(item, num, "text")
  BY CarriedOut
<1>0. BUFSZ \in Nat \ {0} /\ Slack \in Nat
  BY FormatAssumption
<1>2. Shows(item, num)
  BY <1>1, TextShows
<1>3. /\ c.ptr \in Nat /\ Len(Text) \in Nat /\ c.ptr + Len(Text) <= BUFSZ + Slack
      /\ ~(IsNumber(item) /\ c.neg) =>
           /\ c.copied = Size(item, num)
           /\ c.ptr + Len(Text) = start + Len(Lead(item)) + Pad(item, num) + Size(item, num)
  <2>1. /\ num \in Word /\ start \in Nat /\ InItem(c, buffer, k, num, start) /\ item = Messages[c.message][k]
        /\ WellFormed(item) /\ item.directive /\ CallInv(c, buffer) /\ BufferInv(buffer) /\ c.pc = "next"
    BY <1>1
  <2>2. Continues(item, num, start)
    BY ONLY <1>2, <2>1, nextFits
  <2>. QED
    BY <2>2 DEF Continues
<1>4. PICK ptr \in Nat, fmt \in Nat, none \in Nat : ptr = c.ptr + Len(Text) /\ fmt = c.fmt + 1 /\ none = 0
  <2>1. c.fmt + 1 \in Nat /\ c.ptr + Len(Text) \in Nat
    BY <1>1, <1>3, SMTT(30) DEF CallType
  <2>. QED
    BY <2>1
<1>5. w = [c EXCEPT !.ptr = ptr, !.fmt = fmt, !.copied = none, !.pc = "loop"]
  BY <1>1, <1>4 DEF CallType
<1>6. w \in CallType
  <2>1. PICK y \in CallType : y = [c EXCEPT !.ptr = ptr, !.fmt = fmt]
    BY <1>1, <1>4 DEF CallType
  <2>2. w = [y EXCEPT !.copied = none, !.pc = "loop"]
    BY <1>5, <2>1
  <2>. QED
    BY <1>4, <2>2, ZenonT(40) DEF CallType
<1>7. /\ w.pc = "loop" /\ w.ptr = ptr /\ w.fmt = fmt /\ w.copied = 0 /\ w.buf = c.buf
      /\ w.message = c.message /\ w.ap = c.ap /\ w.overwritten = c.overwritten
  BY <1>1, <1>4, <1>5 DEF CallType
<1>8. Promised(w) = Promised(c) /\ Behind(w, k)
  BY <1>1, <1>7 DEF Promised, Behind, InItem
<1>9. ASSUME NEW view \in Promised(c)
      PROVE  Holds(c.buf, Told(c.message, view, k)) /\ ptr = Len(Told(c.message, view, k))
  <2>1. ~(IsNumber(item) /\ c.neg)
    BY <1>2 DEF Shows
  <2>2. view \in {"text", "shape"}
    BY DEF Promised
  <2>3. PICK before \in Seq(Printed \cup {ANY}) : before = Told(c.message, view, k - 1)
    <3>1. k - 1 \in 0..Len(Messages[c.message])
      BY <1>1
    <3>. QED
      BY <1>1, <2>2, <3>1, ToldType
  <2>4. PICK whole \in Seq(Printed \cup {ANY}), piece \in Seq(Printed \cup {ANY}) :
          /\ whole = Whole(item, num, view) /\ piece = Piece(item, view) /\ Weaker(piece, whole)
          /\ Len(whole) = Len(Lead(item)) + Pad(item, num) + Size(item, num)
    <3>1. /\ Whole(item, num, view) \in Seq(Printed \cup {ANY})
          /\ Len(Whole(item, num, view)) = Len(Lead(item)) + Pad(item, num) + Size(item, num)
      BY <1>1, <2>2, WholeIs
    <3>2. IsNumber(item) /\ item.args # <<>> => num = item.args[1]
      BY <1>1, <2>1 DEF Converted
    <3>3. Piece(item, view) \in Seq(Printed \cup {ANY}) /\ Weaker(Piece(item, view), Whole(item, num, view))
      BY <1>1, <2>2, <3>2, PieceIs
    <3>. QED
      BY <3>1, <3>3
  <2>5. start = Len(before) /\ Holds(c.buf, before \o whole)
    <3>1. Put(c, item, num, view) = Laid(item, num, view, Size(item, num))
      BY <1>3, <2>1 DEF Put, Laid
    <3>2. Laid(item, num, view, Size(item, num)) = whole
      <4>1. PICK n \in Nat : n = Size(item, num) /\ n <= Size(item, num)
        BY <1>1, ShownIs
      <4>2. /\ WellFormed(item) /\ item.directive /\ num \in Word /\ view \in {"text", "shape"}
            /\ before \in Seq(Printed \cup {ANY}) /\ n \in Nat /\ n <= Size(item, num)
        BY <1>1, <2>2, <4>1
      <4>3. LaidAfter(before, item, num, view, n)
        BY ONLY <4>2, LaidIs
      <4>. QED
        BY <2>4, <4>3 DEF LaidAfter
    <3>. QED
      BY <1>1, <2>3, <3>1, <3>2 DEF InItem
  <2>6. Told(c.message, view, k) = before \o piece
    <3>1. PICK l \in Nat : l = k - 1 /\ k = l + 1
      <4>1. k - 1 \in Nat /\ k = (k - 1) + 1
        BY <1>1
      <4>. QED
        BY <4>1
    <3>2. Told(c.message, view, l + 1) =
            IF Len(Told(c.message, view, l)) < BUFSZ
            THEN Told(c.message, view, l) \o Piece(Messages[c.message][l + 1], view) ELSE Told(c.message, view, l)
      BY <1>1, <2>2, ToldIs
    <3>. QED
      BY <1>1, <2>3, <2>4, <2>5, <3>1, <3>2
  <2>7. PICK s \in Seq(Printed \cup {ANY}), t \in Seq(Printed \cup {ANY}) :
          s = before \o piece /\ t = before \o whole /\ Len(t) = Len(before) + Len(whole)
    <3>1. before \o piece \in Seq(Printed \cup {ANY}) /\ before \o whole \in Seq(Printed \cup {ANY})
          /\ Len(before \o whole) = Len(before) + Len(whole)
      BY JoinIs
    <3>. QED
      BY <3>1
  <2>9. Weaker(s, t) /\ Len(s) = Len(t)
    BY <2>4, <2>7, WeakerAfter, SMTT(30) DEF Weaker
  <2>11. Holds(c.buf, s)
    BY <2>5, <2>7, <2>9, HoldsWeaker
  <2>12. ptr = Len(s)
    <3>1. ptr = start + Len(Lead(item)) + Pad(item, num) + Size(item, num)
      BY <1>3, <1>4, <2>1
    <3>2. PICK lead \in Nat, pad \in Nat, size \in Nat :
            lead = Len(Lead(item)) /\ pad = Pad(item, num) /\ size = Size(item, num)
      BY <1>1, WidthIs, ShownIs
    <3>3. Len(t) = start + (lead + pad + size)
      BY <2>4, <2>5, <2>7, <3>2
    <3>4. ptr = start + lead + pad + size
      BY <3>1, <3>2
    <3>5. start + lead + pad + size = start + (lead + pad + size)
      <4>1. start \in Nat /\ lead \in Nat /\ pad \in Nat /\ size \in Nat
        BY <1>1
      <4>. QED
        BY ONLY <4>1
    <3>. QED
      BY <2>9, <3>3, <3>4, <3>5
  <2>. QED
    BY <2>6, <2>7, <2>11, <2>12
<1>10. Written(w, k)
  BY <1>7, <1>8, <1>9 DEF Written
<1>11. fmt = Len(Fmt(c.message, k)) + 1 /\ ptr <= BUFSZ + Slack
  BY <1>1, <1>3, <1>4 DEF InItem
<1>12. InLoop(w)
  BY <1>1, <1>7, <1>10, <1>11 DEF InLoop
<1>. QED
  BY <1>6, <1>7, <1>12 DEF CallInv, Wrote

-----------------------------------------------------------------------------
(* The stack of calls. *)

\* A call that is not the innermost one changes in its history only.
SameCall(x, w) ==
  /\ w.message = x.message /\ w.fmt = x.fmt /\ w.ap = x.ap /\ w.pc = x.pc /\ w.buf = x.buf /\ w.ptr = x.ptr
  /\ w.zeroes = x.zeroes /\ w.fill = x.fill /\ w.text = x.text /\ w.copied = x.copied
  /\ w.value = x.value /\ w.base = x.base /\ w.neg = x.neg /\ w.digit = x.digit
  /\ (x.overwritten => w.overwritten)

\* The digits of a call below another that stores one.
LEMMA ConvertedBelow ==
  ASSUME NEW x, NEW w, NEW b, NEW b2, NEW item, NEW num \in Word, WellFormed(item), item.directive, IsNumber(item),
         Converted(x, b, item, num), SameCall(x, w), x.pc \in {"utoa", "sign", "fill", "strcpy", "next"}, x.digit \in 0..14,
         \A i \in 0..15 : b[i] # NUL => b2[i] # NUL, w.overwritten \/ ~Converts(x) \/ b2 = b
  PROVE  Converted(w, b2, item, num)
<1>. /\ w.pc = x.pc /\ w.text = x.text /\ w.base = x.base /\ w.neg = x.neg /\ w.digit = x.digit /\ w.value = x.value
     /\ w.message = x.message /\ (x.overwritten => w.overwritten)
  BY DEF SameCall
<1>1. DecimalDigits \in Nat /\ DecimalDigits < 14 /\ Places(item, num) \in 1..DecimalDigits
  BY FormatAssumption, ShownIs
<1>2. Converts(x)
  BY DEF Converts, Converted
<1>3. ASSUME NEW d \in 0..15, Stored(x, b, item, num, d) PROVE Stored(w, b2, item, num, d)
  <2>1. \A j \in 0..(d - 1) : b2[14 - j] # NUL
    BY <1>3 DEF Stored
  <2>2. CASE w.overwritten
    BY <2>1, <2>2 DEF Stored
  <2>3. CASE b2 = b
    BY <1>3, <2>3 DEF Stored
  <2>. QED
    BY <1>2, <2>2, <2>3
<1>4. CASE x.pc = "utoa"
  <2>1. PICK d \in 0..14 : d = 14 - x.digit
    <3>1. 14 - x.digit \in 0..14
      BY <1>4
    <3>. QED
      BY <3>1
  <2>2. d <= Places(item, num) /\ x.value = num \div Power[<<Base(item), d>>] /\ Stored(x, b, item, num, d)
    BY <1>4, <2>1 DEF Converted
  <2>3. Stored(w, b2, item, num, d)
    BY <1>3, <2>2
  <2>. QED
    BY <1>4, <2>1, <2>2, <2>3 DEF Converted
<1>5. CASE x.pc # "utoa"
  <2>1. PICK d \in 0..15 : d = Places(item, num)
    BY <1>1
  <2>2. Stored(w, b2, item, num, d)
    BY <1>3, <1>5, <2>1 DEF Converted
  <2>. QED
    BY <1>5, <2>1, <2>2 DEF Converted
<1>. QED
  BY <1>4, <1>5

\* The other fields that Converted and Put read are the same.
LEMMA InItemBelow ==
  ASSUME NEW x \in CallType, NEW w, NEW b, NEW b2, NEW k \in Nat, NEW num \in Word, NEW start \in Nat,
         InItem(x, b, k, num, start), SameCall(x, w), x.pc \in {"utoa", "sign", "fill", "strcpy", "next"},
         \A i \in 0..15 : b[i] # NUL => b2[i] # NUL, w.overwritten \/ ~Converts(x) \/ b2 = b
  PROVE  InItem(w, b2, k, num, start)
<1>. /\ w.message = x.message /\ w.fmt = x.fmt /\ w.ap = x.ap /\ w.pc = x.pc /\ w.buf = x.buf /\ w.ptr = x.ptr
     /\ w.zeroes = x.zeroes /\ w.fill = x.fill /\ w.text = x.text /\ w.copied = x.copied
     /\ w.neg = x.neg /\ (x.overwritten => w.overwritten)
  BY DEF SameCall
<1>1. PICK item : item = Messages[x.message][k]
  OBVIOUS
<1>2. /\ k \in 1..Len(Messages[x.message]) /\ item.directive /\ Behind(x, k)
      /\ x.message \in DOMAIN Messages /\ x.digit \in 0..14
  BY <1>1 DEF InItem, CallType
<1>3. WellFormed(item)
  BY <1>1, <1>2, ItemIs, MessagesAssumption
<1>4. Behind(w, k)
  BY <1>2 DEF Behind
<1>5. Promised(w) \subseteq Promised(x)
  BY DEF Promised
<1>6. \A view : Put(w, item, num, view) = Put(x, item, num, view)
  BY DEF Put
<1>7. IF IsNumber(item) THEN Converted(w, b2, item, num)
      ELSE w.pc \notin {"utoa", "sign"} /\ ~w.text.static /\ w.text.chars = Shown(item, num, "text")
  <2>1. IF IsNumber(item) THEN Converted(x, b, item, num)
        ELSE x.pc \notin {"utoa", "sign"} /\ ~x.text.static /\ x.text.chars = Shown(item, num, "text")
    BY <1>1 DEF InItem
  <2>2. CASE IsNumber(item)
    BY <1>2, <1>3, <2>1, <2>2, ConvertedBelow
  <2>3. CASE ~IsNumber(item)
    BY <2>1, <2>3
  <2>. QED
    BY <2>2, <2>3
<1>8. /\ start < BUFSZ /\ w.fmt = Len(Fmt(w.message, k))
      /\ Width(item) = IF w.zeroes THEN w.fill ELSE 0
  BY <1>1 DEF InItem
<1>9. IF w.pc \in {"utoa", "sign", "fill"}
      THEN w.ptr = start + Len(Lead(item)) /\ w.copied = 0
      ELSE IF IsNumber(item) /\ w.neg
      THEN w.ptr \in start..(start + DecimalDigits) /\ w.copied <= DecimalDigits
      ELSE /\ w.ptr = start + Len(Lead(item)) + Pad(item, num)
           /\ w.copied <= Size(item, num)
           /\ w.pc = "next" => w.copied = Size(item, num)
  BY <1>1 DEF InItem
<1>10. ASSUME NEW view \in Promised(w)
       PROVE  LET before == Told(w.message, view, k - 1)
              IN  start = Len(before) /\ Holds(w.buf, before \o Put(w, item, num, view))
  BY <1>1, <1>5, <1>6 DEF InItem
<1>. QED
  BY <1>1, <1>2, <1>4, <1>7, <1>8, <1>9, <1>10 DEF InItem

\* A call below others.
LEMMA CallBelow ==
  ASSUME NEW x, NEW w \in CallType, NEW b, NEW b2, CallInv(x, b), SameCall(x, w),
         \A i \in 0..15 : b[i] # NUL => b2[i] # NUL, w.overwritten \/ ~Converts(x) \/ b2 = b
  PROVE  CallInv(w, b2)
<1>. /\ w.message = x.message /\ w.fmt = x.fmt /\ w.ap = x.ap /\ w.pc = x.pc /\ w.buf = x.buf /\ w.ptr = x.ptr
     /\ w.zeroes = x.zeroes /\ w.fill = x.fill /\ w.copied = x.copied /\ (x.overwritten => w.overwritten)
  BY DEF SameCall
<1>0. x \in CallType
  BY DEF CallInv
<1>1. Promised(w) \subseteq Promised(x)
  BY DEF Promised
<1>2. \A k : Written(x, k) => Written(w, k)
  BY <1>1 DEF Written, Behind
<1>3. x.pc = "loop" => InLoop(w)
  BY <1>2 DEF CallInv, InLoop
<1>4. x.pc = "switch" => InSwitch(w)
  BY <1>2 DEF CallInv, InSwitch
<1>5. ASSUME x.pc \in {"utoa", "sign", "fill", "strcpy", "next"}
      PROVE  \E k \in Nat, num \in Word, start \in Nat : InItem(w, b2, k, num, start)
  <2>1. PICK k \in Nat, num \in Word, start \in Nat : InItem(x, b, k, num, start)
    BY <1>5 DEF CallInv
  <2>2. InItem(w, b2, k, num, start)
    BY <1>0, <1>5, <2>1, InItemBelow
  <2>. QED
    BY <2>2
<1>6. x.pc = "write" => /\ w.ptr + w.copied <= BUFSZ + Slack
                        /\ w.fmt <= Len(Format[w.message]) + 1 /\ w.fmt # 0
                        /\ \A view \in Promised(w) : Matches(w, Reference(w.message, view))
  BY <1>1 DEF CallInv, Matches
<1>. QED
  BY <1>3, <1>4, <1>5, <1>6 DEF CallInv

\* A call that begins.
LEMMA CallBegins ==
  ASSUME NEW m \in DOMAIN Messages, NEW b
  PROVE  CallInv(Call(m), b) /\ ~Wrote(Call(m)) /\ ~Converts(Call(m))
<1>1. PICK buf : buf = [i \in 0..(BUFSZ + Slack) |-> UNUSED]
  OBVIOUS
<1>2. PICK no \in BOOLEAN, n \in Nat, o \in Nat, z \in Word, d \in 0..14, base \in {10, 16} :
        no = FALSE /\ n = 0 /\ o = 1 /\ z = 0 /\ d = 14 /\ base = 10
  <2>1. 0 \in Word
    BY WordIs
  <2>2. PICK no \in BOOLEAN : no = FALSE
    OBVIOUS
  <2>. QED
    BY <2>1, <2>2
<1>3. PICK text \in [static : BOOLEAN, chars : Seq(Character), at : Nat] : text = Literal(<<>>) /\ ~text.static
  <2>1. Literal(<<>>).static = FALSE
    BY DEF Literal
  <2>2. <<>> \in Seq(Character) /\ 0 \in Nat
    OBVIOUS
  <2>. QED
    BY <2>1, <2>2 DEF Literal
<1>4. buf \in [Place -> Character]
  BY <1>1 DEF Place, Character
<1>5. Call(m) = [message |-> m, pc |-> "loop", fmt |-> o, ap |-> o, buf |-> buf, ptr |-> n,
                 zeroes |-> no, fill |-> n, text |-> text, copied |-> n,
                 value |-> z, base |-> base, neg |-> no, digit |-> d,
                 interrupted |-> no, overwritten |-> no]
  BY <1>1, <1>2, <1>3 DEF Call
<1>6. Call(m) \in CallType
  BY <1>4, <1>5 DEF CallType
<1>7. PICK x \in CallType : x = Call(m)
  BY <1>6
<1>8. /\ x.message = m /\ x.pc = "loop" /\ x.fmt = 1 /\ x.ap = 1 /\ x.ptr = 0 /\ x.copied = 0 /\ x.buf = buf
  BY <1>2, <1>5, <1>7
<1>9. Len(Messages[m]) \in Nat /\ 0 \in 0..Len(Messages[m])
  BY MessagesAssumption
<1>10. Fmt(m, 0) = <<>> /\ Args(m, 0) = <<>>
  <2>1. Passed[<<m, 0>>] = [fmt |-> <<>>, args |-> <<>>]
    BY PassedIs
  <2>. QED
    BY <2>1 DEF Fmt, Args
<1>11. Behind(x, 0)
  BY <1>8, <1>9, <1>10 DEF Behind
<1>12. Written(x, 0)
  <2>1. ASSUME NEW view \in Promised(x) PROVE Told(m, view, 0) = <<>>
    <3>1. view \in {"text", "shape"}
      BY DEF Promised
    <3>. QED
      BY <3>1, ToldIs
  <2>2. Holds(buf, <<>>)
    BY <1>1 DEF Holds, Place
  <2>. QED
    BY <1>8, <1>11, <2>1, <2>2 DEF Written
<1>13. InLoop(x)
  <2>1. 0 <= BUFSZ + Slack
    BY FormatAssumption, SMTT(30)
  <2>. QED
    BY <1>8, <1>10, <1>12, <2>1 DEF InLoop
<1>14. CallInv(x, b)
  BY <1>8, <1>13 DEF CallInv
<1>. QED
  BY <1>7, <1>8, <1>14 DEF Wrote, Converts

\* The innermost call, the ones below it, and another innermost call.
LEMMA TopIs ==
  ASSUME NEW S, NEW s \in Seq(S), s # <<>>
  PROVE  /\ Len(s) \in Nat \ {0} /\ Last(s) = s[Len(s)] /\ Last(s) \in S
         /\ Front(s) \in Seq(S) /\ Len(Front(s)) = Len(s) - 1
         /\ \A i \in 1..(Len(s) - 1) : Front(s)[i] = s[i] /\ s[i] \in S /\ i \in 1..Len(s)
<1>1. Len(s) \in Nat \ {0} /\ s[Len(s)] \in S
  OBVIOUS
<1>2. Front(s) = SubSeq(s, 1, Len(s) - 1) /\ Last(s) = s[Len(s)]
  BY DEF Front, Last
<1>3. /\ SubSeq(s, 1, Len(s) - 1) \in Seq(S) /\ Len(SubSeq(s, 1, Len(s) - 1)) = Len(s) - 1
      /\ \A i \in 1..(Len(s) - 1) : SubSeq(s, 1, Len(s) - 1)[i] = s[i]
  <2>1. PICK n \in Nat : n = Len(s) - 1 /\ n <= Len(s)
    <3>1. PICK l \in Nat \ {0} : l = Len(s)
      BY <1>1
    <3>2. l - 1 \in Nat /\ l - 1 <= l
      BY ONLY <3>1
    <3>. QED
      BY ONLY <3>1, <3>2
  <2>2. SubSeq(s, 1, n) \in Seq(S) /\ Len(SubSeq(s, 1, n)) = n /\ \A i \in 1..n : SubSeq(s, 1, n)[i] = s[i]
    BY <2>1
  <2>. QED
    BY <2>1, <2>2
<1>4. \A i \in 1..(Len(s) - 1) : s[i] \in S /\ i \in 1..Len(s)
  BY <1>1
<1>. QED
  BY <1>1, <1>2, <1>3, <1>4

\* A step of the innermost call: the calls below it stay, or get marked if it
\* stores a digit.
LEMMA TopSteps ==
  ASSUME FormatInv, stack # <<>>, NEW w, NEW b2, CallInv(w, b2), BufferInv(b2),
         \A i \in 0..15 : buffer[i] # NUL => b2[i] # NUL,
         NEW below \in Seq(CallType), Len(below) = Len(stack) - 1,
         \A i \in 1..(Len(stack) - 1) :
           /\ SameCall(stack[i], below[i])
           /\ below[i].overwritten \/ ~Converts(stack[i]) \/ (b2 = buffer /\ (Wrote(w) => Wrote(c)))
  PROVE  CallsInv(b2, Append(below, w))
<1>1. /\ Len(stack) \in Nat \ {0} /\ c = stack[Len(stack)] /\ c \in CallType
      /\ \A i \in 1..(Len(stack) - 1) : stack[i] \in CallType /\ i \in 1..Len(stack)
  BY TopIs DEF FormatInv, CallsInv, c
<1>2. PICK n \in Nat : n = Len(stack) - 1 /\ Len(stack) = n + 1
  BY <1>1
<1>3. PICK s : s = Append(below, w)
  OBVIOUS
<1>4. w \in CallType
  BY DEF CallInv
<1>5. s \in Seq(CallType) /\ Len(s) = n + 1 /\ s[n + 1] = w /\ \A i \in 1..n : s[i] = below[i] /\ below[i] \in CallType
  BY <1>2, <1>3, <1>4
<1>6. \A i \in 1..(n + 1) : i = n + 1 \/ i \in 1..n
  BY <1>2
<1>7. ASSUME NEW i \in 1..n PROVE CallInv(below[i], b2)
  <2>1. PICK x \in CallType, y \in CallType : x = stack[i] /\ y = below[i]
    BY <1>1, <1>2, <1>5
  <2>2. CallInv(x, buffer) /\ SameCall(x, y) /\ (y.overwritten \/ ~Converts(x) \/ b2 = buffer)
    BY <1>1, <1>2, <2>1 DEF FormatInv, CallsInv
  <2>. QED
    BY <2>1, <2>2, CallBelow
<1>8. \A i \in 1..Len(s) : CallInv(s[i], b2)
  BY <1>5, <1>6, <1>7
<1>9. ASSUME NEW i \in 1..Len(s), NEW j \in 1..Len(s), i < j, Wrote(s[j]), Converts(s[i])
      PROVE  s[i].overwritten
  <2>1. i \in 1..n /\ s[i] = below[i] /\ SameCall(stack[i], below[i]) /\ i \in 1..Len(stack)
    <3>1. i \in 1..n
      BY <1>5, <1>9
    <3>. QED
      BY <1>1, <1>2, <1>5, <3>1
  <2>2. Converts(stack[i])
    BY <1>9, <2>1 DEF Converts, SameCall
  <2>3. stack[i].overwritten => s[i].overwritten
    BY <2>1 DEF SameCall
  <2>4. CASE j = n + 1
    <3>1. Wrote(w)
      BY <1>5, <1>9, <2>4
    <3>2. Wrote(c) => stack[i].overwritten
      <4>1. Len(stack) \in 1..Len(stack) /\ i < Len(stack)
        BY <1>1, <1>2, <2>1
      <4>. QED
        BY <1>1, <2>1, <2>2, <4>1 DEF FormatInv, CallsInv
    <3>. QED
      BY <1>2, <2>1, <2>2, <2>3, <3>1, <3>2
  <2>5. CASE j \in 1..n
    <3>1. s[j] = below[j] /\ SameCall(stack[j], below[j]) /\ j \in 1..Len(stack)
      BY <1>1, <1>2, <1>5, <2>5
    <3>2. Wrote(stack[j])
      BY <1>9, <3>1 DEF Wrote, SameCall
    <3>3. stack[i].overwritten
      BY <1>9, <2>1, <2>2, <3>1, <3>2 DEF FormatInv, CallsInv
    <3>. QED
      BY <2>3, <3>3
  <2>. QED
    BY <1>5, <1>6, <2>4, <2>5
<1>. QED
  BY <1>3, <1>5, <1>8, <1>9 DEF CallsInv

\* A step that leaves utoa's buffer alone, and the calls below.
LEMMA TopGoesOn ==
  ASSUME FormatInv, stack # <<>>, NEW w, CallInv(w, buffer), Wrote(w) => Wrote(c)
  PROVE  CallsInv(buffer, Append(Front(stack), w))
<1>1. stack \in Seq(CallType) /\ BufferInv(buffer)
  BY DEF FormatInv, CallsInv
<1>2. /\ Front(stack) \in Seq(CallType) /\ Len(Front(stack)) = Len(stack) - 1
      /\ \A i \in 1..(Len(stack) - 1) : Front(stack)[i] = stack[i]
  BY <1>1, TopIs
<1>3. PICK below \in Seq(CallType) : below = Front(stack)
  BY <1>2
<1>4. ASSUME NEW i \in 1..(Len(stack) - 1)
      PROVE  SameCall(stack[i], below[i])
  BY <1>2, <1>3 DEF SameCall
<1>5. \A i \in 1..(Len(stack) - 1) :
        /\ SameCall(stack[i], below[i])
        /\ below[i].overwritten \/ ~Converts(stack[i]) \/ (buffer = buffer /\ (Wrote(w) => Wrote(c)))
  BY <1>4
<1>6. /\ CallInv(w, buffer) /\ BufferInv(buffer) /\ below \in Seq(CallType) /\ Len(below) = Len(stack) - 1
      /\ \A i \in 0..15 : buffer[i] # NUL => buffer[i] # NUL
  BY <1>1, <1>2, <1>3
<1>7. CallsInv(buffer, Append(below, w))
  BY <1>5, <1>6, TopSteps
<1>8. Append(below, w) = Append(Front(stack), w)
  BY <1>3
<1>. QED
  BY <1>7, <1>8

\* A digit is stored.
LEMMA DigitGoesOn ==
  ASSUME FormatInv, stack # <<>>, c.pc = "utoa", c.value > 0 \/ c.digit = 14,
         NEW b2, b2 = stored(Digits[(c.value % c.base) + 1]),
         NEW s, s = Append([i \in DOMAIN Front(stack) |->
                              [stack[i] EXCEPT !.overwritten = @ \/ Converts(stack[i])]],
                           [c EXCEPT !.value = @ \div c.base, !.digit = @ - 1])
  PROVE  CallsInv(b2, s)
<1>1. stack \in Seq(CallType) /\ BufferInv(buffer)
  BY DEF FormatInv, CallsInv
<1>2. /\ Len(stack) \in Nat \ {0} /\ c = stack[Len(stack)]
      /\ Front(stack) \in Seq(CallType) /\ Len(Front(stack)) = Len(stack) - 1
      /\ \A i \in 1..(Len(stack) - 1) : stack[i] \in CallType /\ i \in 1..Len(stack)
  BY <1>1, TopIs DEF c
<1>3. CallInv(c, buffer)
  <2>1. Len(stack) \in 1..Len(stack)
    BY <1>2
  <2>. QED
    BY <1>2, <2>1 DEF FormatInv, CallsInv
<1>4. PICK w : w = [c EXCEPT !.value = @ \div c.base, !.digit = @ - 1]
  BY SMTT(30)
<1>5. CallInv(w, b2) /\ BufferInv(b2) /\ \A i \in 0..15 : buffer[i] # NUL => b2[i] # NUL
  BY <1>1, <1>3, <1>4, utoa_digitKeeps
<1>6. PICK n \in Nat : n = Len(stack) - 1 /\ DOMAIN Front(stack) = 1..n
  <2>1. Len(stack) - 1 \in Nat /\ DOMAIN Front(stack) = 1..(Len(stack) - 1)
    BY <1>2
  <2>. QED
    BY <2>1
<1>7. PICK below : below = [i \in 1..n |-> [stack[i] EXCEPT !.overwritten = @ \/ Converts(stack[i])]]
  OBVIOUS
<1>8. ASSUME NEW i \in 1..n
      PROVE  /\ below[i] \in CallType /\ SameCall(stack[i], below[i])
             /\ below[i].overwritten \/ ~Converts(stack[i])
  <2>1. PICK x \in CallType : x = stack[i]
    BY <1>2, <1>6
  <2>2. PICK mark \in BOOLEAN : mark <=> x.overwritten \/ Converts(x)
    OBVIOUS
  <2>3. PICK y : y = [x EXCEPT !.overwritten = mark]
    OBVIOUS
  <2>4. below[i] = y
    BY <1>7, <2>1, <2>2, <2>3 DEF CallType
  <2>5. y \in CallType
    BY <2>3 DEF CallType
  <2>6. y.overwritten <=> mark
    BY <2>3 DEF CallType
  <2>7. SameCall(x, y)
    BY <2>2, <2>3, <2>6 DEF CallType, SameCall
  <2>. QED
    BY <2>1, <2>2, <2>4, <2>5, <2>6, <2>7
<1>9. below \in Seq(CallType) /\ Len(below) = n
  <2>1. below = [i \in 1..n |-> below[i]] /\ \A i \in 1..n : below[i] \in CallType
    BY <1>7, <1>8, SMTT(30)
  <2>. QED
    BY ONLY <2>1, n \in Nat
<1>10. CallsInv(b2, Append(below, w))
  <2>1. \A i \in 1..(Len(stack) - 1) :
          /\ SameCall(stack[i], below[i])
          /\ below[i].overwritten \/ ~Converts(stack[i]) \/ (b2 = buffer /\ (Wrote(w) => Wrote(c)))
    BY <1>6, <1>8
  <2>. QED
    BY <1>5, <1>6, <1>9, <2>1, TopSteps
<1>. QED
  BY <1>4, <1>6, <1>7, <1>10

\* The sign is stored.
LEMMA SignGoesOn ==
  ASSUME FormatInv, stack # <<>>, c.pc = "sign",
         NEW b2, b2 = [buffer EXCEPT ![c.text.at] = "-"],
         NEW w, w = [c EXCEPT !.text = Static(c.text.at - 1), !.pc = "fill"]
  PROVE  CallsInv(b2, Append(Front(stack), w))
<1>1. stack \in Seq(CallType) /\ BufferInv(buffer)
  BY DEF FormatInv, CallsInv
<1>2. /\ Len(stack) \in Nat \ {0} /\ c = stack[Len(stack)]
      /\ Front(stack) \in Seq(CallType) /\ Len(Front(stack)) = Len(stack) - 1
      /\ \A i \in 1..(Len(stack) - 1) : Front(stack)[i] = stack[i]
  BY <1>1, TopIs DEF c
<1>3. Len(stack) \in 1..Len(stack) /\ \A i \in 1..(Len(stack) - 1) : i \in 1..Len(stack) /\ i < Len(stack)
  BY <1>2
<1>4. CallInv(c, buffer) /\ Wrote(c)
  BY <1>2, <1>3 DEF FormatInv, CallsInv, Wrote
<1>5. CallInv(w, b2) /\ BufferInv(b2) /\ \A i \in 0..15 : buffer[i] # NUL => b2[i] # NUL
  BY <1>1, <1>4, itoa_signKeeps
<1>6. PICK below \in Seq(CallType) : below = Front(stack)
  BY <1>2
<1>7. ASSUME NEW i \in 1..(Len(stack) - 1)
      PROVE  SameCall(stack[i], below[i]) /\ (below[i].overwritten \/ ~Converts(stack[i]))
  <2>1. below[i] = stack[i]
    BY <1>2, <1>6
  <2>2. Converts(stack[i]) => stack[i].overwritten
    BY <1>2, <1>3, <1>4 DEF FormatInv, CallsInv
  <2>. QED
    BY <2>1, <2>2 DEF SameCall
<1>8. CallsInv(b2, Append(below, w))
  BY <1>2, <1>5, <1>6, <1>7, TopSteps
<1>. QED
  BY <1>6, <1>8

\* A call comes on top.
LEMMA Pushed ==
  ASSUME NEW b, NEW calls, CallsInv(b, calls), NEW m \in DOMAIN Messages
  PROVE  CallsInv(b, calls \o <<Call(m)>>)
<1>1. PICK x \in CallType : x = Call(m) /\ CallInv(x, b) /\ ~Wrote(x)
  <2>1. CallInv(Call(m), b) /\ ~Wrote(Call(m))
    BY CallBegins
  <2>. QED
    BY <2>1 DEF CallInv
<1>2. calls \in Seq(CallType) /\ Len(calls) \in Nat
  BY DEF CallsInv
<1>3. PICK n \in Nat, s \in Seq(CallType) :
        /\ n = Len(calls) /\ s = calls \o <<x>> /\ Len(s) = n + 1 /\ s[n + 1] = x
        /\ \A i \in 1..n : s[i] = calls[i]
  <2>1. PICK one \in Seq(CallType) : one = <<x>> /\ Len(one) = 1 /\ one[1] = x
    <3>1. <<x>> \in Seq(CallType) /\ Len(<<x>>) = 1 /\ <<x>>[1] = x
      OBVIOUS
    <3>. QED
      BY <3>1
  <2>2. calls \o one \in Seq(CallType) /\ Len(calls \o one) = Len(calls) + 1 /\ (calls \o one)[Len(calls) + 1] = x
        /\ \A i \in 1..Len(calls) : (calls \o one)[i] = calls[i]
    BY <1>2, <2>1
  <2>. QED
    BY <1>2, <2>1, <2>2
<1>4. \A i \in 1..(n + 1) : i = n + 1 \/ i \in 1..n
  OBVIOUS
<1>5. \A i \in 1..Len(s) : CallInv(s[i], b)
  BY <1>1, <1>3, <1>4 DEF CallsInv
<1>6. ASSUME NEW i \in 1..Len(s), NEW j \in 1..Len(s), i < j, Wrote(s[j]), Converts(s[i])
      PROVE  s[i].overwritten
  <2>1. j # n + 1
    BY <1>1, <1>3, <1>6
  <2>2. i \in 1..n /\ j \in 1..n
    BY <1>3, <1>6, <2>1
  <2>. QED
    BY <1>3, <1>6, <2>2 DEF CallsInv
<1>. QED
  BY <1>1, <1>3, <1>5, <1>6 DEF CallsInv

-----------------------------------------------------------------------------
(* The invariant is inductive: one lemma for each action. *)

\* With no call, there is nothing to say.
LEMMA InitInv == Init => FormatInv
<1> SUFFICES ASSUME Init PROVE FormatInv
  OBVIOUS
<1>1. BufferInv(buffer)
  <2>1. DecimalDigits \in Nat /\ DecimalDigits < 14
    BY FormatAssumption
  <2>2. NUL \in Chars
    BY DEF Chars
  <2>3. buffer = [i \in 0..15 |-> NUL]
    BY DEF Init
  <2>4. \A i \in 0..(14 - DecimalDigits) : i \in 0..15
    BY <2>1
  <2>. QED
    BY <2>2, <2>3, <2>4 DEF BufferInv
<1>2. stack = <<>> /\ stack \in Seq(CallType) /\ Len(stack) = 0
  BY DEF Init
<1>. QED
  BY <1>1, <1>2 DEF FormatInv, CallsInv

\* A step of kvsnprintf.
LEMMA StepInv ==
  ASSUME FormatInv, stack # <<>>, NEW w, CallInv(w, buffer), Wrote(w) => Wrote(c), Goes(w), UNCHANGED buffer
  PROVE  FormatInv'
<1>1. CallsInv(buffer, Append(Front(stack), w))
  BY TopGoesOn
<1>. QED
  BY <1>1 DEF FormatInv, Goes

\* The innermost call.
LEMMA TopInv ==
  ASSUME FormatInv, stack # <<>>
  PROVE  CallInv(c, buffer) /\ BufferInv(buffer) /\ c \in CallType
<1>1. stack \in Seq(CallType) /\ BufferInv(buffer)
  BY DEF FormatInv, CallsInv
<1>2. Len(stack) \in Nat \ {0} /\ c = stack[Len(stack)]
  BY <1>1, TopIs DEF c
<1>3. Len(stack) \in 1..Len(stack)
  BY <1>2
<1>4. CallInv(c, buffer)
  BY <1>2, <1>3 DEF FormatInv, CallsInv
<1>. QED
  BY <1>1, <1>4 DEF CallInv

\* A character that stands for itself keeps the invariant.
LEMMA literalInv == ASSUME FormatInv, literal PROVE FormatInv'
<1>1. /\ stack # <<>> /\ c.pc = "loop" /\ Char \notin {NUL, "%"} /\ Room /\ UNCHANGED buffer
      /\ Goes([put(c, <<Char>>) EXCEPT !.fmt = @ + 1])
  BY DEF literal, At
<1>2. PICK w : w = [put(c, <<Char>>) EXCEPT !.fmt = @ + 1]
  OBVIOUS
<1>3. CallInv(w, buffer) /\ ~Wrote(w)
  BY <1>1, <1>2, TopInv, literalKeeps
<1>4. Goes(w)
  BY <1>1, <1>2
<1>. QED
  BY <1>1, <1>3, <1>4, StepInv

\* The % of a directive does.
LEMMA directiveInv == ASSUME FormatInv, directive PROVE FormatInv'
<1>1. /\ stack # <<>> /\ c.pc = "loop" /\ Char = "%" /\ Room /\ UNCHANGED buffer
      /\ Goes([c EXCEPT !.pc = "switch", !.fmt = @ + 1, !.zeroes = FALSE, !.fill = 0])
  BY DEF directive, At
<1>2. PICK w : w = [c EXCEPT !.pc = "switch", !.fmt = @ + 1, !.zeroes = FALSE, !.fill = 0]
  OBVIOUS
<1>3. CallInv(w, buffer) /\ ~Wrote(w)
  BY <1>1, <1>2, TopInv, directiveKeeps
<1>4. Goes(w)
  BY <1>1, <1>2
<1>. QED
  BY <1>1, <1>3, <1>4, StepInv

\* Every case of the switch does.
LEMMA switchInv == ASSUME FormatInv, switch PROVE FormatInv'
<1>1. /\ stack # <<>> /\ c.pc = "switch" /\ UNCHANGED buffer /\ CallInv(c, buffer)
      /\ \/ Char = "0" /\ Goes(flag)
         \/ Char = "%" /\ Goes(shows(c, <<"%">>))
         \/ \E arg \in Argument :
              \/ Char = "d" /\ Goes(itoa([c EXCEPT !.fill = DecimalDigits], arg))
              \/ Char = "p" /\ Goes(utoa([put(c, <<"0", "x">>) EXCEPT !.zeroes = TRUE, !.fill = HexDigits], arg, 16))
              \/ Char = "x" /\ Goes(utoa([c EXCEPT !.fill = HexDigits], arg, 16))
              \/ Char = "s" /\ Goes([shows(c, arg) EXCEPT !.ap = @ + 1])
              \/ Char = "c" /\ Goes([shows(put(c, arg), <<>>) EXCEPT !.ap = @ + 1])
              \/ Char = "u" /\ Goes(utoa(c, arg, 10))
         \/ Char \notin Numbers \cup {"0", "%", "s", "c"} /\ Goes(shows(c, <<>>))
  BY TopInv DEF switch, At
<1>2. SUFFICES \E w : CallInv(w, buffer) /\ ~Wrote(w) /\ Goes(w)
  BY <1>1, StepInv
<1>3. CASE Char = "0" /\ Goes(flag)
  <2>1. PICK w : w = flag
    OBVIOUS
  <2>. QED
    BY <1>1, <1>3, <2>1, flagKeeps
<1>4. CASE Char = "%" /\ Goes(shows(c, <<"%">>))
  <2>1. PICK w : w = shows(c, <<"%">>)
    OBVIOUS
  <2>. QED
    BY <1>1, <1>4, <2>1, percentKeeps
<1>5. ASSUME NEW arg \in Argument,
             \/ Char = "d" /\ Goes(itoa([c EXCEPT !.fill = DecimalDigits], arg))
             \/ Char = "p" /\ Goes(utoa([put(c, <<"0", "x">>) EXCEPT !.zeroes = TRUE, !.fill = HexDigits], arg, 16))
             \/ Char = "x" /\ Goes(utoa([c EXCEPT !.fill = HexDigits], arg, 16))
             \/ Char = "s" /\ Goes([shows(c, arg) EXCEPT !.ap = @ + 1])
             \/ Char = "c" /\ Goes([shows(put(c, arg), <<>>) EXCEPT !.ap = @ + 1])
             \/ Char = "u" /\ Goes(utoa(c, arg, 10))
      PROVE  \E w : CallInv(w, buffer) /\ ~Wrote(w) /\ Goes(w)
  <2>1. CASE Char = "d" /\ Goes(itoa([c EXCEPT !.fill = DecimalDigits], arg))
    <3>1. PICK w : w = itoa([c EXCEPT !.fill = DecimalDigits], arg)
      OBVIOUS
    <3>. QED
      BY <1>1, <2>1, <3>1, dKeeps
  <2>2. CASE Char = "p" /\ Goes(utoa([put(c, <<"0", "x">>) EXCEPT !.zeroes = TRUE, !.fill = HexDigits], arg, 16))
    <3>1. PICK w : w = utoa([put(c, <<"0", "x">>) EXCEPT !.zeroes = TRUE, !.fill = HexDigits], arg, 16)
      OBVIOUS
    <3>. QED
      BY <1>1, <2>2, <3>1, pKeeps
  <2>3. CASE Char = "x" /\ Goes(utoa([c EXCEPT !.fill = HexDigits], arg, 16))
    <3>1. PICK w : w = utoa([c EXCEPT !.fill = HexDigits], arg, 16)
      OBVIOUS
    <3>. QED
      BY <1>1, <2>3, <3>1, xKeeps
  <2>4. CASE Char = "s" /\ Goes([shows(c, arg) EXCEPT !.ap = @ + 1])
    <3>1. PICK w : w = [shows(c, arg) EXCEPT !.ap = @ + 1]
      OBVIOUS
    <3>. QED
      BY <1>1, <2>4, <3>1, sKeeps
  <2>5. CASE Char = "c" /\ Goes([shows(put(c, arg), <<>>) EXCEPT !.ap = @ + 1])
    <3>1. PICK w : w = [shows(put(c, arg), <<>>) EXCEPT !.ap = @ + 1]
      OBVIOUS
    <3>. QED
      BY <1>1, <2>5, <3>1, cKeeps
  <2>6. CASE Char = "u" /\ Goes(utoa(c, arg, 10))
    <3>1. PICK w : w = utoa(c, arg, 10)
      OBVIOUS
    <3>. QED
      BY <1>1, <2>6, <3>1, uKeeps
  <2>. QED
    BY <1>5, <2>1, <2>2, <2>3, <2>4, <2>5, <2>6
<1>6. CASE Char \notin Numbers \cup {"0", "%", "s", "c"} /\ Goes(shows(c, <<>>))
  <2>1. PICK w : w = shows(c, <<>>)
    OBVIOUS
  <2>. QED
    BY <1>1, <1>6, <2>1, otherKeeps
<1>. QED
  BY <1>1, <1>3, <1>4, <1>5, <1>6

\* A digit does: the calls below are marked.
LEMMA utoa_digitInv == ASSUME FormatInv, utoa_digit PROVE FormatInv'
<1>1. /\ stack # <<>> /\ c.pc = "utoa" /\ (c.value > 0 \/ c.digit = 14)
      /\ buffer' = stored(Digits[(c.value % c.base) + 1])
      /\ stack' = Append([i \in DOMAIN Front(stack) |->
                            [stack[i] EXCEPT !.overwritten = @ \/ Converts(stack[i])]],
                         [c EXCEPT !.value = @ \div c.base, !.digit = @ - 1])
  BY DEF utoa_digit, At
<1>2. PICK b2, s : b2 = buffer' /\ s = stack'
  OBVIOUS
<1>3. CallsInv(b2, s)
  BY <1>1, <1>2, DigitGoesOn
<1>. QED
  BY <1>2, <1>3 DEF FormatInv

\* utoa's return does.
LEMMA utoa_returnInv == ASSUME FormatInv, utoa_return PROVE FormatInv'
<1>1. /\ stack # <<>> /\ c.pc = "utoa" /\ c.value = 0 /\ c.digit < 14 /\ UNCHANGED buffer
      /\ Goes([c EXCEPT !.text = Static(c.digit + 1), !.pc = IF c.neg THEN "sign" ELSE "fill"])
  BY DEF utoa_return, At
<1>2. PICK w : w = [c EXCEPT !.text = Static(c.digit + 1), !.pc = IF c.neg THEN "sign" ELSE "fill"]
  OBVIOUS
<1>3. CallInv(w, buffer) /\ Wrote(c)
  BY <1>1, <1>2, TopInv, utoa_returnKeeps
<1>4. Goes(w)
  BY <1>1, <1>2
<1>. QED
  BY <1>1, <1>3, <1>4, StepInv

\* The sign does: it goes over a digit.
LEMMA itoa_signInv == ASSUME FormatInv, itoa_sign PROVE FormatInv'
<1>1. /\ stack # <<>> /\ c.pc = "sign"
      /\ buffer' = [buffer EXCEPT ![c.text.at] = "-"]
      /\ stack' = Append(Front(stack), [c EXCEPT !.text = Static(c.text.at - 1), !.pc = "fill"])
  BY DEF itoa_sign, At, Goes
<1>2. PICK b2, w : b2 = buffer' /\ w = [c EXCEPT !.text = Static(c.text.at - 1), !.pc = "fill"]
  OBVIOUS
<1>3. CallsInv(b2, Append(Front(stack), w))
  BY <1>1, <1>2, SignGoesOn
<1>4. stack' = Append(Front(stack), w)
  BY <1>1, <1>2
<1>. QED
  BY <1>2, <1>3, <1>4 DEF FormatInv

\* The zeroes do.
LEMMA fillInv == ASSUME FormatInv, fill PROVE FormatInv'
<1>1. /\ stack # <<>> /\ c.pc = "fill" /\ UNCHANGED buffer
      /\ Goes([put(c, Zeroes(missing(Len(Text)))) EXCEPT !.pc = "strcpy"])
  BY DEF fill, At
<1>2. PICK w : w = [put(c, Zeroes(missing(Len(Text)))) EXCEPT !.pc = "strcpy"]
  OBVIOUS
<1>3. CallInv(w, buffer) /\ ~Wrote(w)
  BY <1>1, <1>2, TopInv, fillKeeps
<1>4. Goes(w)
  BY <1>1, <1>2
<1>. QED
  BY <1>1, <1>3, <1>4, StepInv

\* Each character that is copied does, and the NUL.
LEMMA strcpyInv == ASSUME FormatInv, strcpy PROVE FormatInv'
<1>1. stack # <<>> /\ c.pc = "strcpy" /\ UNCHANGED buffer /\ CallInv(c, buffer) /\ BufferInv(buffer) /\ c \in CallType
  BY TopInv DEF strcpy, At
<1>2. SUFFICES \E w : CallInv(w, buffer) /\ ~Wrote(w) /\ Goes(w)
  BY <1>1, StepInv
<1>3. CASE c.copied < Len(Text)
  <2>1. PICK w : w = [c EXCEPT !.buf = store(c, c.ptr + c.copied, <<Text[c.copied + 1]>>), !.copied = c.copied + 1]
    OBVIOUS
  <2>2. Goes([c EXCEPT !.buf = store(c, c.ptr + c.copied, <<Text[c.copied + 1]>>),
                       !.copied = @ + 1, !.pc = @])
    BY <1>3 DEF strcpy
  <2>3. [c EXCEPT !.buf = store(c, c.ptr + c.copied, <<Text[c.copied + 1]>>), !.copied = @ + 1, !.pc = @] = w
    BY <1>1, <2>1 DEF CallType
  <2>4. Goes(w)
    BY <2>2, <2>3
  <2>5. CallInv(w, buffer) /\ ~Wrote(w)
    BY <1>1, <1>3, <2>1, copyKeeps
  <2>. QED
    BY <2>4, <2>5
<1>4. CASE ~(c.copied < Len(Text))
  <2>1. PICK w : w = [c EXCEPT !.buf = store(c, c.ptr + c.copied, <<NUL>>), !.pc = "next"]
    OBVIOUS
  <2>2. Goes([c EXCEPT !.buf = store(c, c.ptr + c.copied, <<NUL>>), !.copied = @, !.pc = "next"])
    BY <1>4 DEF strcpy
  <2>3. [c EXCEPT !.buf = store(c, c.ptr + c.copied, <<NUL>>), !.copied = @, !.pc = "next"] = w
    BY <1>1, <2>1 DEF CallType
  <2>4. Goes(w)
    BY <2>2, <2>3
  <2>5. CallInv(w, buffer) /\ ~Wrote(w)
    BY <1>1, <1>4, <2>1, copiedKeeps
  <2>. QED
    BY <2>4, <2>5
<1>. QED
  BY <1>3, <1>4

\* The end of a directive does.
LEMMA nextInv == ASSUME FormatInv, next PROVE FormatInv'
<1>1. /\ stack # <<>> /\ c.pc = "next" /\ UNCHANGED buffer
      /\ Goes([c EXCEPT !.ptr = @ + Len(Text), !.fmt = @ + 1, !.copied = 0, !.pc = "loop"])
  BY DEF next, At
<1>2. PICK w : w = [c EXCEPT !.ptr = @ + Len(Text), !.fmt = @ + 1, !.copied = 0, !.pc = "loop"]
  OBVIOUS
<1>3. CallInv(w, buffer) /\ ~Wrote(w)
  BY <1>1, <1>2, TopInv, nextKeeps
<1>4. Goes(w)
  BY <1>1, <1>2
<1>. QED
  BY <1>1, <1>3, <1>4, StepInv

\* The end of the message, or of the buffer, does.
LEMMA terminateInv == ASSUME FormatInv, terminate PROVE FormatInv'
<1>1. /\ stack # <<>> /\ c.pc = "loop" /\ (Char = NUL \/ ~Room) /\ UNCHANGED buffer
      /\ Goes([c EXCEPT !.buf = store(c, c.ptr, <<NUL>>), !.pc = "write"])
  BY DEF terminate, At
<1>2. PICK w : w = [c EXCEPT !.buf = store(c, c.ptr, <<NUL>>), !.pc = "write"]
  OBVIOUS
<1>3. CallInv(w, buffer) /\ ~Wrote(w)
  BY <1>1, <1>2, TopInv, terminateKeeps
<1>4. Goes(w)
  BY <1>1, <1>2
<1>. QED
  BY <1>1, <1>3, <1>4, StepInv

\* The return of the innermost call does.
LEMMA kprintf_returnInv == ASSUME FormatInv, kprintf_return PROVE FormatInv'
<1>1. stack # <<>> /\ stack \in Seq(CallType) /\ UNCHANGED buffer /\ stack' = Front(stack)
  BY DEF kprintf_return, At, FormatInv, CallsInv
<1>2. PICK s : s = Front(stack)
  OBVIOUS
<1>3. /\ s \in Seq(CallType) /\ Len(s) = Len(stack) - 1
      /\ \A i \in 1..Len(s) : s[i] = stack[i] /\ i \in 1..Len(stack)
  BY <1>1, <1>2, TopIs
<1>4. CallsInv(buffer, s)
  BY <1>3 DEF FormatInv, CallsInv
<1>. QED
  BY <1>1, <1>2, <1>4 DEF FormatInv

\* A first call does.
LEMMA kprintfInv == ASSUME FormatInv, NEW m \in DOMAIN Messages, kprintf(m) PROVE FormatInv'
<1>1. stack = <<>> /\ stack' = <<Call(m)>> /\ UNCHANGED buffer
  BY DEF kprintf
<1>2. PICK calls : calls = <<>>
  OBVIOUS
<1>3. calls \o <<Call(m)>> = <<Call(m)>>
  BY <1>2
<1>4. CallsInv(buffer, calls)
  BY <1>1, <1>2 DEF FormatInv
<1>5. CallsInv(buffer, <<Call(m)>>)
  BY <1>3, <1>4, Pushed
<1>. QED
  BY <1>1, <1>5 DEF FormatInv

\* A call on top of another does.
LEMMA exceptionInv == ASSUME FormatInv, NEW m \in DOMAIN Messages, exception(m) PROVE FormatInv'
<1>1. /\ stack # <<>> /\ UNCHANGED buffer
      /\ stack' = Append(Front(stack), [c EXCEPT !.interrupted = TRUE]) \o <<Call(m)>>
  BY DEF exception
<1>2. CallInv(c, buffer) /\ c \in CallType
  BY <1>1, TopInv
<1>3. PICK w : w = [c EXCEPT !.interrupted = TRUE]
  OBVIOUS
<1>4. w \in CallType
  <2>1. PICK yes \in BOOLEAN : yes = TRUE
    OBVIOUS
  <2>2. w = [c EXCEPT !.interrupted = yes]
    BY <1>3, <2>1
  <2>. QED
    BY <1>2, <2>2 DEF CallType
<1>5. SameCall(c, w)
  BY <1>2, <1>3 DEF CallType, SameCall
<1>6. CallInv(w, buffer)
  BY <1>2, <1>4, <1>5, CallBelow
<1>7. Wrote(w) => Wrote(c)
  BY <1>5 DEF SameCall, Wrote
<1>8. PICK calls : calls = Append(Front(stack), w)
  OBVIOUS
<1>9. CallsInv(buffer, calls)
  BY <1>1, <1>6, <1>7, <1>8, TopGoesOn
<1>10. CallsInv(buffer, calls \o <<Call(m)>>)
  BY <1>9, Pushed
<1>11. stack' = calls \o <<Call(m)>>
  BY <1>1, <1>3, <1>8
<1>. QED
  BY <1>1, <1>10, <1>11 DEF FormatInv

\* So does every step.
LEMMA NextInv == ASSUME FormatInv, [Next]_vars PROVE FormatInv'
<1>1. CASE UNCHANGED vars
  BY <1>1 DEF vars, FormatInv
<1>2. CASE Step
  BY <1>2, literalInv, directiveInv, switchInv, utoa_digitInv, utoa_returnInv, itoa_signInv,
     fillInv, strcpyInv, nextInv, terminateInv, kprintf_returnInv DEF Step
<1>3. ASSUME NEW m \in DOMAIN Messages, kprintf(m) \/ exception(m) PROVE FormatInv'
  BY <1>3, kprintfInv, exceptionInv
<1>. QED
  BY <1>1, <1>2, <1>3 DEF Next

\* The calls of kprintf always are where FormatInv says, whatever is logged and
\* whenever exceptions interrupt it.
THEOREM FormatInvariant == Spec => []FormatInv
<1>1. Init => FormatInv
  BY InitInv
<1>2. FormatInv /\ [Next]_vars => FormatInv'
  BY NextInv
<1>. QED
  BY <1>1, <1>2, PTL DEF Spec

\* No call is behind the end of its message, or of the room after its buffer.
Bounded(x) ==
  /\ x.fmt \in 1..(Len(Format[x.message]) + 1)
  /\ x.ptr + x.copied \in 0..(BUFSZ + Slack)

\* The characters of the first items are not more than all, those of a directive
\* among them.
LEMMA FmtBounded ==
  ASSUME NEW m \in DOMAIN Messages, NEW k \in 0..Len(Messages[m])
  PROVE  /\ Len(Fmt(m, k)) \in Nat /\ Len(Format[m]) \in Nat /\ Len(Fmt(m, k)) <= Len(Format[m])
         /\ k > 0 /\ Messages[m][k].directive => Len(Fmt(m, k)) >= 2
         /\ k < Len(Messages[m]) /\ Messages[m][k + 1].directive =>
              Len(Fmt(m, k)) + (IF Messages[m][k + 1].zero THEN 3 ELSE 2) <= Len(Format[m])
<1>0. Len(Messages[m]) \in Nat
  BY MessagesAssumption
<1>1. /\ Len(Fmt(m, k)) \in Nat /\ Len(Format[m]) \in Nat /\ Len(Fmt(m, k)) <= Len(Format[m])
  <2>1. Starts(Fmt(m, k), Format[m])
    BY AllStarts
  <2>2. Len(Fmt(m, k)) \in Nat /\ Len(Format[m]) \in Nat
    BY PassedType, AllIs
  <2>. QED
    BY <2>1, <2>2 DEF Starts
<1>2. ASSUME k > 0, Messages[m][k].directive PROVE Len(Fmt(m, k)) >= 2
  <2>1. PICK l \in Nat : k = l + 1 /\ l < Len(Messages[m])
    <3>1. k - 1 \in Nat /\ k = (k - 1) + 1 /\ k - 1 < Len(Messages[m])
      BY <1>0, <1>2
    <3>. QED
      BY <3>1
  <2>2. PICK item : item = Messages[m][k]
    OBVIOUS
  <2>3. WellFormed(item) /\ item.directive
    <3>1. k \in 1..Len(Messages[m])
      BY <1>0, <1>2
    <3>. QED
      BY <1>2, <2>2, <3>1, ItemIs
  <2>4. Len(Fmt(m, l)) \in Nat /\ Len(Fmt(m, k)) = Len(Fmt(m, l)) + Len(Spelled(item))
    BY <2>1, <2>2, CharsOfItem
  <2>5. PICK before \in Nat, more \in Nat : before = Len(Fmt(m, l)) /\ more = Len(Spelled(item)) /\ more >= 2
    <3>1. item.zero \in BOOLEAN
      BY <2>3 DEF WellFormed
    <3>2. item.zero => Len(Spelled(item)) = 3
      BY <2>3, SpelledIs
    <3>3. ~item.zero => Len(Spelled(item)) = 2
      BY <2>3, SpelledIs
    <3>4. Len(Spelled(item)) \in {2, 3}
      BY <3>2, <3>3
    <3>5. Len(Spelled(item)) \in Nat /\ Len(Spelled(item)) >= 2
      BY <3>4, SMTT(30)
    <3>6. Len(Fmt(m, l)) \in Nat
      BY <2>4
    <3>. QED
      BY ONLY <3>5, <3>6
  <2>. QED
    BY <2>4, <2>5
<1>3. ASSUME k < Len(Messages[m]), Messages[m][k + 1].directive
      PROVE  Len(Fmt(m, k)) + (IF Messages[m][k + 1].zero THEN 3 ELSE 2) <= Len(Format[m])
  <2>1. PICK item : item = Messages[m][k + 1]
    OBVIOUS
  <2>2. WellFormed(item) /\ item.directive
    <3>1. k + 1 \in 1..Len(Messages[m])
      BY <1>0, <1>3
    <3>. QED
      BY <1>3, <2>1, <3>1, ItemIs
  <2>3. /\ Len(Fmt(m, k + 1)) = Len(Fmt(m, k)) + Len(Spelled(item))
        /\ Len(Fmt(m, k + 1)) <= Len(Format[m])
    BY <1>0, <1>3, <2>1, CharsOfItem
  <2>4. Len(Spelled(item)) = IF item.zero THEN 3 ELSE 2
    BY <2>2, SpelledIs
  <2>. QED
    BY <2>1, <2>3, <2>4
<1>. QED
  BY <1>1, <1>2, <1>3

\* A call that carries out a directive has room for what is left of it.
LEMMA ItemBounded ==
  ASSUME NEW x, NEW b, CallInv(x, b), x.pc \in {"utoa", "sign", "fill", "strcpy", "next"}
  PROVE  Bounded(x)
<1>0. BUFSZ \in Nat \ {0} /\ Slack \in Nat /\ DecimalDigits \in Nat /\ 2 * DecimalDigits <= Slack + 1
  BY FormatAssumption
<1>1. PICK k \in Nat, num \in Word, start \in Nat : InItem(x, b, k, num, start)
  BY DEF CallInv
<1>2. x \in CallType /\ x.message \in DOMAIN Messages /\ Len(Messages[x.message]) \in Nat
  BY MessagesAssumption DEF CallInv, CallType
<1>3. PICK item : item = Messages[x.message][k]
  OBVIOUS
<1>4. k \in 1..Len(Messages[x.message]) /\ item.directive /\ start < BUFSZ /\ x.fmt = Len(Fmt(x.message, k))
  BY <1>1, <1>3 DEF InItem
<1>5. WellFormed(item)
  BY <1>2, <1>3, <1>4, ItemIs
<1>6. x.fmt \in 1..(Len(Format[x.message]) + 1)
  <2>1. k \in 0..Len(Messages[x.message]) /\ k > 0 /\ Messages[x.message][k].directive
    BY <1>2, <1>3, <1>4
  <2>2. /\ Len(Fmt(x.message, k)) \in Nat /\ Len(Format[x.message]) \in Nat
        /\ Len(Fmt(x.message, k)) <= Len(Format[x.message]) /\ Len(Fmt(x.message, k)) >= 2
    BY <1>2, <2>1, FmtBounded
  <2>. QED
    BY <1>4, <2>2
<1>7. x.ptr \in Nat /\ x.copied \in Nat
  BY <1>2 DEF CallType
<1>8. PICK lead \in Nat, pad \in Nat, size \in Nat :
        /\ lead = Len(Lead(item)) /\ pad = Pad(item, num) /\ size = Size(item, num)
        /\ lead + pad + size <= Slack + 1
  BY <1>4, <1>5, WidthIs, ShownIs
<1>9. \/ x.ptr = start + lead /\ x.copied = 0
      \/ x.ptr \in start..(start + DecimalDigits) /\ x.copied <= DecimalDigits
      \/ x.ptr = start + lead + pad /\ x.copied <= size
  BY <1>1, <1>3, <1>8 DEF InItem
<1>10. PICK ptr \in Nat, copied \in Nat : ptr = x.ptr /\ copied = x.copied
  BY <1>7
<1>11. ptr + copied <= BUFSZ + Slack
  <2>1. /\ start \in Nat /\ start < BUFSZ /\ lead \in Nat /\ pad \in Nat /\ size \in Nat
        /\ lead + pad + size <= Slack + 1 /\ ptr \in Nat /\ copied \in Nat
    BY <1>4, <1>8, <1>10
  <2>2. CASE ptr = start + lead /\ copied = 0
    BY ONLY <1>0, <2>1, <2>2
  <2>3. CASE ptr \in start..(start + DecimalDigits) /\ copied <= DecimalDigits
    BY ONLY <1>0, <2>1, <2>3
  <2>4. CASE ptr = start + lead + pad /\ copied <= size
    BY ONLY <1>0, <2>1, <2>4
  <2>. QED
    BY <1>9, <1>10, <2>2, <2>3, <2>4
<1>. QED
  BY <1>0, <1>6, <1>10, <1>11 DEF Bounded

\* So has one at any other place.
LEMMA CallBounded ==
  ASSUME NEW x, NEW b, CallInv(x, b)
  PROVE  Bounded(x)
<1>0. BUFSZ \in Nat \ {0} /\ Slack \in Nat
  BY FormatAssumption
<1>1. x \in CallType /\ x.message \in DOMAIN Messages /\ Len(Messages[x.message]) \in Nat
  BY MessagesAssumption DEF CallInv, CallType
<1>2. x.fmt \in Nat /\ x.ptr \in Nat /\ x.copied \in Nat
  BY <1>1 DEF CallType
<1>3. ASSUME NEW k \in Nat, Written(x, k), x.ptr <= BUFSZ + Slack
      PROVE  /\ k \in 0..Len(Messages[x.message]) /\ x.ptr + x.copied \in 0..(BUFSZ + Slack)
             /\ Len(Fmt(x.message, k)) \in Nat /\ Len(Format[x.message]) \in Nat
             /\ Len(Fmt(x.message, k)) <= Len(Format[x.message])
  <2>1. k \in 0..Len(Messages[x.message]) /\ x.copied = 0
    BY <1>3 DEF Written, Behind
  <2>2. x.ptr + x.copied \in 0..(BUFSZ + Slack)
    BY <1>0, <1>2, <1>3, <2>1
  <2>3. /\ Len(Fmt(x.message, k)) \in Nat /\ Len(Format[x.message]) \in Nat
        /\ Len(Fmt(x.message, k)) <= Len(Format[x.message])
    BY <1>1, <2>1, FmtBounded
  <2>. QED
    BY <2>1, <2>2, <2>3
<1>4. CASE x.pc = "loop"
  <2>1. PICK k \in Nat : Written(x, k) /\ x.ptr <= BUFSZ + Slack /\ x.fmt = Len(Fmt(x.message, k)) + 1
    BY <1>4 DEF CallInv, InLoop
  <2>. QED
    BY <1>3, <2>1 DEF Bounded
<1>5. CASE x.pc = "switch"
  <2>1. PICK k \in Nat :
          /\ Written(x, k) /\ x.ptr < BUFSZ /\ k < Len(Messages[x.message])
          /\ Messages[x.message][k + 1].directive /\ (x.zeroes => Messages[x.message][k + 1].zero)
          /\ x.fmt = Len(Fmt(x.message, k)) + (IF x.zeroes THEN 3 ELSE 2)
    BY <1>5 DEF CallInv, InSwitch
  <2>2. x.ptr <= BUFSZ + Slack
    BY <1>0, <1>2, <2>1
  <2>3. /\ k \in 0..Len(Messages[x.message]) /\ x.ptr + x.copied \in 0..(BUFSZ + Slack)
        /\ Len(Fmt(x.message, k)) \in Nat /\ Len(Format[x.message]) \in Nat
    BY <1>3, <2>1, <2>2
  <2>4. Len(Fmt(x.message, k)) + (IF Messages[x.message][k + 1].zero THEN 3 ELSE 2) <= Len(Format[x.message])
    BY <1>1, <2>1, <2>3, FmtBounded
  <2>5. x.fmt \in 1..(Len(Format[x.message]) + 1)
    <3>1. CASE x.zeroes
      BY <2>1, <2>3, <2>4, <3>1
    <3>2. CASE ~x.zeroes
      <4>1. Len(Fmt(x.message, k)) + 2 <= Len(Format[x.message])
        BY <2>3, <2>4
      <4>. QED
        BY <2>1, <2>3, <3>2, <4>1
    <3>. QED
      BY <3>1, <3>2
  <2>. QED
    BY <2>3, <2>5 DEF Bounded
<1>6. CASE x.pc \in {"utoa", "sign", "fill", "strcpy", "next"}
  BY <1>6, ItemBounded
<1>7. CASE x.pc = "write"
  <2>1. x.ptr + x.copied <= BUFSZ + Slack /\ x.fmt <= Len(Format[x.message]) + 1 /\ x.fmt # 0
    BY <1>7 DEF CallInv
  <2>2. Len(Format[x.message]) \in Nat
    BY <1>1, AllIs
  <2>. QED
    BY <1>0, <1>2, <2>1, <2>2 DEF Bounded
<1>. QED
  BY <1>1, <1>4, <1>5, <1>6, <1>7 DEF CallType

\* Each call is in the state its place in the code asks for.
LEMMA EveryCall ==
  ASSUME FormatInv, NEW i \in DOMAIN stack
  PROVE  CallInv(stack[i], buffer) /\ stack[i] \in CallType
<1>1. stack \in Seq(CallType) /\ \A j \in 1..Len(stack) : CallInv(stack[j], buffer)
  BY DEF FormatInv, CallsInv
<1>2. DOMAIN stack = 1..Len(stack)
  BY <1>1
<1>. QED
  BY <1>1, <1>2

-----------------------------------------------------------------------------
(* Theorems. *)

\* No digit is stored outside utoa's buffer, and no message runs on past its own
\* buffer by more than one directive.
THEOREM TypeCorrect == Spec => []TypeOK
<1>1. FormatInv => TypeOK
  <2>1. SUFFICES ASSUME FormatInv PROVE TypeOK
    OBVIOUS
  <2>2. buffer \in [0..15 -> Chars] /\ buffer[15] = NUL
    BY <2>1 DEF FormatInv, CallsInv, BufferInv
  <2>3. ASSUME NEW i \in DOMAIN stack
        PROVE  LET call == stack[i]
               IN  /\ call.message \in DOMAIN Messages /\ call.fmt \in 1..(Len(Format[call.message]) + 1)
                   /\ call.pc \in {"loop", "switch", "utoa", "sign", "fill", "strcpy", "next", "write"}
                   /\ call.ptr + call.copied \in 0..(BUFSZ + Slack)
                   /\ call.value \in Word /\ call.digit \in 0..14
    <3>1. CallInv(stack[i], buffer) /\ stack[i] \in CallType
      BY <2>1, <2>3, EveryCall
    <3>2. /\ stack[i].message \in DOMAIN Messages /\ stack[i].value \in Word /\ stack[i].digit \in 0..14
          /\ stack[i].pc \in {"loop", "switch", "utoa", "sign", "fill", "strcpy", "next", "write"}
      BY <3>1 DEF CallType
    <3>3. /\ stack[i].fmt \in 1..(Len(Format[stack[i].message]) + 1)
          /\ stack[i].ptr + stack[i].copied \in 0..(BUFSZ + Slack)
      BY <3>1, CallBounded DEF Bounded
    <3>. QED
      BY <3>2, <3>3
  <2>. QED
    BY <2>2, <2>3 DEF TypeOK
<1>. QED
  BY <1>1, FormatInvariant, PTL

\* What a call hands to write is the text asked for, unless a number was
\* overwritten, or is negative.
THEOREM TextHandedOver == Spec => []TextAsAsked
<1>1. FormatInv => TextAsAsked
  <2>1. SUFFICES ASSUME FormatInv, NEW i \in DOMAIN stack,
                        stack[i].pc = "write", ~stack[i].overwritten, ~Signed(stack[i].message)
                 PROVE  Matches(stack[i], Reference(stack[i].message, "text"))
    BY DEF TextAsAsked
  <2>2. CallInv(stack[i], buffer)
    BY <2>1, EveryCall
  <2>3. "text" \in Promised(stack[i])
    BY <2>1 DEF Promised
  <2>. QED
    BY <2>1, <2>2, <2>3 DEF CallInv
<1>. QED
  BY <1>1, FormatInvariant, PTL

\* Its shape is right even then.
THEOREM ShapeHandedOver == Spec => []ShapeKept
<1>1. FormatInv => ShapeKept
  <2>1. SUFFICES ASSUME FormatInv, NEW i \in DOMAIN stack, stack[i].pc = "write", ~Signed(stack[i].message)
                 PROVE  Matches(stack[i], Reference(stack[i].message, "shape"))
    BY DEF ShapeKept
  <2>2. CallInv(stack[i], buffer)
    BY <2>1, EveryCall
  <2>3. "shape" \in Promised(stack[i])
    BY <2>1 DEF Promised
  <2>. QED
    BY <2>1, <2>2, <2>3 DEF CallInv
<1>. QED
  BY <1>1, FormatInvariant, PTL

===============================================================================
