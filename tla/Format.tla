-------------------------------- MODULE Format --------------------------------
(***************************************************************************)
(* Formatting: kvsnprintf, utoa and itoa of kernel/io/kvsnprintf.c, under  *)
(* kprintf of kernel/io/kprintf.c.                                         *)
(*                                                                         *)
(* All conversions share the static digits of utoa, and an exception's     *)
(* handler logs too: a call may come between any two steps of another, and *)
(* returns before it goes on.  The stack holds the calls, the innermost    *)
(* last; what is local to a call (its buffer, its pointers) is a field.    *)
(*                                                                         *)
(* Characters are strings of one character and NUL.  A message is a        *)
(* sequence of items, [directive, char, zero, args], each a character that *)
(* stands for itself or a directive, with its argument if the caller has   *)
(* one; the code sees the characters and the arguments, the properties the *)
(* items.                                                                  *)
(***************************************************************************)
EXTENDS Integers, Sequences, SequencesExt, FiniteSetsExt

CONSTANTS
  Alphabet,       \* the characters of messages
  Messages,       \* what callers log, a sequence of sequences of items
  Bits,           \* the width of a word
  HexDigits,      \* the most digits a word has in base 16,
  DecimalDigits,  \* and in base 10
  Stray,          \* the words that may lie where an argument is missing
  BUFSZ,          \* IO_MAXBUFSIZE
  Slack,          \* the bytes after a buffer that are modelled
  MaxDepth        \* bound on nested calls

Power[p \in Nat \X Nat] == IF p[2] = 0 THEN 1 ELSE p[1] * Power[<<p[1], p[2] - 1>>]

Sign == Power[<<2, Bits - 1>>]  \* of a word with its highest bit
Word == 0..(2 * Sign - 1)

NUL    == "NUL"
UNUSED == "UNUSED"  \* of a byte that was not stored to
ANY    == "ANY"     \* of a byte whose value is left open

\* Slack is enough for what the longest item leaves after a full buffer.
ASSUME FormatAssumption ==
  /\ {Bits, HexDigits, DecimalDigits, BUFSZ, MaxDepth} \subseteq Nat \ {0}
  /\ Power[<<16, HexDigits>>] = 2 * Sign
  /\ Power[<<10, DecimalDigits - 1>>] < 2 * Sign /\ 2 * Sign <= Power[<<10, DecimalDigits>>]
  /\ DecimalDigits < 14 /\ {NUL, UNUSED, ANY} \cap Alphabet = {}
  /\ Stray \subseteq Word /\ Stray # {}
  /\ Slack \in Nat /\ 2 * DecimalDigits <= Slack + 1 /\ 2 + HexDigits <= Slack + 1

\* The arguments are those the directives ask for.  Only a %p may lack its own,
\* with no argument of another item after it.
Numbers == {"d", "u", "x", "p"}

WellFormed(item) ==
  /\ item.directive \in BOOLEAN /\ item.zero \in BOOLEAN
  /\ item.char \in Alphabet \ (IF item.directive THEN {"0"} ELSE {"%"})
  /\ \/ ~(item.directive /\ item.char \in Numbers \cup {"s", "c"}) /\ item.args = <<>>
     \/ item.directive /\ item.char = "p" /\ item.args = <<>>
     \/ item.directive /\ item.char \in Numbers /\ \E n \in Word : item.args = <<n>>
     \/ /\ item.directive /\ item.char \in {"s", "c"}
        /\ item.args = <<item.args[1]>> /\ item.args[1] \in Seq(Alphabet)
        /\ Len(item.args[1]) <= Slack + 1 /\ (item.char = "c" => Len(item.args[1]) = 1)

ASSUME MessagesAssumption ==
  \A m \in DOMAIN Messages :
    /\ Len(Messages[m]) \in Nat /\ DOMAIN Messages[m] = 1..Len(Messages[m])
    /\ \A i \in DOMAIN Messages[m] : WellFormed(Messages[m][i])
    /\ \A i, j \in DOMAIN Messages[m] :
         i < j /\ Messages[m][i].directive /\ Messages[m][i].char = "p" /\ Messages[m][i].args = <<>>
           => Messages[m][j].args = <<>>

VARIABLES
  buffer,  \* utoa's
  stack    \* the calls

vars == <<buffer, stack>>

Spelled(item) ==
  IF ~item.directive THEN <<item.char>>
  ELSE IF item.zero THEN <<"%", "0", item.char>> ELSE <<"%", item.char>>

\* The characters and the arguments of the first k items of message m.
Passed[p \in (DOMAIN Messages) \X Nat] ==
  IF p[2] = 0 THEN [fmt |-> <<>>, args |-> <<>>]
  ELSE LET before == Passed[<<p[1], p[2] - 1>>]
           item   == Messages[p[1]][p[2]]
       IN  [fmt |-> before.fmt \o Spelled(item), args |-> before.args \o item.args]

Format    == [m \in DOMAIN Messages |-> Passed[<<m, Len(Messages[m])>>].fmt]
Arguments == [m \in DOMAIN Messages |-> Passed[<<m, Len(Messages[m])>>].args]

\* text is a string of its own, or the static one from an index on.
Literal(chars) == [static |-> FALSE, chars |-> chars, at |-> 0]
Static(at)     == [static |-> TRUE, chars |-> <<>>, at |-> at]

Call(m) ==
  [message |-> m, pc |-> "loop", fmt |-> 1, ap |-> 1,
   buf |-> [i \in 0..(BUFSZ + Slack) |-> UNUSED], ptr |-> 0,
   zeroes |-> FALSE, fill |-> 0, text |-> Literal(<<>>), copied |-> 0,
   value |-> 0, base |-> 10, neg |-> FALSE, digit |-> 14,
   interrupted |-> FALSE, overwritten |-> FALSE]  \* history

c == Last(stack)

\* The character at fmt, and the text as a string.
Char == IF c.fmt > Len(Format[c.message]) THEN NUL ELSE Format[c.message][c.fmt]

Text ==
  IF c.text.static
  THEN LET end == Min({i \in c.text.at..15 : buffer[i] = NUL})
       IN  [i \in 1..(end - c.text.at) |-> buffer[c.text.at + i - 1]]
  ELSE c.text.chars

Goes(after) == stack' = Append(Front(stack), after)

At(pc) == stack # <<>> /\ c.pc = pc

\* The call's buffer with characters from an index on, and *ptr++ for each.
store(call, at, chars) ==
  [i \in DOMAIN call.buf |-> IF i - at \in 0..(Len(chars) - 1) THEN chars[i - at + 1] ELSE call.buf[i]]

put(call, chars) ==
  [call EXCEPT !.ptr = @ + Len(chars), !.buf = store(call, call.ptr, chars)]

-----------------------------------------------------------------------------
Init ==
  /\ buffer = [i \in 0..15 |-> NUL]
  /\ stack = <<>>

\* kprintf, called by the kernel, or by the handler of an exception in the
\* middle of another call, once for each.
kprintf(m) ==
  /\ stack = <<>>
  /\ stack' = <<Call(m)>>
  /\ UNCHANGED buffer

exception(m) ==
  /\ stack # <<>> /\ Len(stack) < MaxDepth /\ ~c.interrupted
  /\ stack' = Append(Front(stack), [c EXCEPT !.interrupted = TRUE]) \o <<Call(m)>>
  /\ UNCHANGED buffer

\* Mutant: the test of the buffer's size is gone.
Room_ignored == TRUE

Room == c.ptr < BUFSZ

literal ==
  /\ At("loop") /\ Char \notin {NUL, "%"} /\ Room
  /\ Goes([put(c, <<Char>>) EXCEPT !.fmt = @ + 1])
  /\ UNCHANGED buffer

directive ==
  /\ At("loop") /\ Char = "%" /\ Room
  /\ Goes([c EXCEPT !.pc = "switch", !.fmt = @ + 1, !.zeroes = FALSE, !.fill = 0])
  /\ UNCHANGED buffer

\* Mutant: the character after the flag is not read.
flag_stays == [c EXCEPT !.zeroes = TRUE]

flag == [c EXCEPT !.zeroes = TRUE, !.fmt = @ + 1]

\* Mutant: the digits start at the last byte.
utoa_from_last(call, value, base) ==
  [call EXCEPT !.pc = "utoa", !.ap = @ + 1, !.value = value, !.base = base,
               !.neg = FALSE, !.digit = 15]

utoa(call, value, base) ==
  [call EXCEPT !.pc = "utoa", !.ap = @ + 1, !.value = value, !.base = base,
               !.neg = FALSE, !.digit = 14]

itoa(call, value) ==
  IF value < Sign THEN utoa(call, value, 10)
  ELSE [utoa(call, 2 * Sign - value, 10) EXCEPT !.neg = TRUE]

shows(call, chars) == [call EXCEPT !.pc = "fill", !.text = Literal(chars)]

\* The next argument.  serial.c:44 passes none for its %p: va_arg finds
\* whatever is there.
Argument == IF c.ap <= Len(Arguments[c.message]) THEN {Arguments[c.message][c.ap]} ELSE Stray

switch ==
  /\ At("switch")
  /\ \/ Char = "0" /\ Goes(flag)
     \/ Char = "%" /\ Goes(shows(c, <<"%">>))
     \/ \E arg \in Argument :
          \/ Char = "d" /\ Goes(itoa([c EXCEPT !.fill = DecimalDigits], arg))
          \/ Char = "p" /\ Goes(utoa([put(c, <<"0", "x">>) EXCEPT !.zeroes = TRUE, !.fill = HexDigits], arg, 16))
          \/ Char = "x" /\ Goes(utoa([c EXCEPT !.fill = HexDigits], arg, 16))
          \/ Char = "s" /\ Goes([shows(c, arg) EXCEPT !.ap = @ + 1])
          \/ Char = "c" /\ Goes([shows(put(c, arg), <<>>) EXCEPT !.ap = @ + 1])
          \/ Char = "u" /\ Goes(utoa(c, arg, 10))
     \/ Char \notin Numbers \cup {"0", "%", "s", "c"} /\ Goes(shows(c, <<>>))
  /\ UNCHANGED buffer

Digits == <<"0", "1", "2", "3", "4", "5", "6", "7", "8", "9",
            "A", "B", "C", "D", "E", "F">>

\* Mutant: the buffer is cleared first, as if it were not static.
stored_cleared(ch) == [i \in 0..15 |-> IF i = c.digit THEN ch ELSE IF c.digit = 14 THEN NUL ELSE buffer[i]]

stored(ch) == [buffer EXCEPT ![c.digit] = ch]

Converts(call) == call.pc = "utoa" \/ (call.text.static /\ call.pc \in {"sign", "fill", "strcpy", "next"})

\* One digit, at least one.  The calls below that have a number in the same
\* buffer are marked.
utoa_digit ==
  /\ At("utoa") /\ (c.value > 0 \/ c.digit = 14)
  /\ buffer' = stored(Digits[(c.value % c.base) + 1])
  /\ stack' = Append([i \in DOMAIN Front(stack) |->
                        [stack[i] EXCEPT !.overwritten = @ \/ Converts(stack[i])]],
                     [c EXCEPT !.value = @ \div c.base, !.digit = @ - 1])

utoa_return ==
  /\ At("utoa") /\ c.value = 0 /\ c.digit < 14
  /\ Goes([c EXCEPT !.text = Static(c.digit + 1), !.pc = IF c.neg THEN "sign" ELSE "fill"])
  /\ UNCHANGED buffer

\* *ptr-- = '-': on the first digit, and the text starts before it.
itoa_sign ==
  /\ At("sign")
  /\ buffer' = [buffer EXCEPT ![c.text.at] = "-"]
  /\ Goes([c EXCEPT !.text = Static(c.text.at - 1), !.pc = "fill"])

Zeroes(n) == [i \in 1..n |-> "0"]

missing(len) == IF c.zeroes /\ len < c.fill THEN c.fill - len ELSE 0

fill ==
  /\ At("fill")
  /\ Goes([put(c, Zeroes(missing(Len(Text)))) EXCEPT !.pc = "strcpy"])
  /\ UNCHANGED buffer

\* One character of strcpy(ptr, text), or its end.
strcpy ==
  /\ At("strcpy")
  /\ LET more == c.copied < Len(Text)
         ch   == IF more THEN Text[c.copied + 1] ELSE NUL
     IN  Goes([c EXCEPT !.buf = store(c, c.ptr + c.copied, <<ch>>),
                        !.copied = IF more THEN @ + 1 ELSE @,
                        !.pc = IF more THEN @ ELSE "next"])
  /\ UNCHANGED buffer

next ==
  /\ At("next")
  /\ Goes([c EXCEPT !.ptr = @ + Len(Text), !.fmt = @ + 1, !.copied = 0, !.pc = "loop"])
  /\ UNCHANGED buffer

\* The end of kvsnprintf.
terminate ==
  /\ At("loop") /\ (Char = NUL \/ ~Room)
  /\ Goes([c EXCEPT !.buf = store(c, c.ptr, <<NUL>>), !.pc = "write"])
  /\ UNCHANGED buffer

\* kprintf hands the buffer to write and returns.
kprintf_return ==
  /\ At("write")
  /\ stack' = Front(stack)
  /\ UNCHANGED buffer

Step ==
  \/ literal \/ directive \/ switch
  \/ utoa_digit \/ utoa_return \/ itoa_sign
  \/ fill \/ strcpy \/ next
  \/ terminate \/ kprintf_return

Next ==
  \/ Step
  \/ \E m \in DOMAIN Messages : kprintf(m) \/ exception(m)

\* The processor executes the kernel's instructions.
Spec == Init /\ [][Next]_vars /\ WF_vars(Step)

-----------------------------------------------------------------------------
(* Properties. *)

Chars == {Digits[i] : i \in 1..16} \cup {"-", NUL}

\* No digit is stored outside utoa's buffer, none over the NUL at its end, and
\* no message runs on past its own buffer by more than one directive.
TypeOK ==
  /\ buffer \in [0..15 -> Chars] /\ buffer[15] = NUL
  /\ \A i \in DOMAIN stack :
       LET call == stack[i]
       IN  /\ call.message \in DOMAIN Messages /\ call.fmt \in 1..(Len(Format[call.message]) + 1)
           /\ call.pc \in {"loop", "switch", "utoa", "sign", "fill", "strcpy", "next", "write"}
           /\ call.ptr + call.copied \in 0..(BUFSZ + Slack)
           /\ call.value \in Word /\ call.digit \in 0..14

\* What an item looks like: numerals without leading zeros, filled on request,
\* ANY where anything may be.
Numeral(n, base) ==
  LET len == Min({k \in 1..DecimalDigits : n < Power[<<base, k>>]})
  IN  [i \in 1..len |-> Digits[((n \div Power[<<base, len - i>>]) % base) + 1]]

Unknown(chars) == [i \in DOMAIN chars |-> ANY]

Filled(numeral, width) ==
  Zeroes(IF width > Len(numeral) THEN width - Len(numeral) ELSE 0) \o numeral

\* The "text" itself, or its "shape", that is, without the digits.
Piece(item, view) ==
  LET numeral(base) == IF view = "text" THEN Numeral(item.args[1], base)
                                        ELSE Unknown(Numeral(item.args[1], base))
      zero(width) == IF item.zero THEN width ELSE 0
  IN  IF ~item.directive THEN <<item.char>>
      ELSE CASE item.char = "d" -> Filled(numeral(10), zero(DecimalDigits))
             [] item.char = "u" -> numeral(10)
             [] item.char = "x" -> Filled(numeral(16), zero(HexDigits))
             [] item.char = "p" -> <<"0", "x">> \o (IF item.args # <<>> THEN Filled(numeral(16), HexDigits)
                                                     ELSE Unknown(Zeroes(HexDigits)))
             [] item.char \in {"s", "c"} -> item.args[1]
             [] item.char = "%" -> <<"%">>
             [] OTHER -> <<>>

\* The first k items of message m, cut where the buffer is full.
Upto[p \in (DOMAIN Messages) \X {"text", "shape"} \X Nat] ==
  IF p[3] = 0 THEN <<>>
  ELSE LET before == Upto[<<p[1], p[2], p[3] - 1>>]
       IN  IF Len(before) < BUFSZ THEN before \o Piece(Messages[p[1]][p[3]], p[2]) ELSE before

Reference(m, view) == Upto[<<m, view, Len(Messages[m])>>]

\* The buffer holds the text, a NUL, and nothing after it.
Matches(call, text) ==
  /\ call.ptr = Len(text)
  /\ \A i \in DOMAIN text : text[i] # ANY => call.buf[i - 1] = text[i]
  /\ call.buf[Len(text)] = NUL
  /\ \A j \in (Len(text) + 1)..(BUFSZ + Slack) : call.buf[j] = UNUSED

\* A message with a negative %d is left out: see itoa_sign.
Signed(m) ==
  \E i \in DOMAIN Messages[m] :
    LET item == Messages[m][i] IN item.directive /\ item.char = "d" /\ item.args[1] >= Sign

\* What kvsnprintf hands over is the text asked for, ended by a NUL with nothing
\* stored after it, cut only where the buffer is full, unless the handler of an
\* exception converted a number while this call had one in utoa's buffer.
TextAsAsked ==
  \A i \in DOMAIN stack :
    LET call == stack[i]
    IN  call.pc = "write" /\ ~call.overwritten /\ ~Signed(call.message) =>
          Matches(call, Reference(call.message, "text"))

\* Even then the length is right, and every character that is not a digit of a
\* number: digits end at the same place in utoa's buffer, whoever wrote them.
ShapeKept ==
  \A i \in DOMAIN stack :
    LET call == stack[i]
    IN  call.pc = "write" /\ ~Signed(call.message) => Matches(call, Reference(call.message, "shape"))

\* Every call of kprintf returns, the interrupted ones too.
CallsReturn == stack # <<>> ~> stack = <<>>

=============================================================================
