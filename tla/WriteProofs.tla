----------------------------- MODULE WriteProofs -----------------------------
(***************************************************************************)
(* The serial driver and the screen for every number of ports and size of  *)
(* screen, of messages and of exceptions inside exceptions: messages are   *)
(* whole, the port comes back, and the screen shows what was written.      *)
(*                                                                         *)
(* The first two rest on who has the port.  The first n writers of the     *)
(* stack leave the default port at Default(n): nothing if one of them is   *)
(* sending, the port last chosen otherwise.  A writer above them has read  *)
(* just that, so of two that send the upper one would have read that       *)
(* there is no port.                                                       *)
(*                                                                         *)
(* The screen rests on the lines of the text, whose last one says where    *)
(* row and col are, and on what the running writer still has to do: the    *)
(* screen that is pending once it has done it shows the lines.  A step     *)
(* that stores the character adds it to both, every other step of putchar  *)
(* leaves the pending screen as it was.  As long as no message found a     *)
(* putchar halfway, the writers below the running one have nothing left to *)
(* do, so the pending screen is also the one they go on with.              *)
(*                                                                         *)
(* The cursor rests on who writes it.  Only the running writer can have    *)
(* begun to place it undisturbed, all below it are marked.                 *)
(***************************************************************************)
EXTENDS Write, SequenceTheorems, WellFoundedInduction, TLAPS

\* The points of putchar; those after its store.
Later   == {"advance", "wrap", "newrow", "full", "scroll", "clear"}
Putting == {"put", "init", "show", "store", "advance", "wrap", "newrow", "full", "scroll", "clear",
            "cursor"}
Place   == {"read", "take", "send"} \cup Putting

Writer == [id : Nat, at : Place, com : Ports \cup {0},
           bytes : Nat, str : Messages, pos : Int, outs : Nat, torn : BOOLEAN]

LEMMA Places ==
  /\ "read" \in Place /\ "take" \in Place /\ "send" \in Place /\ "put" \in Place /\ "cursor" \in Place
  /\ Putting \subseteq Place /\ "cursor" \in Putting
  /\ "put" \in Putting /\ "init" \in Putting /\ "show" \in Putting /\ "store" \in Putting
  /\ "advance" \in Putting /\ "wrap" \in Putting /\ "newrow" \in Putting /\ "full" \in Putting
  /\ "scroll" \in Putting /\ "clear" \in Putting
BY DEF Place, Putting

Byte == [id : Nat, place : Nat \ {0}, size : Nat]

IsScreen(s) == s \in [buffer : {s.buffer}, row : Int, col : Int]

TypeInv ==
  /\ writers \in Seq(Writer)
  /\ sent \in [Ports -> Seq(Byte)]
  /\ count \in Nat
  /\ chosen \in Ports \cup {0} /\ serial_default_port_ \in Ports \cup {0}
  /\ serial_ports_ \in [Slot -> Present \cup {0}]
  /\ dlab \subseteq Ports
  /\ IsScreen(screen)

\* The table, and the port chosen from it.
TableInv ==
  /\ \A i, j \in Slot :
       /\ serial_ports_[i] = serial_ports_[j] => i = j \/ serial_ports_[i] = 0
       /\ i < j /\ serial_ports_[j] # 0 => serial_ports_[i] # 0
  /\ \A i \in Slot : serial_ports_[i] \notin dlab
  /\ chosen # 0 => \E i \in Slot : serial_ports_[i] = chosen

Holds(w) == w.at = "send" /\ w.com # 0

Default(n) == IF \E j \in 1..n : Holds(writers[j]) THEN 0 ELSE chosen

PortInv ==
  /\ serial_default_port_ = Default(Len(writers))
  /\ \A i \in 1..Len(writers) :
       /\ writers[i].at \in {"take", "send"} => writers[i].com = Default(i - 1)
       /\ writers[i].at \in {"read", "take"} => writers[i].bytes = 0

\* The byte w sent last, if it has sent one.
LastOf(w) == [id |-> w.id, place |-> w.bytes, size |-> Len(w.str)]

\* b may come right before c on a line.
Follows(b, c) ==
  IF c.place > 1 THEN b = [c EXCEPT !.place = @ - 1] ELSE b.place >= b.size

\* The bytes on a line are in order, and the last message is whole or that of a
\* writer who has the line's port.
SentInv ==
  \A com \in Ports :
    LET s == sent[com]
    IN  /\ \A k \in 2..Len(s) : Follows(s[k - 1], s[k])
        /\ s # <<>> => s[1].place = 1
        /\ s # <<>> /\ s[Len(s)].place < s[Len(s)].size =>
             \E i \in 1..Len(writers) :
               Holds(writers[i]) /\ writers[i].com = com /\ s[Len(s)] = LastOf(writers[i])
        /\ \A i \in 1..Len(writers) :
             Holds(writers[i]) /\ writers[i].com = com /\ writers[i].bytes > 0 =>
               s # <<>> /\ s[Len(s)] = LastOf(writers[i])

IInv == TypeInv /\ TableInv /\ PortInv /\ SentInv

-----------------------------------------------------------------------------
(* The stack of writers. *)

\* What a step of the running writer does to the stack.
LEMMA TopOfStack ==
  ASSUME TypeInv, writers # <<>>, NEW w \in Writer, Goes(w)
  PROVE  /\ Len(writers) \in Nat \ {0}
         /\ Running = writers[Len(writers)] /\ Running \in Writer
         /\ writers' \in Seq(Writer) /\ Len(writers') = Len(writers)
         /\ writers'[Len(writers)] = w
         /\ \A i \in 1..(Len(writers) - 1) : writers'[i] = writers[i]
  BY DEF TypeInv, Goes, Running, Last, Front

LEMMA RunningIsWriter ==
  ASSUME TypeInv, writers # <<>>
  PROVE  /\ Len(writers) \in Nat \ {0}
         /\ Running = writers[Len(writers)] /\ Running \in Writer
  BY DEF TypeInv, Running, Last

\* Only one writer has the port.
LEMMA OneHolder ==
  ASSUME TypeInv, PortInv, NEW i \in 1..Len(writers), NEW j \in 1..Len(writers),
         Holds(writers[i]), Holds(writers[j])
  PROVE  i = j
<1>1. ASSUME NEW k \in 1..Len(writers), NEW m \in 1..Len(writers), k < m,
             Holds(writers[k]), Holds(writers[m])
      PROVE  FALSE
  <2>1. writers[m].com = Default(m - 1)
    BY <1>1 DEF PortInv, Holds
  <2>2. k \in 1..(m - 1)
    BY <1>1 DEF TypeInv
  <2>3. Default(m - 1) = 0
    BY <1>1, <2>2 DEF Default
  <2>. QED
    BY <1>1, <2>1, <2>3 DEF Holds
<1>. QED
  BY <1>1

\* A step of the running writer leaves the port as its new state says.
LEMMA PortStep ==
  ASSUME TypeInv, PortInv, writers # <<>>, NEW w \in Writer, Goes(w), chosen' = chosen,
         w.at \in {"take", "send"} => w.com = Default(Len(writers) - 1),
         w.at \in {"read", "take"} => w.bytes = 0,
         serial_default_port_' = IF Holds(w) THEN 0 ELSE Default(Len(writers) - 1)
  PROVE  PortInv'
<1> DEFINE n == Len(writers)
<1>1. /\ n \in Nat \ {0} /\ Len(writers') = n /\ writers'[n] = w
      /\ \A i \in 1..(n - 1) : writers'[i] = writers[i]
  BY TopOfStack
<1>2. \A i \in 1..n : Default(i - 1)' = Default(i - 1)
  BY <1>1 DEF Default
<1>3. serial_default_port_' = Default(n)'
  <2>1. CASE Holds(w)
    BY <1>1, <2>1 DEF Default
  <2>2. CASE ~Holds(w)
    <3>1. Default(n)' = Default(n - 1)
      BY <1>1, <2>2 DEF Default
    <3>. QED
      BY <2>2, <3>1
  <2>. QED
    BY <2>1, <2>2
<1>4. \A i \in 1..n :
        /\ writers'[i].at \in {"take", "send"} => writers'[i].com = Default(i - 1)'
        /\ writers'[i].at \in {"read", "take"} => writers'[i].bytes = 0
  BY <1>1, <1>2 DEF PortInv
<1>. QED
  BY <1>1, <1>3, <1>4 DEF PortInv

\* A step that sends nothing: the running writer goes on with the port as it
\* was, or takes it before its first byte, or does not have it afterwards and
\* had nothing left to send.
LEMMA SentStep ==
  ASSUME TypeInv, PortInv, SentInv, writers # <<>>, NEW w \in Writer, Goes(w), sent' = sent,
         \/ Holds(w) /\ ~Holds(Running) /\ w.bytes = 0
         \/ ~Holds(w) /\ (Holds(Running) => Running.bytes = Len(Running.str))
  PROVE  SentInv'
<1> DEFINE n == Len(writers)
<1>1. /\ n \in Nat \ {0} /\ Running = writers[n] /\ Len(writers') = n /\ writers'[n] = w
      /\ \A i \in 1..(n - 1) : writers'[i] = writers[i]
  BY TopOfStack
<1> SUFFICES ASSUME NEW com \in Ports
             PROVE  LET s == sent[com]
                    IN  /\ \A k \in 2..Len(s) : Follows(s[k - 1], s[k])
                        /\ s # <<>> => s[1].place = 1
                        /\ s # <<>> /\ s[Len(s)].place < s[Len(s)].size =>
                             \E i \in 1..n :
                               Holds(writers'[i]) /\ writers'[i].com = com /\ s[Len(s)] = LastOf(writers'[i])
                        /\ \A i \in 1..n :
                             Holds(writers'[i]) /\ writers'[i].com = com /\ writers'[i].bytes > 0 =>
                               s # <<>> /\ s[Len(s)] = LastOf(writers'[i])
  BY <1>1 DEF SentInv
<1> DEFINE s == sent[com]
<1>2. ASSUME s # <<>>, s[Len(s)].place < s[Len(s)].size
      PROVE  \E i \in 1..n :
               Holds(writers'[i]) /\ writers'[i].com = com /\ s[Len(s)] = LastOf(writers'[i])
  <2>1. PICK i \in 1..n :
          Holds(writers[i]) /\ writers[i].com = com /\ s[Len(s)] = LastOf(writers[i])
    BY <1>2 DEF SentInv
  <2>2. i # n
    BY <1>1, <1>2, <2>1 DEF LastOf
  <2>. QED
    BY <1>1, <2>1, <2>2
<1>3. ASSUME NEW i \in 1..n, Holds(writers'[i]), writers'[i].com = com, writers'[i].bytes > 0
      PROVE  s # <<>> /\ s[Len(s)] = LastOf(writers'[i])
  <2>1. i # n
    BY <1>1, <1>3
  <2>. QED
    BY <1>1, <1>3, <2>1 DEF SentInv
<1>. QED
  BY <1>2, <1>3 DEF SentInv

-----------------------------------------------------------------------------
(* One lemma for each action. *)

LEMMA InitInv == Init => IInv
<1> SUFFICES ASSUME Init PROVE IInv
  OBVIOUS
<1>1. TypeInv
  BY DEF Init, SerialInit, ConsoleInit, TypeInv, IsScreen
<1>2. TableInv
  BY SerialAssumption DEF Init, SerialInit, TableInv
<1>3. PortInv /\ SentInv
  BY DEF Init, SerialInit, PortInv, SentInv, Default
<1>. QED
  BY <1>1, <1>2, <1>3 DEF IInv

\* Where the search ends at a free slot the port is not in the table.
LEMMA SearchEnds ==
  ASSUME TypeInv, TableInv, NEW com \in Ports, NEW i \in Slot, search(i, com), serial_ports_[i] = 0
  PROVE  /\ \A j \in Slot : j < i => serial_ports_[j] # 0
         /\ \A j \in Slot : serial_ports_[j] # com
<1>1. \A j \in Slot : j < i => serial_ports_[j] \notin {0, com}
  BY SerialAssumption DEF search, EndsSearch, Slot
<1>2. \A j \in Slot : j > i => serial_ports_[j] = 0
  BY SerialAssumption DEF TableInv, Slot
<1>. QED
  BY <1>1, <1>2, SerialAssumption DEF Slot

LEMMA InitPortInv ==
  ASSUME IInv, NEW com \in Ports, serial_init_port(com), UNCHANGED console
  PROVE  IInv'
<1>1. PICK i \in Slot :
      /\ search(i, com) /\ serial_ports_[i] = 0
      /\ serial_ports_' \in {serial_ports_, [serial_ports_ EXCEPT ![i] = com]}
      /\ serial_ports_' # serial_ports_ => com \in Present
      /\ dlab' = dlab \ {com}
      /\ UNCHANGED <<serial_default_port_, writers, sent, count, chosen, screen>>
  BY DEF serial_init_port, answers, configure, x86_serial_config_line, x86_serial_config_baud_rate, console
<1>2. TypeInv /\ TableInv /\ PortInv /\ SentInv
  BY DEF IInv
<1>3. com # 0
  BY SerialAssumption
<1>4. TypeInv'
  BY <1>1, <1>2 DEF TypeInv, IsScreen
<1>5. TableInv'
  <2>1. CASE serial_ports_' = serial_ports_
    BY <1>1, <1>2, <2>1 DEF TableInv
  <2>2. CASE serial_ports_' = [serial_ports_ EXCEPT ![i] = com]
    <3>1. /\ \A j \in Slot : j < i => serial_ports_[j] # 0
          /\ \A j \in Slot : serial_ports_[j] # com
      BY <1>1, <1>2, SearchEnds
    <3>2. /\ serial_ports_'[i] = com
          /\ \A j \in Slot : j # i => serial_ports_'[j] = serial_ports_[j]
      BY <1>1, <1>2, <2>2 DEF TypeInv
    <3>3. \A j \in Slot : j > i => serial_ports_[j] = 0
      BY <1>1, <1>2, SerialAssumption DEF TableInv, Slot
    <3>4. ASSUME NEW j \in Slot, NEW k \in Slot
          PROVE  /\ serial_ports_'[j] = serial_ports_'[k] => j = k \/ serial_ports_'[j] = 0
                 /\ j < k /\ serial_ports_'[k] # 0 => serial_ports_'[j] # 0
      BY <1>1, <1>2, <1>3, <3>1, <3>2, <3>3, <3>4, SerialAssumption DEF TableInv, Slot
    <3>5. \A j \in Slot : serial_ports_'[j] \notin dlab'
      BY <1>1, <1>2, <3>2 DEF TableInv
    <3>6. chosen' # 0 => \E j \in Slot : serial_ports_'[j] = chosen'
      BY <1>1, <1>2, <3>2 DEF TableInv
    <3>. QED
      BY <3>4, <3>5, <3>6 DEF TableInv
  <2>. QED
    BY <1>1, <2>1, <2>2
<1>6. PortInv' /\ SentInv'
  BY <1>1, <1>2 DEF PortInv, SentInv, Default
<1>. QED
  BY <1>4, <1>5, <1>6 DEF IInv

LEMMA DefaultPortInv ==
  ASSUME IInv, NEW com \in Ports, serial_set_default_port(com), UNCHANGED console
  PROVE  IInv'
<1>1. /\ writers = <<>>
      /\ \E i \in Slot : serial_ports_[i] = com
      /\ serial_default_port_' = com /\ chosen' = com
      /\ UNCHANGED <<serial_ports_, dlab, writers, sent, count, screen>>
  BY DEF serial_set_default_port, ports, console
<1>2. TypeInv /\ TableInv /\ PortInv /\ SentInv
  BY DEF IInv
<1>3. TypeInv' /\ TableInv'
  BY <1>1, <1>2 DEF TypeInv, TableInv, IsScreen
<1>4. PortInv' /\ SentInv'
  BY <1>1, <1>2 DEF PortInv, SentInv, Default
<1>. QED
  BY <1>3, <1>4 DEF IInv

LEMMA CallInv ==
  ASSUME IInv, NEW str \in Messages, write(str)
  PROVE  IInv'
<1>0. PICK n \in Nat : n = Len(writers)
  BY DEF IInv, TypeInv
<1> DEFINE marked == [i \in DOMAIN writers |-> [writers[i] EXCEPT !.torn = @ \/ writers[i].at = "cursor"]]
           new == [id |-> count + 1, at |-> "read", com |-> 0, bytes |-> 0, str |-> str,
                   pos |-> 0, outs |-> 0, torn |-> FALSE]
<1>1. /\ writers' = Append(marked, new)
      /\ count' = count + 1
      /\ UNCHANGED <<serial_ports_, dlab, serial_default_port_, sent, chosen, screen>>
  BY DEF write, serial_write, ports
<1>2. TypeInv /\ TableInv /\ PortInv /\ SentInv
  BY DEF IInv
<1>3. new \in Writer
  BY <1>2, Places DEF TypeInv, Writer
<1>4. marked \in Seq(Writer) /\ Len(marked) = n
  <2>1. DOMAIN writers = 1..n /\ \A i \in 1..n : writers[i] \in Writer
    BY <1>0, <1>2 DEF TypeInv
  <2>2. \A i \in 1..n : marked[i] \in Writer
    BY <2>1 DEF Writer
  <2>. QED
    BY <2>1, <2>2
<1>5. /\ writers' \in Seq(Writer) /\ Len(writers') = n + 1
      /\ writers'[n + 1] = new
      /\ \A i \in 1..n : writers'[i] = marked[i]
  <2>. HIDE DEF new, marked
  <2>. QED
    BY <1>0, <1>1, <1>2, <1>3, <1>4 DEF TypeInv
<1>6. \A i \in 1..n : /\ writers'[i].id = writers[i].id /\ writers'[i].at = writers[i].at
                      /\ writers'[i].com = writers[i].com /\ writers'[i].bytes = writers[i].bytes
                      /\ writers'[i].str = writers[i].str
  <2>1. \A i \in 1..n : writers[i] \in Writer /\ i \in DOMAIN writers
    BY <1>0, <1>2 DEF TypeInv
  <2>. QED
    BY <1>5, <2>1 DEF Writer
<1>7. ~Holds(writers'[n + 1])
  BY <1>5 DEF Holds
<1>8. \A i \in 1..n : /\ Holds(writers'[i]) <=> Holds(writers[i])
                      /\ LastOf(writers'[i]) = LastOf(writers[i])
  BY <1>6 DEF Holds, LastOf
<1>9. TypeInv' /\ TableInv'
  BY <1>1, <1>2, <1>5 DEF TypeInv, TableInv, IsScreen
<1>10. PortInv'
  <2>1. ASSUME NEW m \in 0..n PROVE Default(m)' = Default(m)
    <3>1. \A j \in 1..m : Holds(writers'[j]) <=> Holds(writers[j])
      BY <1>8
    <3>. QED
      BY <1>1, <3>1 DEF Default
  <2>2. Default(n + 1)' = Default(n)
    <3>1. (\E j \in 1..(n + 1) : Holds(writers'[j])) <=> \E j \in 1..n : Holds(writers[j])
      BY <1>7, <1>8
    <3>. QED
      BY <1>1, <3>1 DEF Default
  <2>3. \A i \in 1..(n + 1) :
          /\ writers'[i].at \in {"take", "send"} => writers'[i].com = Default(i - 1)'
          /\ writers'[i].at \in {"read", "take"} => writers'[i].bytes = 0
    BY <1>0, <1>2, <1>5, <1>6, <2>1 DEF PortInv
  <2>. QED
    BY <1>0, <1>1, <1>2, <1>5, <2>2, <2>3 DEF PortInv
<1>11. SentInv'
  <2>1. \A i \in 1..n : /\ Holds(writers'[i]) <=> Holds(writers[i])
                        /\ LastOf(writers'[i]) = LastOf(writers[i])
                        /\ writers'[i].com = writers[i].com /\ writers'[i].bytes = writers[i].bytes
    BY <1>6, <1>8
  <2>2. \A i \in 1..(n + 1) : Holds(writers'[i]) => i \in 1..n
    BY <1>7
  <2>3. 1..n \subseteq 1..(n + 1)
    OBVIOUS
  <2>. SUFFICES ASSUME NEW com \in Ports, NEW s, s = sent[com]
       PROVE  /\ \A k \in 2..Len(s) : Follows(s[k - 1], s[k])
              /\ s # <<>> => s[1].place = 1
              /\ s # <<>> /\ s[Len(s)].place < s[Len(s)].size =>
                   \E i \in 1..(n + 1) :
                     Holds(writers'[i]) /\ writers'[i].com = com /\ s[Len(s)] = LastOf(writers'[i])
              /\ \A i \in 1..(n + 1) :
                   Holds(writers'[i]) /\ writers'[i].com = com /\ writers'[i].bytes > 0 =>
                     s # <<>> /\ s[Len(s)] = LastOf(writers'[i])
    <3>1. sent' = sent /\ Len(writers') = n + 1
      BY <1>1, <1>5
    <3>. QED
      BY <3>1 DEF SentInv
  <2>4. /\ \A k \in 2..Len(s) : Follows(s[k - 1], s[k])
        /\ s # <<>> => s[1].place = 1
        /\ s # <<>> /\ s[Len(s)].place < s[Len(s)].size =>
             \E i \in 1..n :
               Holds(writers[i]) /\ writers[i].com = com /\ s[Len(s)] = LastOf(writers[i])
        /\ \A i \in 1..n :
             Holds(writers[i]) /\ writers[i].com = com /\ writers[i].bytes > 0 =>
               s # <<>> /\ s[Len(s)] = LastOf(writers[i])
    BY <1>0, <1>2 DEF SentInv
  <2>. HIDE DEF marked, new
  <2>. QED
    BY <2>1, <2>2, <2>3, <2>4
<1>. QED
  BY <1>9, <1>10, <1>11 DEF IInv

\* The steps that send nothing.
LEMMA TopInv ==
  ASSUME IInv, writers # <<>>, NEW w \in Writer, Goes(w), IsScreen(screen'),
         UNCHANGED <<serial_ports_, dlab, sent, count, chosen>>,
         w.at \in {"take", "send"} => w.com = Default(Len(writers) - 1),
         w.at \in {"read", "take"} => w.bytes = 0,
         serial_default_port_' = IF Holds(w) THEN 0 ELSE Default(Len(writers) - 1),
         \/ Holds(w) /\ ~Holds(Running) /\ w.bytes = 0
         \/ ~Holds(w) /\ (Holds(Running) => Running.bytes = Len(Running.str))
  PROVE  IInv'
<1>1. TypeInv /\ TableInv /\ PortInv /\ SentInv
  BY DEF IInv
<1>2. serial_default_port_' \in Ports \cup {0}
  BY <1>1 DEF TypeInv, Default
<1>3. TypeInv'
  BY <1>1, <1>2, TopOfStack DEF TypeInv
<1>4. TableInv'
  BY <1>1 DEF TableInv
<1>5. PortInv' /\ SentInv'
  BY <1>1, PortStep, SentStep
<1>. QED
  BY <1>3, <1>4, <1>5 DEF IInv

\* What the running writer is about to do, and with which port.
LEMMA RunningInv ==
  ASSUME IInv, writers # <<>>
  PROVE  /\ Running \in Writer /\ Len(writers) \in Nat \ {0}
         /\ Running = writers[Len(writers)]
         /\ Running.at \in {"take", "send"} => Running.com = Default(Len(writers) - 1)
         /\ Running.at \in {"read", "take"} => Running.bytes = 0
         /\ serial_default_port_ = IF Holds(Running) THEN 0 ELSE Default(Len(writers) - 1)
<1>1. /\ Running \in Writer /\ Len(writers) \in Nat \ {0} /\ Running = writers[Len(writers)]
  BY RunningIsWriter DEF IInv
<1>2. /\ Running.at \in {"take", "send"} => Running.com = Default(Len(writers) - 1)
      /\ Running.at \in {"read", "take"} => Running.bytes = 0
  BY <1>1 DEF IInv, PortInv
<1>3. Default(Len(writers)) = IF Holds(Running) THEN 0 ELSE Default(Len(writers) - 1)
  <2>1. PICK n \in Nat \ {0} : n = Len(writers)
    BY <1>1
  <2>2. (\E j \in 1..n : Holds(writers[j])) <=> Holds(writers[n]) \/ \E j \in 1..(n - 1) : Holds(writers[j])
    <3>1. 1..n = 1..(n - 1) \cup {n}
      BY <2>1
    <3>. QED
      BY <3>1
  <2>. QED
    BY <1>1, <2>1, <2>2 DEF Default
<1>. QED
  BY <1>1, <1>2, <1>3 DEF IInv, PortInv

LEMMA ReadInv == ASSUME IInv, serial_write_read, UNCHANGED console PROVE IInv'
<1> DEFINE w == [Running EXCEPT !.at = "take", !.com = serial_default_port_]
<1>1. /\ writers # <<>> /\ Running.at = "read" /\ Goes(w)
      /\ UNCHANGED <<serial_ports_, dlab, serial_default_port_, sent, count, chosen, screen>>
  BY DEF serial_write_read, At, ports, console
<1>2. /\ w \in Writer /\ w.at = "take" /\ w.com = serial_default_port_ /\ w.bytes = 0
      /\ ~Holds(w) /\ ~Holds(Running)
  BY <1>1, RunningInv, Places DEF IInv, TypeInv, Writer, Holds
<1>3. serial_default_port_ = Default(Len(writers) - 1)
  BY <1>1, <1>2, RunningInv
<1>4. IsScreen(screen')
  BY <1>1 DEF IInv, TypeInv
<1>. HIDE DEF w
<1>. QED
  BY <1>1, <1>2, <1>3, <1>4, TopInv

LEMMA TakeInv == ASSUME IInv, serial_write_take, UNCHANGED console PROVE IInv'
<1> DEFINE w == [Running EXCEPT !.at = "send"]
<1>1. /\ writers # <<>> /\ Running.at = "take" /\ Goes(w) /\ serial_default_port_' = 0
      /\ UNCHANGED <<serial_ports_, dlab, sent, count, chosen, screen>>
  BY DEF serial_write_take, take, At, ports, console
<1>2. /\ w \in Writer /\ w.at = "send" /\ w.com = Running.com /\ w.bytes = 0
      /\ ~Holds(Running)
  BY <1>1, RunningInv, Places DEF IInv, TypeInv, Writer, Holds
<1>3. w.com = Default(Len(writers) - 1)
  BY <1>1, <1>2, RunningInv
<1>4. IsScreen(screen')
  BY <1>1 DEF IInv, TypeInv
<1>5. Holds(w) <=> w.com # 0
  BY <1>2 DEF Holds
<1>. HIDE DEF w
<1>. QED
  BY <1>1, <1>2, <1>3, <1>4, <1>5, TopInv

LEMMA NoneInv == ASSUME IInv, serial_write_none, UNCHANGED console PROVE IInv'
<1> DEFINE w == [Running EXCEPT !.at = "put"]
<1>1. /\ writers # <<>> /\ Running.at = "send" /\ Running.com = 0 /\ Goes(w)
      /\ UNCHANGED <<serial_ports_, dlab, serial_default_port_, sent, count, chosen, screen>>
  BY DEF serial_write_none, At, ports, console
<1>2. w \in Writer /\ w.at = "put" /\ ~Holds(w) /\ ~Holds(Running)
  BY <1>1, RunningInv, Places DEF Writer, Holds
<1>3. serial_default_port_ = Default(Len(writers) - 1)
  BY <1>1, <1>2, RunningInv
<1>4. IsScreen(screen')
  BY <1>1 DEF IInv, TypeInv
<1>. HIDE DEF w
<1>. QED
  BY <1>1, <1>2, <1>3, <1>4, TopInv

LEMMA ReturnPortInv == ASSUME IInv, serial_write_return, UNCHANGED console PROVE IInv'
<1> DEFINE w == [Running EXCEPT !.at = "put", !.bytes = 0]
<1>1. /\ writers # <<>> /\ Running.at = "send" /\ Running.bytes = Len(Running.str) /\ Goes(w)
      /\ serial_default_port_' = Running.com
      /\ UNCHANGED <<serial_ports_, dlab, sent, count, chosen, screen>>
  BY DEF serial_write_return, finish, At, ports, console
<1>2. w \in Writer /\ w.at = "put" /\ ~Holds(w)
  BY <1>1, RunningInv, Places DEF Writer, Holds
<1>3. Running.com = Default(Len(writers) - 1)
  BY <1>1, RunningInv
<1>4. IsScreen(screen')
  BY <1>1 DEF IInv, TypeInv
<1>. HIDE DEF w
<1>. QED
  BY <1>1, <1>2, <1>3, <1>4, TopInv

LEMMA ByteInv == ASSUME IInv, serial_write_byte, UNCHANGED console PROVE IInv'
<1> DEFINE w == [Running EXCEPT !.bytes = @ + 1]
           port == Running.com
           byte == [id |-> Running.id, place |-> Running.bytes + 1, size |-> Len(Running.str)]
<1>1. /\ writers # <<>> /\ Holds(Running) /\ Goes(w) /\ sent' = [sent EXCEPT ![port] = Append(@, byte)]
      /\ UNCHANGED <<serial_ports_, dlab, serial_default_port_, count, chosen, screen>>
  BY DEF serial_write_byte, At, Holds, ports, console
<1>2. TypeInv /\ TableInv /\ PortInv /\ SentInv
  BY DEF IInv
<1>3. PICK n \in Nat \ {0} : n = Len(writers) /\ Running = writers[n] /\ Running \in Writer
  BY <1>1, RunningInv
<1>4. /\ w \in Writer /\ w.at = "send" /\ w.com = port /\ w.bytes = Running.bytes + 1
      /\ LastOf(w) = byte /\ byte \in Byte /\ port \in Ports
  BY <1>1, <1>3, WriteAssumption DEF Writer, Byte, Holds, LastOf
<1>5. /\ writers' \in Seq(Writer) /\ Len(writers') = n /\ writers'[n] = w
      /\ \A i \in 1..(n - 1) : writers'[i] = writers[i]
  <2>. HIDE DEF w
  <2>. QED
    BY <1>1, <1>2, <1>3, <1>4, TopOfStack
<1>6. Holds(w)
  BY <1>1, <1>4 DEF Holds
<1>7. TypeInv'
  <2>. HIDE DEF w, byte, port
  <2>. QED
    BY <1>1, <1>2, <1>4, <1>5 DEF TypeInv
<1>8. TableInv'
  BY <1>1, <1>2 DEF TableInv
<1>9. PortInv'
  <2>1. w.com = Default(n - 1)
    BY <1>1, <1>3, <1>4, RunningInv DEF Holds
  <2>2. serial_default_port_' = 0
    BY <1>1, RunningInv
  <2>. HIDE DEF w
  <2>. QED
    BY <1>1, <1>2, <1>3, <1>4, <1>6, <2>1, <2>2, PortStep
<1>10. \A i \in 1..(n - 1) : ~Holds(writers[i])
  BY <1>1, <1>2, <1>3, OneHolder
<1>11. SentInv'
  <2> SUFFICES ASSUME NEW com \in Ports
               PROVE  LET s == sent'[com]
                      IN  /\ \A k \in 2..Len(s) : Follows(s[k - 1], s[k])
                          /\ s # <<>> => s[1].place = 1
                          /\ s # <<>> /\ s[Len(s)].place < s[Len(s)].size =>
                               \E i \in 1..n :
                                 Holds(writers'[i]) /\ writers'[i].com = com /\ s[Len(s)] = LastOf(writers'[i])
                          /\ \A i \in 1..n :
                               Holds(writers'[i]) /\ writers'[i].com = com /\ writers'[i].bytes > 0 =>
                                 s # <<>> /\ s[Len(s)] = LastOf(writers'[i])
    BY <1>5 DEF SentInv
  <2> DEFINE s == sent[com]
  <2>1. /\ \A k \in 2..Len(s) : Follows(s[k - 1], s[k])
        /\ s # <<>> => s[1].place = 1
        /\ s # <<>> /\ s[Len(s)].place < s[Len(s)].size =>
             \E i \in 1..n :
               Holds(writers[i]) /\ writers[i].com = com /\ s[Len(s)] = LastOf(writers[i])
        /\ \A i \in 1..n :
             Holds(writers[i]) /\ writers[i].com = com /\ writers[i].bytes > 0 =>
               s # <<>> /\ s[Len(s)] = LastOf(writers[i])
    BY <1>2, <1>3 DEF SentInv
  <2>2. CASE com # port
    <3>1. sent'[com] = s
      BY <1>1, <1>2, <2>2 DEF TypeInv
    <3>2. \A i \in 1..n : Holds(writers[i]) => i = n
      BY <1>10
    <3>3. \A i \in 1..n : Holds(writers'[i]) => writers'[i].com # com
      <4>1. ASSUME NEW i \in 1..n, i # n PROVE ~Holds(writers'[i])
        BY <1>5, <1>10, <4>1
      <4>2. writers'[n].com # com
        BY <1>4, <1>5, <2>2
      <4>. QED
        BY <4>1, <4>2
    <3>. HIDE DEF w, byte, port
    <3>. QED
      BY <1>3, <1>4, <2>1, <2>2, <3>1, <3>2, <3>3 DEF port
  <2>3. CASE com = port
    <3>1. s \in Seq(Byte) /\ sent'[com] = Append(s, byte)
      BY <1>1, <1>2, <2>3 DEF TypeInv
    <3>2. PICK m \in Nat : m = Len(s) /\ Len(sent'[com]) = m + 1 /\ sent'[com][m + 1] = byte
                           /\ \A k \in 1..m : sent'[com][k] = s[k]
      <4>. HIDE DEF byte
      <4>. QED
        BY <1>4, <3>1
    <3>3. m > 0 => Follows(s[m], byte)
      <4>1. CASE Running.bytes = 0
        <5>1. m > 0 => ~(s[m].place < s[m].size)
          <6>1. SUFFICES ASSUME m > 0, s[m].place < s[m].size PROVE FALSE
            OBVIOUS
          <6>2. s # <<>> /\ s[Len(s)] = s[m] /\ s[m] \in Byte
            BY <3>1, <3>2, <6>1
          <6>3. PICK i \in 1..n : Holds(writers[i]) /\ s[m] = LastOf(writers[i])
            <7>. HIDE DEF s
            <7>. QED
              BY <2>1, <6>1, <6>2
          <6>4. i = n
            BY <1>10, <6>3
          <6>. QED
            BY <1>3, <4>1, <6>2, <6>3, <6>4 DEF LastOf, Byte
        <5>2. m > 0 => s[m] \in Byte
          BY <3>1, <3>2
        <5>. QED
          BY <4>1, <5>1, <5>2 DEF Follows, Byte
      <4>2. CASE Running.bytes > 0
        <5>1. s[m] = LastOf(Running)
          BY <1>1, <1>3, <2>1, <2>3, <3>2, <4>2
        <5>. QED
          BY <1>3, <4>2, <5>1 DEF Follows, LastOf, Writer
      <4>. QED
        BY <1>3, <4>1, <4>2 DEF Writer
    <3>4. m = 0 => byte.place = 1
      <4>1. m = 0 => Running.bytes = 0
        BY <1>1, <1>3, <2>1, <2>3, <3>1, <3>2 DEF Writer
      <4>. QED
        BY <1>3, <4>1 DEF Writer
    <3>5. \A i \in 1..n : Holds(writers'[i]) => i = n
      BY <1>5, <1>10
    <3>6. \A k \in 2..(m + 1) : Follows(sent'[com][k - 1], sent'[com][k])
      <4>. HIDE DEF byte
      <4>. QED
        BY <2>1, <3>2, <3>3
    <3>7. sent'[com][1].place = 1
      <4>. HIDE DEF byte
      <4>. QED
        BY <2>1, <3>1, <3>2, <3>4
    <3>8. sent'[com] # <<>>
      BY <3>2
    <3> DEFINE r == sent'[com]
    <3>9. Len(r) = m + 1 /\ r[Len(r)] = LastOf(w)
      BY <1>4, <3>2
    <3>10. /\ n \in 1..n /\ Holds(writers'[n]) /\ writers'[n].com = com
           /\ r[Len(r)] = LastOf(writers'[n])
      <4>1. w.com = com /\ n \in 1..n
        BY <1>3, <2>3
      <4>. HIDE DEF w, r
      <4>. QED
        BY <1>5, <1>6, <3>9, <4>1
    <3>11. \A i \in 1..n : Holds(writers'[i]) => r # <<>> /\ r[Len(r)] = LastOf(writers'[i])
      <4>. HIDE DEF w
      <4>. QED
        BY <3>5, <3>8, <3>10
    <3>12. (\A k \in 2..Len(r) : Follows(r[k - 1], r[k])) /\ r[1].place = 1
      BY <3>6, <3>7, <3>9
    <3>. HIDE DEF w, byte, port, r
    <3>. QED
      BY <3>10, <3>11, <3>12 DEF r
  <2>. QED
    BY <2>2, <2>3
<1>. QED
  BY <1>7, <1>8, <1>9, <1>11 DEF IInv

LEMMA GotoInv ==
  ASSUME IInv, writers # <<>>, Running.at \in Putting, NEW there \in Putting, NEW pos \in Int,
         NEW s, IsScreen(s), Goto(there, pos, s)
  PROVE  IInv'
<1> DEFINE w == [Running EXCEPT !.at = there, !.pos = pos]
<1>1. /\ Goes(w) /\ screen' = s
      /\ UNCHANGED <<serial_ports_, dlab, serial_default_port_, sent, count, chosen>>
  BY DEF Goto, ports
<1>2. w \in Writer /\ w.at = there
  <2>1. there \in Place /\ Running \in Writer
    BY RunningInv, Places
  <2>. QED
    BY <2>1 DEF Writer
<1>3. w.at \notin {"read", "take", "send"} /\ Running.at \notin {"read", "take", "send"}
  BY <1>2 DEF Putting, Later
<1>4. ~Holds(w) /\ ~Holds(Running)
  BY <1>3 DEF Holds
<1>5. serial_default_port_ = Default(Len(writers) - 1)
  BY <1>4, RunningInv
<1>. HIDE DEF w
<1>. QED
  BY <1>1, <1>2, <1>3, <1>4, <1>5, TopInv

\* What the steps of putchar have in common.
LEMMA StepGoes ==
  ASSUME NEW here \in Putting \ {"cursor"}, NEW there \in Putting, NEW pos \in Int, NEW s, IsScreen(s),
         step(here, there, pos, s) \/ (types(here, there, s) /\ pos = 0),
         there = "cursor" => pos = s.row * MAX_COLS + s.col
  PROVE  /\ writers # <<>> /\ Running.at \in Putting \ {"cursor"}
         /\ \E t \in Putting, p \in Int : \E u : IsScreen(u) /\ Goto(t, p, u) /\ (t = "cursor" => p = Position')
<1>1. writers # <<>> /\ Running.at = here /\ Goto(there, pos, s)
  BY DEF step, types, At
<1>2. screen' = s
  BY <1>1 DEF Goto
<1>3. there = "cursor" => pos = Position'
  BY <1>2 DEF Position
<1>. QED
  BY <1>1, <1>3

\* Where each step goes, and what it makes of the screen.
LEMMA StepIs ==
  ASSUME TypeInv, putchar_step
  PROVE  /\ writers # <<>> /\ Running.at \in Putting \ {"cursor"}
         /\ \E there \in Putting, pos \in Int : \E s :
              IsScreen(s) /\ Goto(there, pos, s) /\ (there = "cursor" => pos = Position')
<1>0. PICK b, r, k : b = screen.buffer /\ r = screen.row /\ k = screen.col
  OBVIOUS
<1>1. screen = [buffer |-> b, row |-> r, col |-> k] /\ r \in Int /\ k \in Int
  BY <1>0 DEF TypeInv, IsScreen
<1>2. PICK pos \in Int : pos = Position /\ pos = r * MAX_COLS + k
  BY <1>0, <1>1, ConsoleAssumption DEF Position
<1>3. /\ IsScreen(screen) /\ Position \in Int /\ 0 \in Int
      /\ Position = screen.row * MAX_COLS + screen.col
  BY <1>2 DEF TypeInv, Position
<1>4. /\ "put" \in Putting \ {"cursor"} /\ "init" \in Putting \ {"cursor"} /\ "show" \in Putting \ {"cursor"}
      /\ "store" \in Putting \ {"cursor"} /\ "advance" \in Putting \ {"cursor"} /\ "wrap" \in Putting \ {"cursor"}
      /\ "newrow" \in Putting \ {"cursor"} /\ "full" \in Putting \ {"cursor"} /\ "scroll" \in Putting \ {"cursor"}
      /\ "clear" \in Putting \ {"cursor"} /\ "cursor" \in Putting
  BY DEF Putting
<1>5. IsScreen(init_buffer_)
  BY DEF init_buffer_, IsScreen
<1>6. IsScreen([screen EXCEPT !.col = 0])
  BY <1>1 DEF IsScreen
<1>7. IsScreen([screen EXCEPT !.col = @ + 1])
  BY <1>1 DEF IsScreen
<1>8. IsScreen([screen EXCEPT !.row = @ + 1])
  BY <1>1 DEF IsScreen
<1>9. IsScreen(store(Running.pos, Char))
  BY <1>1 DEF IsScreen, store
<1>10. IsScreen(scroll)
  BY <1>1 DEF IsScreen, scroll, move_up
<1>11. IsScreen(clear_row(screen.row - 1))
  BY <1>1 DEF IsScreen, clear_row
<1>12. CASE putchar_first
  <2>1. step("put", "init", 0, screen) \/ step("put", "show", 0, screen)
    BY <1>12 DEF putchar_first
  <2>2. CASE step("put", "init", 0, screen)
    BY <1>3, <1>4, <2>2, StepGoes
  <2>3. CASE step("put", "show", 0, screen)
    BY <1>3, <1>4, <2>3, StepGoes
  <2>. QED
    BY <2>1, <2>2, <2>3
<1>13. CASE putchar_init
  BY <1>3, <1>4, <1>5, <1>13, StepGoes DEF putchar_init
<1>14. CASE putchar_newline
  BY <1>3, <1>4, <1>6, <1>14, StepGoes DEF putchar_newline
<1>15. CASE putchar_cell
  BY <1>3, <1>4, <1>15, StepGoes DEF putchar_cell
<1>16. CASE putchar_store
  BY <1>3, <1>4, <1>9, <1>16, StepGoes DEF putchar_store
<1>17. CASE advance_
  BY <1>3, <1>4, <1>7, <1>17, StepGoes DEF advance_
<1>18. CASE advance_test
  <2>1. step("wrap", "newrow", 0, [screen EXCEPT !.col = 0]) \/ step("wrap", "cursor", Position, screen)
    BY <1>18 DEF advance_test
  <2>2. CASE step("wrap", "newrow", 0, [screen EXCEPT !.col = 0])
    BY <1>3, <1>4, <1>6, <2>2, StepGoes
  <2>3. CASE step("wrap", "cursor", Position, screen)
    BY <1>3, <1>4, <2>3, StepGoes
  <2>. QED
    BY <2>1, <2>2, <2>3
<1>19. CASE new_line_
  BY <1>3, <1>4, <1>8, <1>19, StepGoes DEF new_line_
<1>20. CASE new_line_test
  <2>1. step("full", "scroll", 0, screen) \/ step("full", "cursor", Position, screen)
    BY <1>20 DEF new_line_test
  <2>2. CASE step("full", "scroll", 0, screen)
    BY <1>3, <1>4, <2>2, StepGoes
  <2>3. CASE step("full", "cursor", Position, screen)
    BY <1>3, <1>4, <2>3, StepGoes
  <2>. QED
    BY <2>1, <2>2, <2>3
<1>21. CASE new_line_scroll
  BY <1>3, <1>4, <1>10, <1>21, StepGoes DEF new_line_scroll
<1>22. CASE new_line_clear
  <2>1. PICK s : s = clear_row(screen.row - 1)
    OBVIOUS
  <2>2. s.row = screen.row - 1 /\ s.col = screen.col
    BY <2>1 DEF clear_row
  <2>3. PICK p \in Int : p = (screen.row - 1) * MAX_COLS + screen.col
    BY <1>0, <1>1, ConsoleAssumption
  <2>4. p = s.row * MAX_COLS + s.col
    BY <2>2, <2>3
  <2>5. step("clear", "cursor", p, s)
    BY <1>22, <2>1, <2>3 DEF new_line_clear
  <2>. QED
    BY <1>4, <1>11, <2>1, <2>4, <2>5, StepGoes
<1>. QED
  BY <1>12, <1>13, <1>14, <1>15, <1>16, <1>17, <1>18, <1>19, <1>20, <1>21, <1>22 DEF putchar_step

LEMMA PutcharInv == ASSUME IInv, putchar_step PROVE IInv'
  BY StepIs, GotoInv DEF IInv

LEMMA CursorInv == ASSUME IInv, write_cursor PROVE IInv'
<1>1. PICK w \in {[Running EXCEPT !.at = "put", !.bytes = @ + 1, !.outs = 0, !.torn = FALSE],
                  [Running EXCEPT !.outs = @ + 1]} : Goes(w)
  BY DEF write_cursor
<1>2. /\ writers # <<>> /\ Running.at = "cursor"
      /\ UNCHANGED <<serial_ports_, dlab, serial_default_port_, sent, count, chosen, screen>>
  BY DEF write_cursor, At, ports
<1>3. IsScreen(screen')
  BY <1>2 DEF IInv, TypeInv
<1>4. w \in Writer /\ w.at \in {"put", "cursor"} /\ ~Holds(w) /\ ~Holds(Running)
  <2>1. Running \in Writer
    BY <1>2, RunningInv
  <2>2. CASE w = [Running EXCEPT !.at = "put", !.bytes = @ + 1, !.outs = 0, !.torn = FALSE]
    <3>1. w.at = "put"
      BY <2>1, <2>2 DEF Writer
    <3>2. w \in Writer
      <4> DEFINE u == [Running EXCEPT !.bytes = @ + 1]
                 v == [u EXCEPT !.at = "put", !.outs = 0]
      <4>1. u \in Writer
        BY <2>1 DEF Writer
      <4>2. w = [v EXCEPT !.torn = FALSE]
        BY <2>1, <2>2 DEF Writer
      <4>3. v \in Writer
        <5>. HIDE DEF u
        <5>. QED
          BY <4>1, Places DEF Writer
      <4>. HIDE DEF v
      <4>. QED
        BY <4>2, <4>3 DEF Writer
    <3>. QED
      BY <1>2, <3>1, <3>2 DEF Holds
  <2>3. CASE w = [Running EXCEPT !.outs = @ + 1]
    BY <1>2, <2>1, <2>3 DEF Writer, Holds
  <2>. QED
    BY <1>1, <2>2, <2>3
<1>5. serial_default_port_ = Default(Len(writers) - 1)
  BY <1>2, <1>4, RunningInv
<1>. QED
  BY <1>1, <1>2, <1>3, <1>4, <1>5, TopInv

\* A writer that returns has given the port back.
LEMMA ReturnInv == ASSUME IInv, write_return PROVE IInv'
<1>1. /\ writers # <<>> /\ Running.at = "put" /\ writers' = Front(writers)
      /\ UNCHANGED <<serial_ports_, dlab, serial_default_port_, sent, count, chosen, screen>>
  BY DEF write_return, At, ports, console
<1>2. TypeInv /\ TableInv /\ PortInv /\ SentInv
  BY DEF IInv
<1>3. PICK n \in Nat \ {0} : n = Len(writers) /\ Running = writers[n]
  BY <1>1, RunningInv
<1>4. /\ writers' \in Seq(Writer) /\ Len(writers') = n - 1
      /\ \A i \in 1..(n - 1) : writers'[i] = writers[i]
  BY <1>1, <1>2, <1>3 DEF TypeInv, Front
<1>5. ~Holds(writers[n]) /\ serial_default_port_ = Default(n - 1)
  BY <1>1, <1>3, RunningInv DEF Holds
<1>6. TypeInv' /\ TableInv'
  BY <1>1, <1>2, <1>4 DEF TypeInv, TableInv
<1>7. PortInv'
  <2>1. \A m \in 0..(n - 1) : Default(m)' = Default(m)
    BY <1>1, <1>3, <1>4 DEF Default
  <2>. QED
    BY <1>1, <1>2, <1>3, <1>4, <1>5, <2>1 DEF PortInv
<1>8. SentInv'
  <2>1. \A i \in 1..n : Holds(writers[i]) => i \in 1..(n - 1)
    BY <1>3, <1>5
  <2>2. \A i \in 1..(n - 1) : i \in 1..n /\ writers'[i] = writers[i]
    BY <1>4
  <2>. SUFFICES ASSUME NEW com \in Ports, NEW s, s = sent[com]
       PROVE  /\ \A k \in 2..Len(s) : Follows(s[k - 1], s[k])
              /\ s # <<>> => s[1].place = 1
              /\ s # <<>> /\ s[Len(s)].place < s[Len(s)].size =>
                   \E i \in 1..(n - 1) :
                     Holds(writers'[i]) /\ writers'[i].com = com /\ s[Len(s)] = LastOf(writers'[i])
              /\ \A i \in 1..(n - 1) :
                   Holds(writers'[i]) /\ writers'[i].com = com /\ writers'[i].bytes > 0 =>
                     s # <<>> /\ s[Len(s)] = LastOf(writers'[i])
    BY <1>1, <1>4 DEF SentInv
  <2>3. /\ \A k \in 2..Len(s) : Follows(s[k - 1], s[k])
        /\ s # <<>> => s[1].place = 1
        /\ s # <<>> /\ s[Len(s)].place < s[Len(s)].size =>
             \E i \in 1..n :
               Holds(writers[i]) /\ writers[i].com = com /\ s[Len(s)] = LastOf(writers[i])
        /\ \A i \in 1..n :
             Holds(writers[i]) /\ writers[i].com = com /\ writers[i].bytes > 0 =>
               s # <<>> /\ s[Len(s)] = LastOf(writers[i])
    BY <1>2, <1>3 DEF SentInv
  <2>. QED
    BY <2>1, <2>2, <2>3
<1>. QED
  BY <1>6, <1>7, <1>8 DEF IInv

LEMMA NextInv == IInv /\ [Next]_vars => IInv'
<1> SUFFICES ASSUME IInv, [Next]_vars PROVE IInv'
  OBVIOUS
<1>1. CASE Setup
  BY <1>1, InitPortInv, DefaultPortInv DEF Setup
<1>2. CASE serial_write_step
  BY <1>2, ReadInv, TakeInv, NoneInv, ByteInv, ReturnPortInv DEF serial_write_step
<1>3. CASE putchar_step \/ write_cursor \/ write_return
  BY <1>3, PutcharInv, CursorInv, ReturnInv
<1>4. CASE \E str \in Messages : write(str)
  BY <1>4, CallInv
<1>5. CASE UNCHANGED vars
  <2>1. UNCHANGED <<serial_ports_, dlab, serial_default_port_, writers, sent, count, chosen, screen>>
    BY <1>5 DEF vars, serial, console, ports
  <2>2. TypeInv' /\ TableInv'
    BY <2>1 DEF IInv, TypeInv, TableInv
  <2>3. PortInv'
    BY <2>1 DEF IInv, PortInv, Default
  <2>4. SentInv'
    BY <2>1 DEF IInv, SentInv
  <2>. QED
    BY <2>2, <2>3, <2>4 DEF IInv
<1>. QED
  BY <1>1, <1>2, <1>3, <1>5, <1>4 DEF Next

-----------------------------------------------------------------------------
(* The theorems about the port. *)

\* However many exceptions arrive in the middle of a message and log another,
\* every message on a serial line is in one piece.
THEOREM WholeMessages == Spec => []MessagesWhole
<1>1. IInv => MessagesWhole
  <2> SUFFICES ASSUME IInv, NEW com \in Ports, NEW k \in 1..Len(sent[com])
               PROVE  LET s == sent[com]
                      IN  /\ s[k].place > 1 => k > 1 /\ s[k - 1] = [s[k] EXCEPT !.place = @ - 1]
                          /\ s[k].place < s[k].size =>
                               IF k < Len(s) THEN s[k + 1].id = s[k].id ELSE Sends(s[k].id)
    BY DEF MessagesWhole
  <2> DEFINE s == sent[com]
  <2>1. s \in Seq(Byte)
    BY DEF IInv, TypeInv
  <2>2. PICK m \in Nat : m = Len(s)
    BY <2>1
  <2>3. /\ \A j \in 2..m : Follows(s[j - 1], s[j])
        /\ s[1].place = 1
    BY <2>1, <2>2 DEF IInv, SentInv
  <2>4. s[k].place > 1 => k > 1 /\ s[k - 1] = [s[k] EXCEPT !.place = @ - 1]
    BY <2>2, <2>3 DEF Follows
  <2>5. ASSUME s[k].place < s[k].size, k < m PROVE s[k + 1].id = s[k].id
    <3>1. Follows(s[k], s[k + 1]) /\ s[k] \in Byte /\ s[k + 1] \in Byte
      <4>1. k + 1 \in 2..m /\ (k + 1) - 1 = k
        BY <2>2, <2>5
      <4>. QED
        BY <2>1, <2>2, <2>3, <4>1
    <3>. QED
      BY <2>5, <3>1 DEF Follows, Byte
  <2>6. ASSUME s[k].place < s[k].size, ~(k < m) PROVE Sends(s[k].id)
    <3>1. k = Len(s) /\ s # <<>>
      BY <2>2, <2>6
    <3>2. PICK i \in 1..Len(writers) : Holds(writers[i]) /\ s[Len(s)] = LastOf(writers[i])
      BY <2>6, <3>1 DEF IInv, SentInv
    <3>. QED
      BY <3>1, <3>2 DEF Sends, Holds, LastOf
  <2>. QED
    BY <2>2, <2>4, <2>5, <2>6
<1>. QED
  BY <1>1, InitInv, NextInv, PTL DEF Spec

\* The default port is never lost, whatever exceptions arrive while it is taken,
\* and is set up whenever a writer can take it.
THEOREM PortUsable == Spec => []DefaultUsable
<1>1. IInv => DefaultUsable
  <2> SUFFICES ASSUME IInv PROVE DefaultUsable
    OBVIOUS
  <2>1. serial_default_port_ \in {0, chosen}
    BY DEF IInv, PortInv, Default
  <2>2. writers = <<>> => serial_default_port_ = chosen
    BY DEF IInv, PortInv, Default
  <2>3. \A i \in Slot : serial_ports_[i] \in Present \cup {0}
    BY DEF IInv, TypeInv
  <2>. QED
    BY <2>1, <2>2, <2>3 DEF IInv, TableInv, DefaultUsable
<1>. QED
  BY <1>1, InitInv, NextInv, PTL DEF Spec

-----------------------------------------------------------------------------
(* The lines of a text: LinesOf is defined, by the least number of characters *)
(* for which it would not be.                                                 *)

\* The least of some numbers.
LEMMA LeastNat ==
  ASSUME NEW T \in SUBSET Nat, T # {}
  PROVE  \E n \in T : \A m \in T : n <= m
<1>1. IsWellFoundedOn(OpToRel(<, Nat), Nat)
  BY NatLessThanWellFounded
<1>2. PICK n \in T : \A m \in T : <<m, n>> \notin OpToRel(<, Nat)
  BY <1>1, WFMin
<1>3. \A m \in T : ~(m < n)
  BY <1>2 DEF OpToRel
<1>. QED
  BY <1>3

FillsLines(f, t, k) == f = [n \in 0..k |-> IF n = 0 THEN << <<>> >> ELSE Typed(f[n - 1], t[n])]

\* Lines can be filled from the first k characters of a text.
LEMMA LinesFilled ==
  ASSUME NEW t, NEW k \in Nat
  PROVE  \E f : FillsLines(f, t, k)
<1> DEFINE T == {n \in Nat : ~\E f : FillsLines(f, t, n)}
<1> SUFFICES ASSUME T # {} PROVE FALSE
  OBVIOUS
<1>1. PICK n \in T : \A m \in T : n <= m
  BY LeastNat
<1>2. n # 0
  <2>1. FillsLines([m \in 0..0 |-> << <<>> >>], t, 0)
    BY DEF FillsLines
  <2>. QED
    BY <2>1
<1>3. n - 1 \in Nat /\ n - 1 \notin T
  BY <1>1, <1>2
<1>4. PICK f : FillsLines(f, t, n - 1)
  BY <1>3
<1> DEFINE g == [m \in 0..n |-> IF m = n THEN Typed(f[n - 1], t[n]) ELSE f[m]]
<1>5. \A m \in 0..(n - 1) : f[m] = IF m = 0 THEN << <<>> >> ELSE Typed(f[m - 1], t[m])
  BY <1>4 DEF FillsLines
<1>6. ASSUME NEW m \in 0..n PROVE g[m] = IF m = 0 THEN << <<>> >> ELSE Typed(g[m - 1], t[m])
  <2>1. CASE m = n
    BY <1>2, <2>1
  <2>2. CASE m # n
    <3>1. m \in 0..(n - 1) /\ (m # 0 => m - 1 \in 0..n /\ m - 1 # n)
      BY <2>2
    <3>2. m # 0 => g[m - 1] = f[m - 1]
      BY <3>1
    <3>. QED
      BY <1>5, <2>2, <3>1, <3>2
  <2>. QED
    BY <2>1, <2>2
<1>7. FillsLines(g, t, n)
  BY <1>6 DEF FillsLines
<1>. QED
  BY <1>7

StartsAlike(t, u, k) == \A i \in 1..k : t[i] = u[i]

\* There is one way to fill them, whatever comes after.
LEMMA LinesOnce ==
  ASSUME NEW t, NEW u, NEW k \in Nat, NEW l \in Nat, k <= l, StartsAlike(t, u, k),
         NEW f, FillsLines(f, t, k), NEW g, FillsLines(g, u, l)
  PROVE  f[k] = g[k]
<1> DEFINE T == {n \in Nat : n <= k /\ f[n] # g[n]}
<1> SUFFICES ASSUME T # {} PROVE FALSE
  OBVIOUS
<1>1. PICK n \in T : \A m \in T : n <= m
  BY LeastNat
<1>2. /\ \A m \in 0..k : f[m] = IF m = 0 THEN << <<>> >> ELSE Typed(f[m - 1], t[m])
      /\ \A m \in 0..l : g[m] = IF m = 0 THEN << <<>> >> ELSE Typed(g[m - 1], u[m])
  BY DEF FillsLines
<1>3. n # 0
  BY <1>2
<1>4. n - 1 \in Nat /\ n - 1 \notin T /\ n \in 0..k /\ n \in 0..l /\ n \in 1..k
  BY <1>1, <1>3
<1>5. f[n - 1] = g[n - 1]
  BY <1>4
<1>6. f[n] = g[n]
  BY <1>2, <1>3, <1>4, <1>5 DEF StartsAlike
<1>. QED
  BY <1>6

Text == Seq(Chars \cup {NEWLINE})

\* No text takes one empty line, and one more character goes to the last line.
LEMMA LinesStep ==
  /\ LinesOf[<<>>] = << <<>> >>
  /\ \A t \in Text : \A c \in Chars \cup {NEWLINE} : LinesOf[Append(t, c)] = Typed(LinesOf[t], c)
<1> DEFINE ways(t) == CHOOSE f : FillsLines(f, t, Len(t))
<1>1. ASSUME NEW t \in Text PROVE FillsLines(ways(t), t, Len(t))
  <2>1. Len(t) \in Nat
    BY DEF Text
  <2>2. \E f : FillsLines(f, t, Len(t))
    BY <2>1, LinesFilled
  <2>. QED
    BY <2>2
<1>. HIDE DEF ways
<1> DEFINE all == [t \in Text |-> ways(t)[Len(t)]]
<1>2. all[<<>>] = << <<>> >>
  <2>1. <<>> \in Text /\ Len(<<>>) = 0
    BY DEF Text
  <2>2. FillsLines(ways(<<>>), <<>>, 0)
    BY <1>1, <2>1
  <2>. QED
    BY <2>1, <2>2 DEF FillsLines
<1>3. ASSUME NEW t \in Text, t # <<>> PROVE all[t] = Typed(all[Front(t)], Last(t))
  <2>1. PICK n \in Nat : Len(t) = n + 1
    BY <1>3 DEF Text
  <2>2. PICK u : u = Front(t)
    OBVIOUS
  <2>3. u \in Text /\ Len(u) = n /\ Last(t) = t[n + 1] /\ \A i \in 1..n : u[i] = t[i]
    BY <2>1, <2>2 DEF Text, Front, Last
  <2>4. PICK f, g : f = ways(u) /\ g = ways(t)
    OBVIOUS
  <2>5. FillsLines(f, u, n) /\ FillsLines(g, t, n + 1)
    BY <1>1, <2>1, <2>3, <2>4
  <2>6. f[n] = g[n]
    <3>1. StartsAlike(u, t, n) /\ n + 1 \in Nat /\ n <= n + 1
      BY <2>3 DEF StartsAlike
    <3>. QED
      BY <2>5, <3>1, LinesOnce
  <2>7. g[n + 1] = Typed(g[n], t[n + 1])
    <3>1. n + 1 \in 0..(n + 1) /\ n + 1 # 0 /\ (n + 1) - 1 = n
      OBVIOUS
    <3>. QED
      BY <2>5, <3>1 DEF FillsLines
  <2>8. all[t] = g[n + 1] /\ all[u] = f[n]
    BY <2>1, <2>3, <2>4
  <2>. QED
    BY <2>2, <2>3, <2>6, <2>7, <2>8
<1>4. all = [t \in Text |-> IF t = <<>> THEN << <<>> >> ELSE Typed(all[Front(t)], Last(t))]
  <2>1. \A t \in Text : all[t] = IF t = <<>> THEN << <<>> >> ELSE Typed(all[Front(t)], Last(t))
    BY <1>2, <1>3
  <2>2. all = [t \in Text |-> all[t]]
    OBVIOUS
  <2>. HIDE DEF all
  <2>. QED
    BY <2>1, <2>2
<1> DEFINE one == CHOOSE f : f = [t \in Text |-> IF t = <<>> THEN << <<>> >> ELSE Typed(f[Front(t)], Last(t))]
<1>5. LinesOf = one
  BY DEF LinesOf, Text
<1>6. one = [t \in Text |-> IF t = <<>> THEN << <<>> >> ELSE Typed(one[Front(t)], Last(t))]
  <2>. HIDE DEF all
  <2>. QED
    BY <1>4
<1>7. \A t \in Text : LinesOf[t] = IF t = <<>> THEN << <<>> >> ELSE Typed(LinesOf[Front(t)], Last(t))
  <2>. HIDE DEF one
  <2>. QED
    BY <1>5, <1>6
<1>8. ASSUME NEW t \in Text, NEW c \in Chars \cup {NEWLINE}
      PROVE  Append(t, c) \in Text /\ Append(t, c) # <<>> /\ Front(Append(t, c)) = t /\ Last(Append(t, c)) = c
  BY DEF Text, Front, Last
<1>9. <<>> \in Text
  BY DEF Text
<1>10. LinesOf[<<>>] = << <<>> >>
  BY <1>7, <1>9
<1>11. ASSUME NEW t \in Text, NEW c \in Chars \cup {NEWLINE}
       PROVE  LinesOf[Append(t, c)] = Typed(LinesOf[t], c)
  <2>1. PICK u \in Text : u = Append(t, c)
    BY <1>8
  <2>2. u # <<>> /\ Front(u) = t /\ Last(u) = c
    BY <1>8, <2>1
  <2>3. LinesOf[u] = Typed(LinesOf[Front(u)], Last(u))
    BY <1>7, <2>2
  <2>. QED
    BY <2>1, <2>2, <2>3
<1>. QED
  BY <1>10, <1>11

-----------------------------------------------------------------------------
(* The screen. *)

Rows    == 0..(MAX_ROWS - 1)
Columns == 0..(MAX_COLS - 1)

\* The cell of row r and column k, and the cells after the screen.
LEMMA CellAt ==
  ASSUME NEW r \in Rows, NEW k \in Columns
  PROVE  /\ MAX_COLS * r + k \in Video /\ MAX_COLS * r + k < CellCount
         /\ (MAX_COLS * r + k) \div MAX_COLS = r /\ (MAX_COLS * r + k) % MAX_COLS = k
         /\ r # MAX_ROWS - 1 => /\ r + 1 \in Rows
                                /\ 2 * (MAX_COLS * r + k) < 2 * MAX_COLS * (MAX_ROWS - 1)
                                /\ (MAX_COLS * r + k) + MAX_COLS = MAX_COLS * (r + 1) + k
<1>1. PICK n, m \in Nat \ {0, 1} : n = MAX_COLS /\ m = MAX_ROWS
  BY ConsoleAssumption
<1>2. r \in 0..(m - 1) /\ k \in 0..(n - 1)
  BY <1>1 DEF Rows, Columns
<1>3. PICK i \in Int : i = n * r + k
  BY <1>2
<1>4. /\ i \div n \in Int /\ i % n \in 0..(n - 1) /\ i = n * (i \div n) + (i % n)
  BY <1>3
<1>5. i \div n = r /\ i % n = k
  <2>1. PICK u \in Int, v \in 0..(n - 1) : u = i \div n /\ v = i % n /\ i = n * u + v
    BY <1>4
  <2>2. n * (u - r) = k - v
    BY <1>2, <1>3, <2>1
  <2>3. u - r <= 0
    BY <1>2, <2>1, <2>2
  <2>4. u - r >= 0
    BY <1>2, <2>1, <2>2
  <2>5. u = r
    BY <1>2, <2>1, <2>3, <2>4
  <2>6. v = k
    BY <1>2, <1>3, <2>1, <2>5
  <2>. QED
    BY <2>1, <2>5, <2>6
<1>6. PICK d \in Nat : m = r + 1 + d
  <2>1. m - r - 1 \in Nat /\ m = r + 1 + (m - r - 1)
    BY <1>2
  <2>. QED
    BY <2>1
<1>7. n * m = n * r + n + n * d /\ n * d \in Nat /\ n * r \in Nat
  BY <1>2, <1>6
<1>8. 0 <= i /\ i < m * n
  BY <1>2, <1>3, <1>7
<1>9. ASSUME d # 0 PROVE i < n * (m - 1) /\ r + 1 \in 0..(m - 1) /\ i + n = n * (r + 1) + k
  <2>1. PICK e \in Nat : d = e + 1
    BY <1>9
  <2>2. m - 1 = r + 1 + e /\ n * (m - 1) = n * r + n + n * e /\ n * e \in Nat
    BY <1>2, <1>6, <2>1
  <2>3. i < n * (m - 1)
    BY <1>2, <1>3, <1>7, <2>2
  <2>4. n * (r + 1) = n * r + n
    BY <1>2
  <2>. QED
    BY <1>2, <1>3, <1>6, <1>7, <2>1, <2>3, <2>4
<1>10. r # m - 1 => d # 0
  BY <1>2, <1>6
<1>11. i \in Video /\ i < CellCount
  <2>1. m * n \in Nat
    BY <1>7
  <2>. QED
    BY <1>1, <1>8, <2>1 DEF Video, CellCount
<1>12. ASSUME i < n * (m - 1) PROVE 2 * i < 2 * n * (m - 1)
  <2>1. PICK w \in Int : w = n * (m - 1)
    OBVIOUS
  <2>2. 2 * n * (m - 1) = 2 * w
    BY <2>1
  <2>. QED
    BY <1>12, <2>1, <2>2
<1>. QED
  BY <1>1, <1>3, <1>5, <1>9, <1>10, <1>11, <1>12 DEF Rows

\* Every cell of video memory is one or the other.
LEMMA IsCell ==
  ASSUME NEW i \in Video
  PROVE  /\ i < CellCount => /\ i \div MAX_COLS \in Rows /\ i % MAX_COLS \in Columns
                             /\ i = MAX_COLS * (i \div MAX_COLS) + (i % MAX_COLS)
         /\ ~(i < CellCount) => /\ i \div MAX_COLS # MAX_ROWS - 1
                                /\ ~(2 * i < 2 * MAX_COLS * (MAX_ROWS - 1))
         /\ ~(i < CellCount) => \A r \in Rows, k \in Columns : i # MAX_COLS * r + k
<1>1. PICK n, m \in Nat \ {0, 1} : n = MAX_COLS /\ m = MAX_ROWS
  BY ConsoleAssumption
<1>2. PICK w \in Nat : w = m * n /\ w = n * m
  OBVIOUS
<1>3. i \in Nat /\ CellCount = w
  BY <1>1, <1>2 DEF Video, CellCount
<1>4. PICK u \in Int, v \in 0..(n - 1) : u = i \div n /\ v = i % n /\ i = n * u + v
  <2>1. /\ i \div n \in Int /\ i % n \in 0..(n - 1) /\ i = n * (i \div n) + (i % n)
    BY <1>3
  <2>. QED
    BY <2>1
<1>5. u >= 0
  BY <1>3, <1>4
<1>6. ASSUME i < w PROVE u <= m - 1
  <2>1. n * u < n * m
    BY <1>2, <1>4, <1>6
  <2>. QED
    BY <1>4, <2>1
<1>7. ASSUME ~(i < w) PROVE u >= m
  <2>1. n * (u + 1) > n * m
    BY <1>2, <1>3, <1>4, <1>7
  <2>. QED
    BY <1>4, <2>1
<1>8. ASSUME ~(i < w) PROVE ~(2 * i < 2 * n * (m - 1))
  <2>1. PICK z \in Int : z = n * (m - 1)
    OBVIOUS
  <2>2. 2 * n * (m - 1) = 2 * z /\ z = w - n
    BY <1>2, <2>1
  <2>. QED
    BY <1>3, <1>8, <2>2
<1>9. i < w => u \in 0..(m - 1)
  BY <1>4, <1>5, <1>6
<1>10. ~(i < w) => u # m - 1
  BY <1>4, <1>7
<1>11. ASSUME ~(i < CellCount), NEW r \in Rows, NEW k \in Columns PROVE i # MAX_COLS * r + k
  BY <1>11, CellAt
<1>. QED
  BY <1>1, <1>3, <1>4, <1>8, <1>9, <1>10, <1>11 DEF Rows, Columns

Line == Seq(Chars)

\* The lines of a text: none is longer than a row, and the last has room left.
AreLines(L) ==
  /\ L \in Seq(Line) /\ L # <<>>
  /\ \A i \in 1..Len(L) : Len(L[i]) <= MAX_COLS
  /\ Len(L[Len(L)]) < MAX_COLS

Above(L) == IF Len(L) > MAX_ROWS THEN Len(L) - MAX_ROWS ELSE 0

\* The character that belongs to a cell.
Cell(L, r, k) ==
  IF Above(L) + r + 1 <= Len(L) /\ k + 1 <= Len(L[Above(L) + r + 1])
  THEN L[Above(L) + r + 1][k + 1] ELSE SPACE

\* b shows the last lines of L.
Shows(b, L) ==
  /\ b = [i \in Video |-> b[i]]
  /\ \A r \in Rows, k \in Columns : b[MAX_COLS * r + k] = Cell(L, r, k)
  /\ \A i \in Video : ~(i < CellCount) => b[i] = JUNK

Row(L) == Len(L) - Above(L) - 1

\* There is more than one row and one column.
LEMMA Sizes ==
  /\ \E m \in Nat : m = MAX_ROWS /\ m >= 2
  /\ \E n \in Nat : n = MAX_COLS /\ n >= 2
BY ConsoleAssumption

\* The last row with text, and the number of lines above the screen.
LEMMA RowIs ==
  ASSUME NEW L \in Seq(Line), L # <<>>
  PROVE  /\ Len(L) \in Nat \ {0} /\ Above(L) \in Nat /\ Row(L) \in Rows
         /\ Above(L) + Row(L) + 1 = Len(L)
         /\ Len(L) > MAX_ROWS => Above(L) = Len(L) - MAX_ROWS
         /\ ~(Len(L) > MAX_ROWS) => Above(L) = 0
<1>1. PICK n, m \in Nat : n = Len(L) /\ m = MAX_ROWS /\ m >= 2 /\ n # 0
  BY Sizes
<1>2. (n > m => Above(L) = n - m) /\ (~(n > m) => Above(L) = 0)
  BY <1>1 DEF Above
<1>3. PICK a \in Nat : a = Above(L)
  <2>1. Above(L) \in Nat
    <3>1. CASE n > m
      BY <1>2, <3>1
    <3>2. CASE ~(n > m)
      BY <1>2, <3>2
    <3>. QED
      BY <3>1, <3>2
  <2>. QED
    BY <2>1
<1>4. Row(L) = n - a - 1 /\ n - a - 1 \in 0..(m - 1)
  BY <1>1, <1>2, <1>3 DEF Row
<1>5. Above(L) + Row(L) + 1 = n
  BY <1>3, <1>4
<1>. QED
  BY <1>1, <1>2, <1>3, <1>4, <1>5 DEF Rows

Stored(b, pos, c) == [i \in Video |-> IF i = pos THEN c ELSE b[i]]

\* One more character on the last line.
LEMMA ShowChar ==
  ASSUME NEW L \in Seq(Line), NEW M \in Seq(Line), L # <<>>, Len(M) = Len(L), NEW c,
         \A i \in 1..(Len(L) - 1) : M[i] = L[i], M[Len(L)] = Append(L[Len(L)], c),
         Len(L[Len(L)]) < MAX_COLS, NEW b, Shows(b, L),
         NEW g, g = Stored(b, MAX_COLS * Row(L) + Len(L[Len(L)]), c)
  PROVE  Shows(g, M)
<1>1. PICK n \in Nat \ {0} : n = Len(L)
  BY RowIs
<1>2. Row(L) \in Rows /\ Above(L) \in Nat /\ Above(M) = Above(L) /\ Above(L) + Row(L) + 1 = n
  BY <1>1, RowIs DEF Above
<1>3. PICK p : p = Len(L[n])
  OBVIOUS
<1>4. p \in Columns
  <2>1. L[n] \in Line
    BY <1>1
  <2>. QED
    BY <1>1, <1>3, <2>1, ConsoleAssumption DEF Columns, Line
<1>5. PICK a : a = MAX_COLS * Row(L) + p
  OBVIOUS
<1>6. a \in Video /\ a < CellCount /\ a \div MAX_COLS = Row(L) /\ a % MAX_COLS = p
  BY <1>2, <1>4, <1>5, CellAt
<1>7. g = [i \in Video |-> IF i = a THEN c ELSE b[i]]
  BY <1>1, <1>3, <1>5 DEF Stored
<1>8. ASSUME NEW r \in Rows, NEW k \in Columns
      PROVE  g[MAX_COLS * r + k] = Cell(M, r, k)
  <2>1. PICK i \in Video : i = MAX_COLS * r + k
    BY CellAt
  <2>2. i \div MAX_COLS = r /\ i % MAX_COLS = k /\ b[i] = Cell(L, r, k)
    BY <2>1, CellAt DEF Shows
  <2>3. i = a <=> r = Row(L) /\ k = p
    BY <1>5, <1>6, <2>1, <2>2
  <2>4. PICK j : j = Above(L) + r + 1
    OBVIOUS
  <2>5. j \in Nat \ {0} /\ (j = n <=> r = Row(L))
    <3>1. PICK m \in Nat : m = MAX_ROWS
      BY Sizes
    <3>2. Row(L) \in Nat /\ r \in Nat
      BY <1>2, <3>1 DEF Rows
    <3>3. PICK u, v \in Nat : u = Above(L) /\ v = Row(L) /\ u + v + 1 = n
      BY <1>2, <3>2
    <3>4. j = u + r + 1 /\ j \in Nat \ {0}
      <4>1. u + r + 1 \in Nat \ {0}
        BY <3>2
      <4>2. j = u + r + 1
        BY <2>4, <3>3
      <4>. QED
        BY <4>1, <4>2
    <3>5. ASSUME j = n PROVE r = v
      BY <3>2, <3>3, <3>4, <3>5
    <3>6. ASSUME r = v PROVE j = n
      BY <3>3, <3>4, <3>6
    <3>. QED
      BY <3>3, <3>4, <3>5, <3>6
  <2>6. CASE j = n
    <3>1. PICK line \in Line : line = L[n]
      BY <1>1
    <3>2. Len(line) = p /\ M[n] = Append(line, c) /\ Len(Append(line, c)) = p + 1 /\ k \in Nat /\ p \in Nat
      BY <1>1, <1>3, <3>1, ConsoleAssumption DEF Line, Columns
    <3>3. Cell(L, r, k) = IF k + 1 <= p THEN line[k + 1] ELSE SPACE
      BY <1>1, <2>4, <2>6, <3>1, <3>2 DEF Cell
    <3>4. Cell(M, r, k) = IF k + 1 <= p + 1 THEN Append(line, c)[k + 1] ELSE SPACE
      <4>1. PICK long : long = Append(line, c)
        OBVIOUS
      <4>2. M[j] = long /\ Len(long) = p + 1 /\ Len(M) = n /\ j = Above(M) + r + 1
        BY <1>1, <1>2, <2>4, <2>6, <3>2, <4>1
      <4>3. j <= n
        BY <2>6
      <4>4. Cell(M, r, k) = IF k + 1 <= p + 1 THEN long[k + 1] ELSE SPACE
        BY <4>2, <4>3 DEF Cell
      <4>. QED
        BY <4>1, <4>4
    <3>5. k + 1 <= p => Append(line, c)[k + 1] = line[k + 1]
      BY <3>1, <3>2 DEF Line
    <3>6. Append(line, c)[p + 1] = c
      BY <3>1, <3>2 DEF Line
    <3>7. CASE k = p
      BY <1>7, <2>1, <2>3, <2>5, <2>6, <3>2, <3>4, <3>6, <3>7
    <3>8. CASE k # p
      BY <1>7, <2>1, <2>2, <2>3, <3>2, <3>3, <3>4, <3>5, <3>8
    <3>. QED
      BY <3>7, <3>8
  <2>7. CASE j # n
    <3>1. Cell(M, r, k) = Cell(L, r, k)
      <4>1. j <= n => j \in 1..(n - 1)
        BY <2>5, <2>7
      <4>2. j <= n => M[j] = L[j]
        BY <1>1, <4>1
      <4>. QED
        BY <1>1, <1>2, <2>4, <4>2 DEF Cell
    <3>. QED
      BY <1>7, <2>1, <2>2, <2>3, <2>5, <2>7, <3>1
  <2>. QED
    BY <2>6, <2>7
<1>9. ASSUME NEW i \in Video, ~(i < CellCount) PROVE g[i] = JUNK
  BY <1>6, <1>7, <1>9 DEF Shows
<1>. QED
  BY <1>7, <1>8, <1>9 DEF Shows

\* The last of n lines is in row v below u, that of n + 1 in row y below x.
LEMMA NextRow ==
  ASSUME NEW m \in Nat, NEW n \in Nat, NEW u \in Nat, NEW v \in Nat, NEW x \in Nat, NEW y \in Nat,
         u + v + 1 = n, x + y = n, v < m,
         n > m => u = n - m, ~(n > m) => u = 0,
         n + 1 > m => x = n + 1 - m, ~(n + 1 > m) => x = 0
  PROVE  (v + 1 # m => u = 0 /\ x = 0 /\ y = v + 1) /\ (v + 1 = m => x = u + 1 /\ y = v)
<1>1. CASE v + 1 = m
  <2>1. n + 1 > m
    BY <1>1
  <2>2. x = u + 1
    BY <1>1, <2>1
  <2>. QED
    BY <1>1, <2>2
<1>2. CASE v + 1 # m
  <2>1. v + 1 < m
    BY <1>2
  <2>2. ~(n > m)
    BY <2>1
  <2>3. ~(n + 1 > m)
    BY <2>1, <2>2
  <2>. QED
    BY <1>2, <2>2, <2>3
<1>. QED
  BY <1>1, <1>2

MovedUp(b) == [i \in Video |-> IF 2 * i < 2 * MAX_COLS * (MAX_ROWS - 1) THEN b[i + MAX_COLS] ELSE b[i]]

Cleared(b, r) == [i \in Video |-> IF i \div MAX_COLS = r THEN SPACE ELSE b[i]]

Scrolled(b) == Cleared(MovedUp(b), MAX_ROWS - 1)

\* One more line, with the rows moved up for it where there is none left.
LEMMA ShowLine ==
  ASSUME NEW L \in Seq(Line), L # <<>>, NEW M, M = Append(L, <<>>), NEW b, Shows(b, L)
  PROVE  /\ M \in Seq(Line)
         /\ Row(L) + 1 # MAX_ROWS => Shows(b, M) /\ Row(M) = Row(L) + 1
         /\ Row(L) + 1 = MAX_ROWS => Shows(Scrolled(b), M) /\ Row(M) = Row(L)
<1>1. PICK n \in Nat \ {0} : n = Len(L)
  BY RowIs
<1>2. /\ M \in Seq(Line) /\ M # <<>> /\ Len(M) = n + 1 /\ M[n + 1] = <<>> /\ Len(<<>>) = 0
      /\ \A i \in 1..n : M[i] = L[i]
  BY <1>1 DEF Line
<1>3. Row(L) \in Rows /\ Above(L) \in Nat /\ Above(L) + Row(L) + 1 = n
  BY <1>1, RowIs
<1>7. PICK m \in Nat : m = MAX_ROWS /\ m >= 2
  BY Sizes
<1>8. /\ Above(M) \in Nat /\ Row(M) \in Nat /\ Row(L) \in Nat /\ Above(M) + Row(M) = n
      /\ n > m => Above(L) = n - m
      /\ ~(n > m) => Above(L) = 0
      /\ n + 1 > m => Above(M) = n + 1 - m
      /\ ~(n + 1 > m) => Above(M) = 0
  <2>1. /\ Len(M) \in Nat \ {0} /\ Above(M) \in Nat /\ Row(M) \in Rows
        /\ Above(M) + Row(M) + 1 = Len(M)
        /\ Len(M) > MAX_ROWS => Above(M) = Len(M) - MAX_ROWS
        /\ ~(Len(M) > MAX_ROWS) => Above(M) = 0
    BY <1>2, RowIs
  <2>2. /\ Len(L) > MAX_ROWS => Above(L) = Len(L) - MAX_ROWS
        /\ ~(Len(L) > MAX_ROWS) => Above(L) = 0
    BY RowIs
  <2>3. Row(M) \in Nat /\ Row(L) \in Nat
    BY <1>3, <1>7, <2>1 DEF Rows
  <2>4. PICK u, v \in Nat : u = Above(M) /\ v = Row(M)
    BY <2>1, <2>3
  <2>5. u + v + 1 = n + 1
    BY <1>2, <2>1, <2>4
  <2>6. u + v = n
    BY <2>4, <2>5
  <2>. QED
    BY <1>1, <1>2, <1>7, <2>1, <2>2, <2>3, <2>4, <2>6
<1>9. PICK u, v, x, y \in Nat : u = Above(L) /\ v = Row(L) /\ x = Above(M) /\ y = Row(M)
  BY <1>3, <1>8
<1>10. (v + 1 # m => u = 0 /\ x = 0 /\ y = v + 1) /\ (v + 1 = m => x = u + 1 /\ y = v)
  <2>1. u + v + 1 = n /\ x + y = n
    BY <1>3, <1>8, <1>9
  <2>2. v < m
    BY <1>3, <1>7, <1>9 DEF Rows
  <2>3. (n > m => u = n - m) /\ (~(n > m) => u = 0)
    BY <1>8, <1>9
  <2>4. (n + 1 > m => x = n + 1 - m) /\ (~(n + 1 > m) => x = 0)
    BY <1>8, <1>9
  <2>. QED
    BY <2>1, <2>2, <2>3, <2>4, NextRow
<1>4. ASSUME NEW j \in Nat \ {0}, NEW k \in Columns
      PROVE  (IF j <= n + 1 /\ k + 1 <= Len(M[j]) THEN M[j][k + 1] ELSE SPACE)
               = IF j <= n /\ k + 1 <= Len(L[j]) THEN L[j][k + 1] ELSE SPACE
  <2>1. CASE j = n + 1
    <3>1. ~(k + 1 <= Len(M[j])) /\ ~(j <= n)
      BY <1>2, <2>1, ConsoleAssumption DEF Columns
    <3>. QED
      BY <3>1
  <2>2. CASE j # n + 1
    <3>1. (j <= n + 1 <=> j <= n) /\ (j <= n => M[j] = L[j])
      BY <1>2, <2>2
    <3>. QED
      BY <3>1
  <2>. QED
    BY <2>1, <2>2
<1>5. ASSUME Row(L) + 1 # MAX_ROWS PROVE Shows(b, M) /\ Row(M) = Row(L) + 1
  <2>1. Above(L) = 0 /\ Above(M) = 0 /\ Row(M) = Row(L) + 1
    BY <1>5, <1>7, <1>9, <1>10
  <2>2. ASSUME NEW r \in Rows, NEW k \in Columns PROVE Cell(M, r, k) = Cell(L, r, k)
    <3>1. PICK j \in Nat \ {0} : j = 0 + r + 1
      BY ConsoleAssumption DEF Rows
    <3>. QED
      BY <1>1, <1>2, <1>4, <2>1, <3>1 DEF Cell
  <2>. QED
    BY <2>1, <2>2 DEF Shows
<1>6. ASSUME Row(L) + 1 = MAX_ROWS PROVE Shows(Scrolled(b), M) /\ Row(M) = Row(L)
  <2>1. Above(M) = Above(L) + 1 /\ Row(M) = Row(L)
    BY <1>6, <1>7, <1>9, <1>10
  <2>2. PICK g : g = Scrolled(b)
    OBVIOUS
  <2>3. g = [i \in Video |-> IF i \div MAX_COLS = MAX_ROWS - 1 THEN SPACE
                             ELSE IF 2 * i < 2 * MAX_COLS * (MAX_ROWS - 1) THEN b[i + MAX_COLS] ELSE b[i]]
    BY <2>2 DEF Scrolled, Cleared, MovedUp
  <2>4. ASSUME NEW r \in Rows, NEW k \in Columns PROVE g[MAX_COLS * r + k] = Cell(M, r, k)
    <3>1. PICK i \in Video : i = MAX_COLS * r + k
      BY CellAt
    <3>2. i \div MAX_COLS = r
      BY <3>1, CellAt
    <3>3. CASE r = MAX_ROWS - 1
      <4>1. g[i] = SPACE
        BY <2>3, <3>2, <3>3
      <4>2. Above(M) + r + 1 = n + 1
        <5>1. PICK a \in Nat : a = Above(L)
          BY <1>3
        <5>2. Row(L) = m - 1 /\ r = m - 1 /\ Above(M) = a + 1
          BY <1>6, <1>7, <1>8, <2>1, <3>3, <5>1
        <5>3. a + (m - 1) + 1 = n
          BY <1>3, <5>1, <5>2
        <5>. QED
          BY <1>7, <5>2, <5>3
      <4>3. ~(k + 1 <= 0)
        BY ConsoleAssumption DEF Columns
      <4>4. Cell(M, r, k) = SPACE
        BY <1>2, <4>2, <4>3 DEF Cell
      <4>. QED
        BY <3>1, <4>1, <4>4
    <3>4. CASE r # MAX_ROWS - 1
      <4>1. /\ r + 1 \in Rows /\ 2 * i < 2 * MAX_COLS * (MAX_ROWS - 1)
            /\ i + MAX_COLS = MAX_COLS * (r + 1) + k
        BY <3>1, <3>4, CellAt
      <4>2. g[i] = b[MAX_COLS * (r + 1) + k]
        BY <2>3, <3>2, <3>4, <4>1
      <4>3. g[i] = Cell(L, r + 1, k)
        BY <4>1, <4>2 DEF Shows
      <4>4. PICK j \in Nat \ {0} : j = Above(M) + r + 1 /\ j = Above(L) + (r + 1) + 1
        <5>1. PICK a \in Nat : a = Above(L)
          BY <1>3
        <5>2. r \in Nat /\ Above(M) = a + 1
          BY <1>7, <2>1, <5>1 DEF Rows
        <5>3. (a + 1) + r + 1 = a + (r + 1) + 1 /\ (a + 1) + r + 1 \in Nat \ {0}
          BY <5>2
        <5>. QED
          BY <5>1, <5>2, <5>3
      <4>5. Cell(M, r, k) = Cell(L, r + 1, k)
        BY <1>1, <1>2, <1>4, <4>4 DEF Cell
      <4>. QED
        BY <3>1, <4>3, <4>5
    <3>. QED
      BY <3>3, <3>4
  <2>5. ASSUME NEW i \in Video, ~(i < CellCount) PROVE g[i] = JUNK
    BY <2>3, <2>5, IsCell DEF Shows
  <2>6. g = [i \in Video |-> g[i]]
    BY <2>3
  <2>. QED
    BY <2>1, <2>2, <2>4, <2>5, <2>6 DEF Shows
<1>. QED
  BY <1>2, <1>5, <1>6

\* A character on the last line, and the line that starts where it fills the row.
LEMMA TypedIs ==
  ASSUME NEW L, AreLines(L), NEW c \in Chars
  PROVE  \E M \in Seq(Line), line \in Line :
           /\ M # <<>> /\ Len(M) = Len(L) /\ (\A i \in 1..(Len(L) - 1) : M[i] = L[i])
           /\ line = Append(L[Len(L)], c) /\ M[Len(M)] = line /\ Len(line) = Len(L[Len(L)]) + 1
           /\ Typed(L, c) = IF Len(line) = MAX_COLS THEN Append(M, <<>>) ELSE M
<1>1. PICK n \in Nat \ {0} : n = Len(L)
  BY DEF AreLines
<1>2. L \in Seq(Line) /\ L[n] \in Line /\ Last(L) = L[n] /\ Front(L) = [i \in 1..(n - 1) |-> L[i]]
  BY <1>1 DEF AreLines, Last, Front
<1>3. PICK line : line = Append(L[n], c)
  OBVIOUS
<1>4. line \in Line /\ Len(line) = Len(L[n]) + 1
  BY <1>2, <1>3 DEF Line
<1>5. PICK F \in Seq(Line) : F = Front(L) /\ Len(F) = n - 1 /\ \A i \in 1..(n - 1) : F[i] = L[i]
  <2>1. Front(L) \in Seq(Line) /\ Len(Front(L)) = n - 1 /\ \A i \in 1..(n - 1) : Front(L)[i] = L[i]
    BY <1>1, <1>2 DEF Front
  <2>. QED
    BY <2>1
<1>6. PICK M : M = Append(F, line) /\ M = F \o <<line>>
  BY <1>4, <1>5, AppendIsConcat
<1>7. M \in Seq(Line) /\ Len(M) = n /\ M[n] = line /\ \A i \in 1..(n - 1) : M[i] = L[i]
  BY <1>4, <1>5, <1>6
<1>8. F \o <<line, <<>>>> = Append(M, <<>>)
  BY <1>4, <1>5, <1>6 DEF Line
<1>9. c # NEWLINE
  BY ConsoleAssumption
<1>10. Typed(L, c) = IF Len(line) = MAX_COLS THEN Append(M, <<>>) ELSE M
  BY <1>2, <1>3, <1>5, <1>6, <1>8, <1>9 DEF Typed
<1>11. M # <<>>
  BY <1>7
<1>. QED
  BY <1>1, <1>3, <1>4, <1>7, <1>10, <1>11

\* What is typed leaves lines, and never none.
LEMMA TypedLines ==
  ASSUME NEW L, AreLines(L), NEW c \in Chars \cup {NEWLINE}
  PROVE  AreLines(Typed(L, c)) /\ Typed(L, c) # << <<>> >>
<1>1. PICK n \in Nat \ {0} : n = Len(L)
  BY DEF AreLines
<1>2. L \in Seq(Line) /\ <<>> \in Line /\ Len(<<>>) = 0
  BY DEF AreLines, Line
<1>3. ASSUME NEW M \in Seq(Line), NEW m \in Nat \ {0}, m = Len(M), \A i \in 1..m : Len(M[i]) <= MAX_COLS
      PROVE  AreLines(Append(M, <<>>)) /\ Append(M, <<>>) # << <<>> >>
  <2>1. PICK N : N = Append(M, <<>>)
    OBVIOUS
  <2>2. N \in Seq(Line) /\ Len(N) = m + 1 /\ N[m + 1] = <<>> /\ \A i \in 1..m : N[i] = M[i]
    BY <1>2, <1>3, <2>1
  <2>3. \A i \in 1..(m + 1) : Len(N[i]) <= MAX_COLS
    BY <1>2, <1>3, <2>2, Sizes
  <2>4. N # <<>> /\ N # << <<>> >>
    BY <2>2
  <2>. QED
    BY <1>2, <2>1, <2>2, <2>3, <2>4, Sizes DEF AreLines
<1>4. CASE c = NEWLINE
  <2>1. Typed(L, c) = Append(L, <<>>)
    BY <1>4 DEF Typed
  <2>2. \A i \in 1..n : Len(L[i]) <= MAX_COLS
    BY <1>1 DEF AreLines
  <2>. QED
    BY <1>1, <1>2, <1>3, <2>1, <2>2
<1>5. CASE c # NEWLINE
  <2>1. PICK M \in Seq(Line), line \in Line :
           /\ M # <<>> /\ Len(M) = Len(L) /\ (\A i \in 1..(Len(L) - 1) : M[i] = L[i])
           /\ line = Append(L[Len(L)], c) /\ M[Len(M)] = line /\ Len(line) = Len(L[Len(L)]) + 1
           /\ Typed(L, c) = IF Len(line) = MAX_COLS THEN Append(M, <<>>) ELSE M
    BY <1>5, TypedIs
  <2>2. L[n] \in Line /\ Len(L[n]) \in Nat /\ Len(L[n]) < MAX_COLS
    BY <1>1, <1>2 DEF AreLines, Line
  <2>3. Len(line) <= MAX_COLS /\ Len(line) # 0
    BY <1>1, <2>1, <2>2, Sizes
  <2>4. \A i \in 1..n : Len(M[i]) <= MAX_COLS
    <3>1. \A i \in 1..n : Len(L[i]) <= MAX_COLS
      BY <1>1 DEF AreLines
    <3>2. \A i \in 1..(n - 1) : M[i] = L[i]
      BY <1>1, <2>1
    <3>3. \A i \in 1..n : i = n \/ i \in 1..(n - 1)
      OBVIOUS
    <3>4. Len(M[n]) <= MAX_COLS
      BY <1>1, <2>1, <2>3
    <3>. QED
      BY <3>1, <3>2, <3>3, <3>4
  <2>5. CASE Len(line) = MAX_COLS
    BY <1>1, <1>3, <2>1, <2>4, <2>5
  <2>6. CASE Len(line) # MAX_COLS
    <3>1. Len(line) < MAX_COLS
      BY <2>1, <2>2, <2>3, <2>6, Sizes
    <3>2. M # << <<>> >>
      BY <1>1, <1>2, <2>1, <2>3
    <3>. QED
      BY <1>1, <2>1, <2>4, <2>6, <3>1, <3>2 DEF AreLines
  <2>. QED
    BY <2>5, <2>6
<1>. QED
  BY <1>4, <1>5, AppendIsConcat

\* The screen s shows L, and the next character goes behind the text.
ScreenIs(s, L) ==
  /\ s = [buffer |-> s.buffer, row |-> Row(L), col |-> Len(L[Len(L)])]
  /\ Shows(s.buffer, L)

Untouched == [buffer |-> [i \in Video |-> JUNK], row |-> 0, col |-> 0]

\* What the screen is between characters when the lines are L.
ScreenFor(s, L) == ScreenIs(s, L) \/ (L = << <<>> >> /\ s = Untouched)

\* Only where there is no text is the next cell the first.
LEMMA OriginIs ==
  ASSUME NEW L, AreLines(L), NEW s, ScreenFor(s, L)
  PROVE  /\ s = [buffer |-> s.buffer, row |-> s.row, col |-> s.col]
         /\ s.row \in Rows /\ s.col \in Columns
         /\ (s.col = 0 /\ s.row = 0) <=> L = << <<>> >>
         /\ \A i \in Video : ~(i < CellCount) => s.buffer[i] = JUNK
<1>1. PICK n \in Nat \ {0} : n = Len(L) /\ L[n] \in Line /\ L \in Seq(Line) /\ L # <<>> /\ Len(L[n]) < MAX_COLS
  BY DEF AreLines
<1>2. CASE s = Untouched /\ L = << <<>> >>
  <2>1. 0 \in Rows /\ 0 \in Columns
    BY Sizes DEF Rows, Columns
  <2>. QED
    BY <1>2, <2>1 DEF Untouched
<1>3. CASE ScreenIs(s, L)
  <2>1. /\ s = [buffer |-> s.buffer, row |-> s.row, col |-> s.col]
        /\ s.row = Row(L) /\ s.col = Len(L[n])
    <3>1. s = [buffer |-> s.buffer, row |-> Row(L), col |-> Len(L[Len(L)])]
      BY <1>3 DEF ScreenIs
    <3>. QED
      BY <1>1, <3>1
  <2>2. s.row \in Rows /\ s.col \in Columns
    BY <1>1, <2>1, RowIs, Sizes DEF Columns, Line
  <2>3. ASSUME L # << <<>> >> PROVE ~(s.col = 0 /\ s.row = 0)
    <3>1. ASSUME n = 1 PROVE Len(L[n]) # 0
      <4>1. ASSUME L[1] = <<>> PROVE FALSE
        <5>1. PICK M : M = <<L[1]>>
          OBVIOUS
        <5>2. M \in Seq(Line) /\ Len(M) = 1 /\ M[1] = L[1] /\ Len(L) = 1
          BY <1>1, <3>1, <5>1
        <5>3. \A i \in 1..Len(L) : L[i] = M[i]
          BY <5>2
        <5>4. L = M
          BY <1>1, <5>2, <5>3, SeqEqual
        <5>. QED
          BY <2>3, <4>1, <5>1, <5>4
      <4>. QED
        BY <1>1, <3>1, <4>1 DEF Line
    <3>2. ASSUME n # 1 PROVE Row(L) # 0
      <4>1. Above(L) + Row(L) + 1 = n
        BY <1>1, RowIs
      <4>2. (n > MAX_ROWS => Above(L) = n - MAX_ROWS) /\ (~(n > MAX_ROWS) => Above(L) = 0)
        BY <1>1, RowIs
      <4>. QED
        BY <3>2, <4>1, <4>2, Sizes
    <3>. QED
      BY <2>1, <3>1, <3>2
  <2>4. ASSUME L = << <<>> >> PROVE s.col = 0 /\ s.row = 0
    <3>1. Len(L) = 1 /\ L[1] = <<>> /\ Len(L[Len(L)]) = 0
      BY <2>4
    <3>2. Above(L) = 0
      BY <3>1, Sizes DEF Above
    <3>. QED
      BY <1>1, <2>1, <3>1, <3>2 DEF Row
  <2>5. \A i \in Video : ~(i < CellCount) => s.buffer[i] = JUNK
    BY <1>3 DEF ScreenIs, Shows
  <2>. QED
    BY <2>1, <2>2, <2>3, <2>4, <2>5
<1>. QED
  BY <1>2, <1>3 DEF ScreenFor

\* The screen is cleared before the first character, and again if another
\* putchar has only cleared it.
LEMMA InitIs ==
  ASSUME NEW L, AreLines(L), ScreenFor(screen, L), Origin
  PROVE  L = << <<>> >> /\ ScreenIs(init_buffer_, L)
<1>1. L = << <<>> >> /\ \A i \in Video : ~(i < CellCount) => screen.buffer[i] = JUNK
  BY OriginIs DEF Origin
<1>2. PICK b : b = [i \in Video |-> IF i < CellCount THEN SPACE ELSE JUNK]
  OBVIOUS
<1>3. [i \in Video |-> IF i < CellCount THEN SPACE ELSE screen.buffer[i]] = b
  BY <1>1, <1>2
<1>4. init_buffer_ = [buffer |-> b, row |-> 0, col |-> 0]
  BY <1>3 DEF init_buffer_
<1>5. Len(L) = 1 /\ L[1] = <<>> /\ Len(L[Len(L)]) = 0 /\ Above(L) = 0 /\ Row(L) = 0
  <2>1. Len(L) = 1 /\ L[1] = <<>> /\ Len(L[Len(L)]) = 0
    BY <1>1
  <2>2. Above(L) = 0
    BY <2>1, Sizes DEF Above
  <2>. QED
    BY <2>1, <2>2 DEF Row
<1>6. ASSUME NEW r \in Rows, NEW k \in Columns PROVE Cell(L, r, k) = SPACE
  <2>1. ASSUME 0 + r + 1 <= 1, k + 1 <= Len(L[0 + r + 1]) PROVE FALSE
    <3>1. 0 + r + 1 = 1
      BY <2>1, Sizes DEF Rows
    <3>2. k + 1 <= 0
      BY <1>5, <2>1, <3>1
    <3>. QED
      BY <3>2, Sizes DEF Columns
  <2>. QED
    BY <1>5, <2>1 DEF Cell
<1>7. ASSUME NEW r \in Rows, NEW k \in Columns PROVE b[MAX_COLS * r + k] = SPACE
  BY <1>2, CellAt
<1>8. Shows(b, L)
  BY <1>2, <1>6, <1>7 DEF Shows
<1>. QED
  BY <1>1, <1>4, <1>5, <1>8 DEF ScreenIs

\* What is still to be done once row has gone up to r, or col to k.
Done(b, r, k) == [buffer |-> b, row |-> r, col |-> k]

AtRow(b, r, k) == IF r = MAX_ROWS THEN Done(Cleared(MovedUp(b), r - 1), r - 1, k) ELSE Done(b, r, k)

AtCol(b, r, k) == IF k = MAX_COLS THEN AtRow(b, r + 1, 0) ELSE Done(b, r, k)

\* A new line.
LEMMA NewLineIs ==
  ASSUME NEW L \in Seq(Line), L # <<>>, NEW b, Shows(b, L)
  PROVE  ScreenIs(AtRow(b, Row(L) + 1, 0), Append(L, <<>>))
<1>1. PICK n \in Nat \ {0} : n = Len(L)
  BY RowIs
<1>2. PICK M : M = Append(L, <<>>)
  OBVIOUS
<1>3. Len(M) = n + 1 /\ M[n + 1] = <<>> /\ Len(M[Len(M)]) = 0
  BY <1>1, <1>2 DEF Line
<1>4. Row(L) \in Int /\ (Row(L) + 1) - 1 = Row(L)
  <2>1. Row(L) \in Int
    BY RowIs, Sizes DEF Rows
  <2>. QED
    BY <2>1
<1>5. CASE Row(L) + 1 = MAX_ROWS
  <2>1. AtRow(b, Row(L) + 1, 0) = [buffer |-> Scrolled(b), row |-> Row(L), col |-> 0]
    BY <1>4, <1>5 DEF AtRow, Done, Scrolled
  <2>2. Shows(Scrolled(b), M) /\ Row(M) = Row(L)
    BY <1>2, <1>5, ShowLine
  <2>. QED
    BY <1>2, <1>3, <2>1, <2>2 DEF ScreenIs
<1>6. CASE Row(L) + 1 # MAX_ROWS
  <2>1. AtRow(b, Row(L) + 1, 0) = [buffer |-> b, row |-> Row(L) + 1, col |-> 0]
    BY <1>6 DEF AtRow, Done
  <2>2. Shows(b, M) /\ Row(M) = Row(L) + 1
    BY <1>2, <1>6, ShowLine
  <2>. QED
    BY <1>2, <1>3, <2>1, <2>2 DEF ScreenIs
<1>. QED
  BY <1>5, <1>6

\* What is to come of a screen whose next cell has got a character.
LEMMA PutIs ==
  ASSUME NEW L, AreLines(L), NEW b, NEW k, k = Len(L[Len(L)]), Shows(b, L), NEW c \in Chars,
         NEW g, g = Stored(b, Row(L) * MAX_COLS + k, c)
  PROVE  ScreenIs(AtCol(g, Row(L), k + 1), Typed(L, c))
<1>1. PICK n \in Nat \ {0} : n = Len(L) /\ L[n] \in Line /\ L \in Seq(Line) /\ L # <<>> /\ Len(L[n]) < MAX_COLS
  BY DEF AreLines
<1>2. Row(L) \in Int /\ k \in Nat /\ k = Len(L[n]) /\ Row(L) * MAX_COLS + k = MAX_COLS * Row(L) + k
  <2>1. Row(L) \in Int /\ k \in Nat /\ k = Len(L[n])
    BY <1>1, RowIs, Sizes DEF Rows, Line
  <2>. QED
    BY <2>1, Sizes
<1>3. PICK M \in Seq(Line), line \in Line :
         /\ M # <<>> /\ Len(M) = Len(L) /\ (\A i \in 1..(Len(L) - 1) : M[i] = L[i])
         /\ line = Append(L[Len(L)], c) /\ M[Len(M)] = line /\ Len(line) = Len(L[Len(L)]) + 1
         /\ Typed(L, c) = IF Len(line) = MAX_COLS THEN Append(M, <<>>) ELSE M
  BY TypedIs
<1>4. Shows(g, M)
  <2>1. g = Stored(b, MAX_COLS * Row(L) + Len(L[Len(L)]), c)
    BY <1>2
  <2>. QED
    BY <1>1, <1>3, <2>1, ShowChar
<1>5. Row(M) = Row(L) /\ Len(line) = k + 1
  BY <1>1, <1>2, <1>3 DEF Row, Above
<1>6. CASE k + 1 = MAX_COLS
  <2>1. AtCol(g, Row(L), k + 1) = AtRow(g, Row(M) + 1, 0)
    BY <1>5, <1>6 DEF AtCol
  <2>2. Typed(L, c) = Append(M, <<>>)
    BY <1>3, <1>5, <1>6
  <2>. QED
    BY <1>3, <1>4, <2>1, <2>2, NewLineIs
<1>7. CASE k + 1 # MAX_COLS
  <2>1. AtCol(g, Row(L), k + 1) = [buffer |-> g, row |-> Row(M), col |-> k + 1]
    BY <1>5, <1>7 DEF AtCol, Done
  <2>2. Typed(L, c) = M
    BY <1>3, <1>5, <1>7
  <2>. QED
    BY <1>3, <1>4, <1>5, <2>1, <2>2 DEF ScreenIs
<1>. QED
  BY <1>6, <1>7

-----------------------------------------------------------------------------
(* The screen and its cursor, whoever writes. *)

\* How far the writes have come that place the cursor, when nothing came between.
Placing(w) ==
  /\ w.pos = Position
  /\ w.outs = 1 => vga.index = 14
  /\ w.outs \in {2, 3} => vga.register[14] = w.pos \div 256
  /\ w.outs = 3 => vga.index = 15

\* The writer w, which is the running one or not, is in its port writes or not,
\* and has a character there.
CursorOf(w, running) ==
  /\ IF w.at = "cursor" THEN w.outs \in 0..3 /\ (w.torn \/ (running /\ Placing(w)))
                        ELSE w.outs = 0 /\ ~w.torn
  /\ w.at \in Putting \ {"put"} => w.bytes < Len(w.str)

\* What becomes of the screen once the running writer has done what it is in the
\* middle of.
Rest(at, b, r, k) ==
  IF at = "advance" THEN AtCol(b, r, k + 1)
  ELSE IF at = "wrap" THEN AtCol(b, r, k)
  ELSE IF at = "newrow" THEN AtRow(b, r + 1, k)
  ELSE IF at = "full" THEN AtRow(b, r, k)
  ELSE IF at = "scroll" THEN Done(Cleared(MovedUp(b), r - 1), r - 1, k)
  ELSE IF at = "clear" THEN Done(Cleared(b, r - 1), r - 1, k)
  ELSE Done(b, r, k)

Pending ==
  IF writers = <<>> THEN screen ELSE Rest(Running.at, screen.buffer, screen.row, screen.col)

\* The lines of the text.
TextInv ==
  /\ text \in Text /\ AreLines(LinesOf[text])
  /\ text # <<>> => LinesOf[text] # << <<>> >>

\* The screen is on the way to the text, and the cursor where it will end.
ShownInv ==
  /\ ScreenFor(Pending, LinesOf[text])
  /\ placed => 256 * vga.register[14] + vga.register[15] = Pending.row * MAX_COLS + Pending.col

\* Past the test for the first cell the screen has been cleared.
Ready == text # <<>> \/ ScreenIs(screen, << <<>> >>)

\* Only the running writer can be where another's message would do harm.
PutOf(w, running) ==
  /\ w.at \in {"show", "store"} => Ready
  /\ w.at \in Later => text # <<>>
  /\ IF running THEN /\ w.at = "init" => Origin
                     /\ w.at = "store" => w.pos = Position /\ w.str[w.bytes + 1] # NEWLINE
                ELSE w.at \notin {"init", "store", "advance", "newrow", "scroll", "clear"}

ScreenInv ==
  /\ TextInv
  /\ vga \in [index : 14..15, register : [14..15 -> Int]]
  /\ \A i \in 1..Len(writers) : CursorOf(writers[i], i = Len(writers))
  /\ ~disturbed => /\ ShownInv
                   /\ \A i \in 1..Len(writers) : PutOf(writers[i], i = Len(writers))

\* The running writer's own part of the invariant.
LEMMA RunningCursor ==
  ASSUME TypeInv, ScreenInv, writers # <<>>
  PROVE  /\ Running \in Writer /\ CursorOf(Running, TRUE)
         /\ ~disturbed => PutOf(Running, TRUE)
<1>1. PICK n \in Nat \ {0} : n = Len(writers) /\ Running = writers[n] /\ Running \in Writer
  BY RunningIsWriter
<1>2. n \in 1..n /\ CursorOf(writers[n], n = n) /\ (~disturbed => PutOf(writers[n], n = n))
  BY <1>1 DEF ScreenInv
<1>. QED
  BY <1>1, <1>2

\* Where the running writer goes on, and with what screen.
LEMMA GoesOn ==
  ASSUME TypeInv, writers # <<>>, NEW w \in Writer, Goes(w)
  PROVE  Pending' = Rest(w.at, screen.buffer', screen.row', screen.col')
<1>1. PICK n \in Nat \ {0} : n = Len(writers) /\ Len(writers') = n /\ writers'[n] = w /\ writers' \in Seq(Writer)
  BY TopOfStack
<1>2. writers' # <<>> /\ Last(writers') = w
  BY <1>1 DEF Last
<1>. QED
  BY <1>2 DEF Pending, Running

\* A step of the running writer.
LEMMA TopScreen ==
  ASSUME TypeInv, ScreenInv, writers # <<>>, NEW w \in Writer, Goes(w), UNCHANGED disturbed,
         TextInv', vga' \in [index : 14..15, register : [14..15 -> Int]], CursorOf(w, TRUE)',
         ~disturbed => ShownInv' /\ PutOf(w, TRUE)' /\ (Ready => Ready') /\ (text # <<>> => text' # <<>>)
  PROVE  ScreenInv'
<1>1. PICK n \in Nat \ {0} :
        /\ n = Len(writers) /\ Len(writers') = n /\ writers'[n] = w
        /\ \A i \in 1..(n - 1) : writers'[i] = writers[i]
  BY TopOfStack
<1>2. ASSUME NEW i \in 1..n PROVE CursorOf(writers[i], i = n)'
  <2>1. CASE i = n
    BY <1>1, <2>1
  <2>2. CASE i # n
    <3>1. i \in 1..(n - 1) /\ CursorOf(writers[i], i = n)
      BY <1>1, <2>2 DEF ScreenInv
    <3>. QED
      BY <1>1, <2>2, <3>1 DEF CursorOf
  <2>. QED
    BY <2>1, <2>2
<1>3. ASSUME NEW i \in 1..n, ~disturbed PROVE PutOf(writers[i], i = n)'
  <2>1. CASE i = n
    BY <1>1, <1>3, <2>1
  <2>2. CASE i # n
    <3>1. i \in 1..(n - 1) /\ PutOf(writers[i], i = n)
      BY <1>1, <1>3, <2>2 DEF ScreenInv
    <3>2. writers'[i] = writers[i] /\ (Ready => Ready') /\ (text # <<>> => text' # <<>>)
      BY <1>1, <1>3, <3>1
    <3>. QED
      BY <2>2, <3>1, <3>2 DEF PutOf
  <2>. QED
    BY <2>1, <2>2
<1>. QED
  BY <1>1, <1>2, <1>3 DEF ScreenInv

\* The points that come before and after the characters.
Outside == {"read", "take", "send", "put", "cursor"}

LEMMA RestOutside ==
  ASSUME NEW at \in Outside \cup {"init", "show", "store"}, IsScreen(screen)
  PROVE  Rest(at, screen.buffer, screen.row, screen.col) = screen
<1>1. Rest(at, screen.buffer, screen.row, screen.col) = Done(screen.buffer, screen.row, screen.col)
  BY DEF Rest, Outside
<1>. QED
  BY <1>1 DEF Done, IsScreen

\* So it is when the running writer goes on outside of putchar.
LEMMA ScreenOutside ==
  ASSUME TypeInv, ScreenInv, writers # <<>>, Running.at \in Outside,
         NEW w \in Writer, Goes(w), UNCHANGED console,
         w.at \in Outside \ {"cursor"}, w.outs = 0, ~w.torn
  PROVE  ScreenInv'
<1>1. UNCHANGED <<screen, vga, text, placed, disturbed>> /\ IsScreen(screen)
  BY DEF console, TypeInv
<1>2. Pending' = screen /\ Pending = screen
  <2>1. Pending' = Rest(w.at, screen.buffer, screen.row, screen.col)
    BY <1>1, GoesOn
  <2>2. Pending = Rest(Running.at, screen.buffer, screen.row, screen.col)
    BY DEF Pending
  <2>. QED
    BY <1>1, <2>1, <2>2, RestOutside
<1>3. TextInv' /\ vga' \in [index : 14..15, register : [14..15 -> Int]]
  BY <1>1 DEF ScreenInv, TextInv
<1>4. CursorOf(w, TRUE)' /\ PutOf(w, TRUE)'
  BY DEF CursorOf, PutOf, Outside, Later, Putting
<1>5. ~disturbed => ShownInv'
  BY <1>1, <1>2 DEF ScreenInv, ShownInv
<1>6. Ready => Ready'
  BY <1>1 DEF Ready
<1>. QED
  BY <1>1, <1>3, <1>4, <1>5, <1>6, TopScreen

\* The steps of the serial port.
LEMMA SerialScreen ==
  ASSUME TypeInv, ScreenInv, UNCHANGED console,
         \/ serial_write_read \/ serial_write_take \/ serial_write_none
         \/ serial_write_byte \/ serial_write_return
  PROVE  ScreenInv'
<1>1. writers # <<>> /\ Running.at \in {"read", "take", "send"} /\ Running.at \in Outside
  BY DEF Outside, serial_write_read, serial_write_take, take, serial_write_none, serial_write_byte,
         serial_write_return, finish, At
<1>2. /\ Running \in Writer /\ Running.outs = 0 /\ ~Running.torn
      /\ {"read", "take", "send", "put"} \subseteq Outside \ {"cursor"}
      /\ {"read", "take", "send", "put"} \subseteq Place
  BY <1>1, RunningCursor, Places DEF CursorOf, Outside
<1>3. \E w \in Writer : Goes(w) /\ w.at \in Outside \ {"cursor"} /\ w.outs = 0 /\ ~w.torn
  <2>1. serial_default_port_ \in Ports \cup {0}
    BY DEF TypeInv
  <2>2. CASE serial_write_read
    <3>1. PICK w : w = [Running EXCEPT !.at = "take", !.com = serial_default_port_]
      OBVIOUS
    <3>2. w \in Writer /\ w.at \in Outside \ {"cursor"} /\ w.outs = 0 /\ ~w.torn
      BY <1>1, <1>2, <2>1, <3>1 DEF Writer
    <3>3. Goes(w)
      BY <2>2, <3>1 DEF serial_write_read
    <3>. QED
      BY <3>2, <3>3
  <2>3. CASE serial_write_take
    BY <1>2, <2>3 DEF serial_write_take, take, Writer
  <2>4. CASE serial_write_none
    BY <1>2, <2>4 DEF serial_write_none, Writer
  <2>5. CASE serial_write_byte
    <3>1. PICK w : w = [Running EXCEPT !.bytes = @ + 1]
      OBVIOUS
    <3>2. w \in Writer /\ w.at \in Outside \ {"cursor"} /\ w.outs = 0 /\ ~w.torn
      BY <1>1, <1>2, <2>1, <3>1 DEF Writer
    <3>3. Goes(w)
      BY <2>5, <3>1 DEF serial_write_byte
    <3>. QED
      BY <3>2, <3>3
  <2>6. CASE serial_write_return
    <3>1. PICK w : w = [Running EXCEPT !.at = "put", !.bytes = 0]
      OBVIOUS
    <3>2. w \in Writer /\ w.at \in Outside \ {"cursor"} /\ w.outs = 0 /\ ~w.torn
      BY <1>1, <1>2, <2>1, <3>1 DEF Writer
    <3>3. Goes(w)
      BY <2>6, <3>1 DEF serial_write_return, finish
    <3>. QED
      BY <3>2, <3>3
  <2>. QED
    BY <2>2, <2>3, <2>4, <2>5, <2>6
<1>. QED
  BY <1>1, <1>3, ScreenOutside

\* Where no putchar is halfway nothing is left to be done.
LEMMA PendingWhole ==
  ASSUME TypeInv, writers = <<>> \/ ~Halfway(Running.at)
  PROVE  Pending = screen
<1>1. PICK b, r, k : b = screen.buffer /\ r = screen.row /\ k = screen.col
  OBVIOUS
<1>2. screen = Done(b, r, k)
  BY <1>1 DEF TypeInv, IsScreen, Done
<1>3. ASSUME writers # <<>> PROVE Rest(Running.at, b, r, k) = Done(b, r, k)
  BY <1>1, <1>3 DEF Rest, Halfway, AtCol, AtRow
<1>. QED
  BY <1>1, <1>2, <1>3 DEF Pending

\* A writer that is interrupted in its port writes is marked, and a message is
\* disturbing or finds nothing half done.
LEMMA CallScreen ==
  ASSUME TypeInv, ScreenInv, NEW str \in Messages, write(str)
  PROVE  ScreenInv'
<1>0. UNCHANGED <<screen, vga, text, placed>> /\ IsScreen(screen) /\ serial_write(str)
  BY DEF write, TypeInv
<1>1. PICK n \in Nat : n = Len(writers) /\ DOMAIN writers = 1..n /\ \A i \in 1..n : writers[i] \in Writer
  BY DEF TypeInv
<1>2. PICK new, marked :
        /\ new.at = "read" /\ new.outs = 0 /\ ~new.torn
        /\ marked = [i \in 1..n |-> [writers[i] EXCEPT !.torn = @ \/ writers[i].at = "cursor"]]
        /\ writers' = Append(marked, new)
  BY <1>0, <1>1 DEF serial_write
<1>3. Len(writers') = n + 1 /\ writers'[n + 1] = new /\ \A i \in 1..n : writers'[i] = marked[i]
  BY <1>2
<1>4. ASSUME NEW i \in 1..n
      PROVE  /\ writers'[i].at = writers[i].at /\ writers'[i].outs = writers[i].outs
             /\ writers'[i].torn = (writers[i].torn \/ writers[i].at = "cursor")
             /\ writers'[i].bytes = writers[i].bytes /\ writers'[i].str = writers[i].str
             /\ writers'[i].pos = writers[i].pos
  <2>1. writers[i] \in Writer /\ writers'[i] = [writers[i] EXCEPT !.torn = @ \/ writers[i].at = "cursor"]
    BY <1>1, <1>2, <1>3
  <2>. QED
    BY <2>1 DEF Writer
<1>5. ASSUME NEW i \in 1..(n + 1) PROVE CursorOf(writers[i], i = n + 1)'
  <2>1. CASE i = n + 1
    BY <1>2, <1>3, <2>1 DEF CursorOf, Putting
  <2>2. CASE i # n + 1
    <3>1. i \in 1..n /\ CursorOf(writers[i], i = n)
      BY <1>1, <2>2 DEF ScreenInv
    <3>. QED
      BY <1>4, <3>1 DEF CursorOf
  <2>. QED
    BY <2>1, <2>2
<1>6. ASSUME ~disturbed' PROVE ~disturbed /\ (writers = <<>> \/ ~Halfway(Running.at))
  BY <1>6 DEF write
<1>7. ASSUME ~disturbed', NEW i \in 1..(n + 1) PROVE PutOf(writers[i], i = n + 1)'
  <2>1. CASE i = n + 1
    BY <1>2, <1>3, <2>1 DEF PutOf, Later
  <2>2. CASE i # n + 1
    <3>1. i \in 1..n /\ writers # <<>> /\ PutOf(writers[i], i = n)
      BY <1>1, <1>6, <1>7, <2>2 DEF ScreenInv
    <3>2. ASSUME i = n PROVE ~Halfway(writers[i].at)
      BY <1>1, <1>6, <1>7, <3>1, <3>2 DEF Running, Last
    <3>3. writers[i].at \notin {"init", "store", "advance", "newrow", "scroll", "clear"}
      BY <3>1, <3>2 DEF PutOf, Halfway
    <3>4. Ready' = Ready /\ text' = text
      BY <1>0 DEF Ready
    <3>. QED
      BY <1>4, <2>2, <3>1, <3>3, <3>4 DEF PutOf
  <2>. QED
    BY <2>1, <2>2
<1>8. ASSUME ~disturbed' PROVE ShownInv'
  <2>1. Pending = screen
    BY <1>0, <1>6, <1>8, PendingWhole
  <2>2. Pending' = screen
    <3>1. writers' # <<>> /\ Last(writers') = new
      BY <1>2, <1>3 DEF Last
    <3>2. Pending' = Rest("read", screen.buffer, screen.row, screen.col)
      BY <1>0, <1>2, <3>1 DEF Pending, Running
    <3>. QED
      BY <1>0, <3>2, RestOutside DEF Outside
  <2>. QED
    BY <1>0, <1>6, <1>8, <2>1, <2>2 DEF ScreenInv, ShownInv
<1>9. TextInv' /\ vga' \in [index : 14..15, register : [14..15 -> Int]]
  BY <1>0 DEF ScreenInv, TextInv
<1>. QED
  BY <1>3, <1>5, <1>7, <1>8, <1>9 DEF ScreenInv

\* A writer that was interrupted goes on, marked, and where it was.
LEMMA ReturnScreen ==
  ASSUME TypeInv, ScreenInv, write_return
  PROVE  ScreenInv'
<1>1. writers # <<>> /\ Running.at = "put" /\ writers' = Front(writers) /\ UNCHANGED console
  BY DEF write_return, At
<1>0. UNCHANGED <<screen, vga, text, placed, disturbed>> /\ IsScreen(screen)
  BY <1>1 DEF console, TypeInv
<1>2. PICK n \in Nat : /\ Len(writers) = n + 1 /\ Len(writers') = n
                       /\ \A i \in 1..n : writers'[i] = writers[i]
  <2>1. PICK m \in Nat \ {0} : m = Len(writers)
    BY <1>1, RunningIsWriter
  <2>2. Len(Front(writers)) = m - 1 /\ \A i \in 1..(m - 1) : Front(writers)[i] = writers[i]
    BY <2>1 DEF TypeInv, Front
  <2>3. PICK n \in Nat : m = n + 1 /\ n = m - 1
    BY <2>1
  <2>. QED
    BY <1>1, <2>1, <2>2, <2>3
<1>3. ASSUME NEW i \in 1..n PROVE CursorOf(writers[i], i = n)'
  <2>1. i \in 1..(n + 1) /\ i # n + 1
    OBVIOUS
  <2>2. CursorOf(writers[i], i = n + 1)
    BY <1>2, <2>1 DEF ScreenInv
  <2>. QED
    BY <1>2, <2>1, <2>2 DEF CursorOf
<1>4. ASSUME ~disturbed, NEW i \in 1..n
      PROVE  /\ PutOf(writers[i], i = n)'
             /\ writers[i].at \notin {"init", "store", "advance", "newrow", "scroll", "clear"}
  <2>1. i \in 1..(n + 1) /\ i # n + 1
    OBVIOUS
  <2>2. PutOf(writers[i], i = n + 1)
    BY <1>2, <1>4, <2>1 DEF ScreenInv
  <2>3. Ready' = Ready /\ text' = text
    BY <1>0 DEF Ready
  <2>. QED
    BY <1>2, <2>1, <2>2, <2>3 DEF PutOf
<1>5. ASSUME ~disturbed PROVE ShownInv'
  <2>1. Pending = screen
    BY <1>1, PendingWhole DEF Halfway
  <2>2. screen.row \in Rows /\ screen.col \in Columns
    BY <1>5, <2>1, OriginIs DEF ScreenInv, ShownInv, TextInv
  <2>3. screen.row # MAX_ROWS /\ screen.col # MAX_COLS
    BY <2>2, Sizes DEF Rows, Columns
  <2>4. Pending' = screen
    <3>1. CASE n = 0
      <4>1. writers' = <<>>
        BY <1>1, <1>2, <3>1 DEF TypeInv, Front
      <4>. QED
        BY <1>0, <4>1 DEF Pending
    <3>2. CASE n # 0
      <4>1. n \in 1..n /\ writers' # <<>> /\ Last(writers') = writers[n]
        BY <1>2, <3>2 DEF Last
      <4>2. Pending' = Rest(writers[n].at, screen.buffer, screen.row, screen.col)
        BY <1>0, <4>1 DEF Pending, Running
      <4>3. Pending' = Done(screen.buffer, screen.row, screen.col)
        BY <1>4, <1>5, <2>3, <4>1, <4>2 DEF Rest, AtRow, AtCol
      <4>. QED
        BY <1>0, <4>3 DEF Done, IsScreen
    <3>. QED
      BY <3>1, <3>2
  <2>. QED
    BY <1>0, <1>5, <2>1, <2>4 DEF ScreenInv, ShownInv
<1>6. TextInv' /\ vga' \in [index : 14..15, register : [14..15 -> Int]]
  BY <1>0 DEF ScreenInv, TextInv
<1>. QED
  BY <1>0, <1>2, <1>3, <1>4, <1>5, <1>6 DEF ScreenInv

\* What a step of putchar makes of the running writer and of the screen.
LEMMA GotoIs ==
  ASSUME TypeInv, ScreenInv, writers # <<>>, NEW there \in Putting, NEW pos \in Int, NEW s, Goto(there, pos, s),
         Running.at \in Putting \ {"cursor"}, Running.bytes < Len(Running.str),
         there = "cursor" => pos = Position'
  PROVE  \E w \in Writer : /\ Goes(w) /\ w.at = there /\ w.pos = pos
                           /\ w.bytes = Running.bytes /\ w.str = Running.str
                           /\ CursorOf(w, TRUE)'
<1>1. /\ screen' = s /\ UNCHANGED <<vga, disturbed>>
      /\ Goes([Running EXCEPT !.at = there, !.pos = pos])
  BY DEF Goto
<1>2. Running \in Writer /\ CursorOf(Running, TRUE) /\ there \in Place
  BY RunningCursor, Places
<1>3. PICK w \in Writer : /\ Goes(w) /\ w.at = there /\ w.pos = pos
                          /\ w.bytes = Running.bytes /\ w.str = Running.str
                          /\ w.outs = Running.outs /\ w.torn = Running.torn
  <2>1. PICK w : w = [Running EXCEPT !.at = there, !.pos = pos]
    OBVIOUS
  <2>2. /\ w \in Writer /\ w.at = there /\ w.pos = pos /\ w.bytes = Running.bytes /\ w.str = Running.str
        /\ w.outs = Running.outs /\ w.torn = Running.torn
    BY <1>2, <2>1 DEF Writer
  <2>. QED
    BY <1>1, <2>1, <2>2
<1>4. w.outs = 0 /\ ~w.torn
  BY <1>2, <1>3 DEF CursorOf
<1>5. CursorOf(w, TRUE)'
  <2>1. there = "cursor" => Placing(w)'
    BY <1>3, <1>4 DEF Placing
  <2>. QED
    BY <1>3, <1>4, <2>1 DEF CursorOf
<1>. QED
  BY <1>3, <1>5

\* A step that the lines do not show.
LEMMA StepScreen ==
  ASSUME TypeInv, ScreenInv, NEW here \in Putting \ {"cursor"}, NEW there \in Putting, NEW pos \in Int, NEW s,
         step(here, there, pos, s), Running.bytes < Len(Running.str),
         there = "cursor" => pos = Position',
         ~disturbed => /\ ScreenFor(Rest(there, s.buffer, s.row, s.col), LinesOf[text])
                       /\ Rest(there, s.buffer, s.row, s.col).row = Pending.row
                       /\ Rest(there, s.buffer, s.row, s.col).col = Pending.col
                       /\ there \in {"show", "store"} => Ready'
                       /\ there \in Later => text # <<>>
                       /\ there = "init" => Origin'
                       /\ there = "store" => pos = Position' /\ Char # NEWLINE
                       /\ Ready => Ready'
  PROVE  ScreenInv'
<1>1. /\ writers # <<>> /\ Running.at = here /\ Running.at \in Putting \ {"cursor"}
      /\ Goto(there, pos, s) /\ UNCHANGED <<text, placed>>
  BY DEF step, At
<1>2. PICK w \in Writer : /\ Goes(w) /\ w.at = there /\ w.pos = pos
                          /\ w.bytes = Running.bytes /\ w.str = Running.str
                          /\ CursorOf(w, TRUE)'
  BY <1>1, GotoIs
<1>3. /\ screen' = s /\ UNCHANGED <<vga, disturbed>>
      /\ Pending' = Rest(there, s.buffer, s.row, s.col)
  <2>1. screen' = s /\ UNCHANGED <<vga, disturbed>>
    BY <1>1 DEF Goto
  <2>. QED
    BY <1>1, <1>2, <2>1, GoesOn
<1>4. TextInv' /\ vga' \in [index : 14..15, register : [14..15 -> Int]]
  BY <1>1, <1>3 DEF ScreenInv, TextInv
<1>5. ~disturbed => ShownInv'
  BY <1>1, <1>3 DEF ScreenInv, ShownInv
<1>6. ASSUME ~disturbed PROVE PutOf(w, TRUE)'
  <2>1. text' = text /\ w.str[w.bytes + 1] = Char
    BY <1>1, <1>2 DEF Char
  <2>2. /\ w.at \in {"show", "store"} => Ready'
        /\ w.at \in Later => text # <<>>
        /\ w.at = "init" => Origin'
        /\ w.at = "store" => w.pos = Position' /\ Char # NEWLINE
    BY <1>2, <1>6
  <2>. QED
    BY <2>1, <2>2 DEF PutOf
<1>. QED
  BY <1>1, <1>3, <1>2, <1>4, <1>5, <1>6, TopScreen

LEMMA CharIs ==
  ASSUME Running \in Writer, Running.bytes < Len(Running.str)
  PROVE  Char \in Chars \cup {NEWLINE}
<1>1. Running.str \in Text /\ Running.bytes \in Nat
  BY WriteAssumption DEF Writer, Text
<1>2. Running.bytes + 1 \in 1..Len(Running.str)
  BY <1>1 DEF Text
<1>. QED
  BY <1>1, <1>2 DEF Text, Char

\* A step that puts a character on the screen.
LEMMA TypesScreen ==
  ASSUME TypeInv, ScreenInv, NEW here \in {"show", "store"}, NEW there \in Later, NEW s,
         types(here, there, s),
         ~disturbed => ScreenFor(Rest(there, s.buffer, s.row, s.col), Typed(LinesOf[text], Char))
  PROVE  ScreenInv'
<1>1. writers # <<>> /\ Running.at = here /\ Goto(there, 0, s) /\ text' = Append(text, Char) /\ ~placed'
  BY DEF types, At
<1>2. /\ Running \in Writer /\ Running.at \in Putting \ {"cursor"}
      /\ there \in Putting /\ there # "cursor" /\ 0 \in Int
  BY <1>1, RunningCursor DEF Putting, Later
<1>3. Running.bytes < Len(Running.str)
  BY <1>1, <1>2, RunningCursor DEF CursorOf, Putting
<1>4. PICK w \in Writer : /\ Goes(w) /\ w.at = there /\ CursorOf(w, TRUE)'
  BY <1>1, <1>2, <1>3, GotoIs
<1>5. /\ screen' = s /\ UNCHANGED <<vga, disturbed>>
      /\ Pending' = Rest(there, s.buffer, s.row, s.col)
  <2>1. screen' = s /\ UNCHANGED <<vga, disturbed>>
    BY <1>1 DEF Goto
  <2>. QED
    BY <1>1, <1>4, <2>1, GoesOn
<1>6. Char \in Chars \cup {NEWLINE}
  BY <1>2, <1>3, CharIs
<1>7. /\ text' \in Text /\ text' # <<>> /\ LinesOf[text'] = Typed(LinesOf[text], Char)
      /\ AreLines(LinesOf[text'])
      /\ LinesOf[text'] # << <<>> >>
  <2>1. text \in Text /\ AreLines(LinesOf[text])
    BY DEF ScreenInv, TextInv
  <2>2. text' \in Text /\ text' # <<>>
    BY <1>1, <1>6, <2>1 DEF Text
  <2>3. LinesOf[text'] = Typed(LinesOf[text], Char)
    BY <1>1, <1>6, <2>1, LinesStep
  <2>. QED
    BY <1>6, <2>1, <2>2, <2>3, TypedLines
<1>8. TextInv' /\ vga' \in [index : 14..15, register : [14..15 -> Int]]
  BY <1>5, <1>7 DEF ScreenInv, TextInv
<1>9. ~disturbed => ShownInv'
  BY <1>1, <1>5, <1>7 DEF ShownInv
<1>10. Ready' /\ (~disturbed => PutOf(w, TRUE)')
  BY <1>4, <1>7 DEF PutOf, Ready, Later
<1>. QED
  BY <1>1, <1>5, <1>4, <1>7, <1>8, <1>9, <1>10, TopScreen

\* What is known in the middle of a putchar.
LEMMA PutcharIs ==
  ASSUME TypeInv, ScreenInv, NEW here \in Putting \ {"cursor"}, At(here)
  PROVE  /\ writers # <<>> /\ Running.at = here /\ Running \in Writer
         /\ here # "put" => Running.bytes < Len(Running.str)
         /\ Pending = Rest(here, screen.buffer, screen.row, screen.col)
         /\ ~disturbed => ScreenFor(Pending, LinesOf[text]) /\ PutOf(Running, TRUE)
<1>1. writers # <<>> /\ Running.at = here
  BY DEF At
<1>2. Running \in Writer /\ CursorOf(Running, TRUE) /\ (~disturbed => PutOf(Running, TRUE))
  BY <1>1, RunningCursor
<1>3. here # "put" => Running.bytes < Len(Running.str)
  BY <1>1, <1>2 DEF CursorOf
<1>4. Pending = Rest(here, screen.buffer, screen.row, screen.col)
  BY <1>1 DEF Pending
<1>5. ~disturbed => ScreenFor(Pending, LinesOf[text])
  BY DEF ScreenInv, ShownInv
<1>. QED
  BY <1>1, <1>2, <1>3, <1>4, <1>5

\* A step after the store: less is left to be done, and it ends the same.
LEMMA LaterScreen ==
  ASSUME TypeInv, ScreenInv, NEW here \in Later, NEW there \in Later \cup {"cursor"}, NEW pos \in Int, NEW s,
         step(here, there, pos, s), there = "cursor" => pos = s.row * MAX_COLS + s.col,
         Rest(there, s.buffer, s.row, s.col) = Rest(here, screen.buffer, screen.row, screen.col)
  PROVE  ScreenInv'
<1>1. /\ here \in Putting \ {"cursor"} /\ here # "put" /\ there \in Putting
      /\ there \notin {"init", "show", "store"} /\ here \notin {"init", "show", "store"}
  BY DEF Later, Putting
<1>2. At(here) /\ screen' = s
  BY DEF step, Goto
<1>3. /\ Running.at = here /\ Running.bytes < Len(Running.str)
      /\ Pending = Rest(here, screen.buffer, screen.row, screen.col)
      /\ ~disturbed => ScreenFor(Pending, LinesOf[text]) /\ PutOf(Running, TRUE)
  BY <1>1, <1>2, PutcharIs
<1>4. there = "cursor" => pos = Position'
  BY <1>2 DEF Position
<1>5. ~disturbed => text # <<>> /\ (Ready => Ready')
  <2>1. text' = text
    BY DEF step
  <2>. QED
    BY <1>3, <2>1 DEF PutOf, Ready
<1>6. ~disturbed => /\ ScreenFor(Rest(there, s.buffer, s.row, s.col), LinesOf[text])
                    /\ Rest(there, s.buffer, s.row, s.col).row = Pending.row
                    /\ Rest(there, s.buffer, s.row, s.col).col = Pending.col
  BY <1>3
<1>. QED
  BY <1>1, <1>3, <1>4, <1>5, <1>6, StepScreen

\* The steps after the store.
LEMMA AfterStore ==
  ASSUME TypeInv, ScreenInv,
         \/ advance_ \/ advance_test
         \/ new_line_ \/ new_line_test \/ new_line_scroll \/ new_line_clear
  PROVE  ScreenInv'
<1>0. PICK b, r, k : b = screen.buffer /\ r = screen.row /\ k = screen.col
  OBVIOUS
<1>1. screen = [buffer |-> b, row |-> r, col |-> k] /\ r \in Int /\ k \in Int
  BY <1>0 DEF TypeInv, IsScreen
<1>2. PICK pos \in Int : pos = Position /\ pos = r * MAX_COLS + k
  BY <1>0, <1>1, ConsoleAssumption DEF Position
<1>3. /\ "advance" \in Later /\ "wrap" \in Later /\ "newrow" \in Later /\ "full" \in Later
      /\ "scroll" \in Later /\ "clear" \in Later /\ "cursor" \notin Later
      /\ Later \subseteq Later \cup {"cursor"} /\ "cursor" \in Later \cup {"cursor"} /\ 0 \in Int
  BY DEF Later
<1>4. CASE advance_
  <2>1. PICK s : s = [screen EXCEPT !.col = @ + 1]
    OBVIOUS
  <2>2. s.buffer = b /\ s.row = r /\ s.col = k + 1
    BY <1>1, <2>1
  <2>3. Rest("wrap", s.buffer, s.row, s.col) = Rest("advance", screen.buffer, screen.row, screen.col)
    BY <1>0, <2>2 DEF Rest
  <2>4. step("advance", "wrap", 0, s)
    BY <1>4, <2>1 DEF advance_
  <2>. QED
    BY <1>3, <2>3, <2>4, LaterScreen
<1>5. CASE advance_test /\ k = MAX_COLS
  <2>1. PICK s : s = [screen EXCEPT !.col = 0]
    OBVIOUS
  <2>2. s.buffer = b /\ s.row = r /\ s.col = 0
    BY <1>1, <2>1
  <2>3. Rest("newrow", s.buffer, s.row, s.col) = Rest("wrap", screen.buffer, screen.row, screen.col)
    BY <1>0, <1>5, <2>2 DEF Rest, AtCol
  <2>4. step("wrap", "newrow", 0, s)
    BY <1>0, <1>5, <2>1 DEF advance_test
  <2>. QED
    BY <1>3, <2>3, <2>4, LaterScreen
<1>6. CASE advance_test /\ k # MAX_COLS
  <2>1. Rest("cursor", screen.buffer, screen.row, screen.col) = Rest("wrap", screen.buffer, screen.row, screen.col)
    BY <1>0, <1>6 DEF Rest, AtCol
  <2>2. step("wrap", "cursor", pos, screen) /\ pos = screen.row * MAX_COLS + screen.col
    BY <1>0, <1>2, <1>6 DEF advance_test
  <2>. QED
    BY <1>3, <2>1, <2>2, LaterScreen
<1>7. CASE new_line_
  <2>1. PICK s : s = [screen EXCEPT !.row = @ + 1]
    OBVIOUS
  <2>2. s.buffer = b /\ s.row = r + 1 /\ s.col = k
    BY <1>1, <2>1
  <2>3. Rest("full", s.buffer, s.row, s.col) = Rest("newrow", screen.buffer, screen.row, screen.col)
    BY <1>0, <2>2 DEF Rest
  <2>4. step("newrow", "full", 0, s)
    BY <1>7, <2>1 DEF new_line_
  <2>. QED
    BY <1>3, <2>3, <2>4, LaterScreen
<1>8. CASE new_line_test /\ r = MAX_ROWS
  <2>1. Rest("scroll", screen.buffer, screen.row, screen.col) = Rest("full", screen.buffer, screen.row, screen.col)
    BY <1>0, <1>8 DEF Rest, AtRow
  <2>2. step("full", "scroll", 0, screen)
    BY <1>0, <1>8 DEF new_line_test
  <2>. QED
    BY <1>3, <2>1, <2>2, LaterScreen
<1>9. CASE new_line_test /\ r # MAX_ROWS
  <2>1. Rest("cursor", screen.buffer, screen.row, screen.col) = Rest("full", screen.buffer, screen.row, screen.col)
    BY <1>0, <1>9 DEF Rest, AtRow
  <2>2. step("full", "cursor", pos, screen) /\ pos = screen.row * MAX_COLS + screen.col
    BY <1>0, <1>2, <1>9 DEF new_line_test
  <2>. QED
    BY <1>3, <2>1, <2>2, LaterScreen
<1>10. CASE new_line_scroll
  <2>1. PICK s : s = scroll
    OBVIOUS
  <2>2. s.buffer = MovedUp(b) /\ s.row = r /\ s.col = k
    BY <1>1, <2>1 DEF scroll, move_up, MovedUp
  <2>3. Rest("clear", s.buffer, s.row, s.col) = Rest("scroll", screen.buffer, screen.row, screen.col)
    BY <1>0, <2>2 DEF Rest
  <2>4. step("scroll", "clear", 0, s)
    BY <1>10, <2>1 DEF new_line_scroll
  <2>. QED
    BY <1>3, <2>3, <2>4, LaterScreen
<1>11. CASE new_line_clear
  <2>1. PICK s : s = clear_row(r - 1)
    OBVIOUS
  <2>2. s.buffer = Cleared(b, r - 1) /\ s.row = r - 1 /\ s.col = k
    BY <1>0, <2>1 DEF clear_row, Cleared
  <2>3. Rest("cursor", s.buffer, s.row, s.col) = Rest("clear", screen.buffer, screen.row, screen.col)
    BY <1>0, <2>2 DEF Rest
  <2>4. PICK p \in Int : p = (r - 1) * MAX_COLS + k
    BY <1>1, ConsoleAssumption
  <2>5. step("clear", "cursor", p, s) /\ p = s.row * MAX_COLS + s.col
    BY <1>0, <1>11, <2>1, <2>2, <2>4 DEF new_line_clear
  <2>. QED
    BY <1>3, <2>3, <2>5, LaterScreen
<1>. QED
  BY <1>4, <1>5, <1>6, <1>7, <1>8, <1>9, <1>10, <1>11

\* The steps up to it.
LEMMA UpToStore ==
  ASSUME TypeInv, ScreenInv,
         putchar_first \/ putchar_init \/ putchar_newline \/ putchar_cell \/ putchar_store
  PROVE  ScreenInv'
<1>0. PICK b, r, k : b = screen.buffer /\ r = screen.row /\ k = screen.col
  OBVIOUS
<1>1. screen = [buffer |-> b, row |-> r, col |-> k] /\ r \in Int /\ k \in Int /\ IsScreen(screen)
  BY <1>0 DEF TypeInv, IsScreen
<1>2. PICK L : L = LinesOf[text]
  OBVIOUS
<1>3. AreLines(L) /\ (text # <<>> => L # << <<>> >>) /\ (text = <<>> => L = << <<>> >>)
  BY <1>2, LinesStep DEF ScreenInv, TextInv
<1>4. /\ "put" \in Putting \ {"cursor"} /\ "init" \in Putting \ {"cursor"} /\ "show" \in Putting \ {"cursor"}
      /\ "store" \in Putting \ {"cursor"} /\ "init" \notin Later /\ "show" \notin Later /\ "store" \notin Later
      /\ "newrow" \in Later /\ "advance" \in Later /\ 0 \in Int /\ Position \in Int
  BY <1>0, <1>1, ConsoleAssumption DEF Putting, Later, Position
<1>5. ASSUME NEW here \in {"put", "init", "show", "store"}, At(here)
      PROVE  /\ writers # <<>> /\ Running.at = here /\ Running \in Writer /\ here \in Putting \ {"cursor"}
             /\ here # "put" => Running.bytes < Len(Running.str)
             /\ Pending = screen
             /\ ~disturbed => ScreenFor(screen, L) /\ PutOf(Running, TRUE)
  <2>1. here \in Putting \ {"cursor"} /\ here \in Outside \cup {"init", "show", "store"}
    BY <1>4, <1>5 DEF Outside
  <2>2. Rest(here, screen.buffer, screen.row, screen.col) = screen
    BY <1>1, <2>1, RestOutside
  <2>. QED
    BY <1>2, <1>5, <2>1, <2>2, PutcharIs
<1>6. ASSUME NEW here \in {"show", "store"}, At(here), ~disturbed
      PROVE  ScreenIs(screen, L)
  <2>1. ScreenFor(screen, L) /\ Ready
    BY <1>5, <1>6 DEF PutOf
  <2>. QED
    BY <1>3, <2>1 DEF ScreenFor, Ready
<1>7. ASSUME NEW here \in {"put", "init", "show"}, NEW there \in {"init", "show", "store"}, NEW pos \in Int,
             step(here, there, pos, screen), Running.bytes < Len(Running.str),
             ~disturbed => /\ there \in {"show", "store"} => Ready
                           /\ there = "init" => Origin
                           /\ there = "store" => pos = Position /\ Char # NEWLINE
      PROVE  ScreenInv'
  <2>1. At(here) /\ screen' = screen /\ text' = text
    BY <1>7 DEF step, Goto
  <2>2. Ready' = Ready /\ Origin' = Origin /\ Position' = Position
    BY <2>1 DEF Ready, Origin, Position
  <2>3. Rest(there, screen.buffer, screen.row, screen.col) = screen
    BY <1>1, <1>7, RestOutside
  <2>4. there \in Putting /\ there \notin Later /\ there # "cursor" /\ here \in Putting \ {"cursor"}
    BY <1>4, <1>7
  <2>5. Pending = screen /\ (~disturbed => ScreenFor(screen, LinesOf[text]))
    BY <1>2, <1>5, <1>7, <2>1
  <2>. QED
    BY <1>7, <2>2, <2>3, <2>4, <2>5, StepScreen
<1>8. CASE putchar_first
  <2>1. At("put") /\ Running.bytes < Len(Running.str)
    BY <1>8 DEF putchar_first
  <2>2. CASE Origin
    <3>1. step("put", "init", 0, screen)
      BY <1>8, <2>2 DEF putchar_first
    <3>. QED
      BY <1>4, <1>7, <2>1, <2>2, <3>1
  <2>3. CASE ~Origin
    <3>1. step("put", "show", 0, screen)
      BY <1>8, <2>3 DEF putchar_first
    <3>2. ASSUME ~disturbed PROVE Ready
      <4>1. ScreenFor(screen, L)
        BY <1>5, <2>1, <3>2
      <4>2. L # << <<>> >>
        BY <1>3, <2>3, <4>1, OriginIs DEF Origin
      <4>. QED
        BY <1>3, <4>2 DEF Ready
    <3>. QED
      BY <1>4, <1>7, <2>1, <3>1, <3>2
  <2>. QED
    BY <2>2, <2>3
<1>9. CASE putchar_init
  <2>1. step("init", "show", 0, init_buffer_) /\ At("init") /\ screen' = init_buffer_ /\ text' = text
    BY <1>9 DEF putchar_init, step, Goto
  <2>2. Rest("show", init_buffer_.buffer, init_buffer_.row, init_buffer_.col) = init_buffer_
    BY DEF Rest, Done, init_buffer_
  <2>3. ASSUME ~disturbed PROVE L = << <<>> >> /\ ScreenIs(init_buffer_, L) /\ Origin
    <3>1. ScreenFor(screen, L) /\ Origin
      BY <1>5, <2>1, <2>3 DEF PutOf
    <3>. QED
      BY <1>3, <3>1, InitIs
  <2>4. ASSUME ~disturbed PROVE Ready'
    BY <2>1, <2>3, <2>4 DEF Ready
  <2>5. ~disturbed => ScreenFor(init_buffer_, LinesOf[text])
    BY <1>2, <2>3 DEF ScreenFor
  <2>6. ASSUME ~disturbed PROVE init_buffer_.row = Pending.row /\ init_buffer_.col = Pending.col
    BY <1>5, <2>1, <2>3, <2>6 DEF init_buffer_, Origin
  <2>7. Running.bytes < Len(Running.str)
    BY <1>5, <2>1
  <2>. QED
    BY <1>4, <2>1, <2>2, <2>4, <2>5, <2>6, <2>7, StepScreen
<1>10. CASE putchar_newline
  <2>1. PICK s : s = [screen EXCEPT !.col = 0]
    OBVIOUS
  <2>2. types("show", "newrow", s) /\ Char = NEWLINE /\ At("show")
    BY <1>10, <2>1 DEF putchar_newline
  <2>3. s.buffer = b /\ s.row = r /\ s.col = 0
    BY <1>1, <2>1
  <2>4. Rest("newrow", s.buffer, s.row, s.col) = AtRow(b, r + 1, 0)
    BY <2>3 DEF Rest
  <2>5. ASSUME ~disturbed PROVE ScreenFor(AtRow(b, r + 1, 0), Typed(L, Char))
    <3>1. ScreenIs(screen, L)
      BY <1>6, <2>2, <2>5
    <3>2. r = Row(L) /\ Shows(b, L)
      BY <1>0, <3>1 DEF ScreenIs
    <3>3. ScreenIs(AtRow(b, r + 1, 0), Append(L, <<>>))
      BY <1>3, <3>2, NewLineIs DEF AreLines
    <3>. QED
      BY <2>2, <3>3 DEF Typed, ScreenFor
  <2>. QED
    BY <1>2, <1>4, <2>2, <2>4, <2>5, TypesScreen
<1>11. CASE putchar_cell
  <2>1. At("show") /\ Char # NEWLINE /\ step("show", "store", Position, screen)
    BY <1>11 DEF putchar_cell
  <2>2. Running.bytes < Len(Running.str) /\ (~disturbed => Ready)
    BY <1>5, <2>1 DEF PutOf
  <2>. QED
    BY <1>4, <1>7, <2>1, <2>2
<1>12. CASE putchar_store
  <2>1. PICK s : s = store(Running.pos, Char)
    OBVIOUS
  <2>2. types("store", "advance", s) /\ At("store")
    BY <1>12, <2>1 DEF putchar_store, types
  <2>3. s.buffer = Stored(b, Running.pos, Char) /\ s.row = r /\ s.col = k
    BY <1>0, <1>1, <2>1 DEF store, Stored
  <2>4. Rest("advance", s.buffer, s.row, s.col) = AtCol(Stored(b, Running.pos, Char), r, k + 1)
    BY <2>3 DEF Rest
  <2>5. ASSUME ~disturbed PROVE ScreenFor(AtCol(Stored(b, Running.pos, Char), r, k + 1), Typed(L, Char))
    <3>1. ScreenIs(screen, L)
      BY <1>6, <2>2, <2>5
    <3>2. r = Row(L) /\ k = Len(L[Len(L)]) /\ Shows(b, L)
      <4>1. screen = [buffer |-> screen.buffer, row |-> Row(L), col |-> Len(L[Len(L)])]
        BY <3>1 DEF ScreenIs
      <4>2. screen.row = Row(L) /\ screen.col = Len(L[Len(L)])
        BY <4>1
      <4>. QED
        BY <1>0, <3>1, <4>2 DEF ScreenIs
    <3>3. Running.pos = Position /\ Char # NEWLINE
      BY <1>5, <2>2, <2>5 DEF PutOf, Char
    <3>4. Running.pos = Row(L) * MAX_COLS + k
      BY <1>0, <3>2, <3>3 DEF Position
    <3>5. Char \in Chars
      BY <1>5, <2>2, <3>3, CharIs
    <3>6. ScreenIs(AtCol(Stored(b, Running.pos, Char), Row(L), k + 1), Typed(L, Char))
      BY <1>3, <3>2, <3>4, <3>5, PutIs
    <3>. QED
      BY <3>2, <3>6 DEF ScreenFor
  <2>. QED
    BY <1>2, <1>4, <2>2, <2>4, <2>5, TypesScreen
<1>. QED
  BY <1>8, <1>9, <1>10, <1>11, <1>12

LEMMA PutcharScreen == ASSUME TypeInv, ScreenInv, putchar_step PROVE ScreenInv'
  BY UpToStore, AfterStore DEF putchar_step

\* A port write of the cursor: the fourth leaves both registers right, unless
\* another writer has written them since the first.
LEMMA CursorScreen ==
  ASSUME TypeInv, ScreenInv, write_cursor
  PROVE  ScreenInv'
<1>1. PICK w \in Writer : w = Running
  BY RunningCursor DEF write_cursor, At
<1>2. writers # <<>> /\ w.at = "cursor" /\ w.outs \in 0..3 /\ (w.torn \/ Placing(w))
  BY <1>1, RunningCursor DEF write_cursor, At, CursorOf
<1>3. PICK p \in Int, hi \in Int, lo \in Int : /\ p = w.pos /\ hi = p \div 256 /\ lo = p % 256
                                              /\ 256 * hi + lo = p
  <2>1. w.pos \in Int
    BY DEF Writer
  <2>2. w.pos \div 256 \in Int /\ w.pos % 256 \in Int /\ 256 * (w.pos \div 256) + (w.pos % 256) = w.pos
    BY <2>1
  <2>. QED
    BY <2>2
<1>4. PICK outs : outs = << <<"index", 14>>, <<"data", hi>>, <<"index", 15>>, <<"data", lo>> >>
  OBVIOUS
<1>5. /\ outb(outs[w.outs + 1])
      /\ w.outs = 3 => /\ Goes([w EXCEPT !.at = "put", !.bytes = @ + 1, !.outs = 0, !.torn = FALSE])
                       /\ placed' <=> ~w.torn
      /\ w.outs # 3 => Goes([w EXCEPT !.outs = @ + 1]) /\ ~placed'
  <2>1. Len(outs) = 4 /\ outs = move_cursor_(w.pos)
    BY <1>3, <1>4 DEF move_cursor_
  <2>2. w.outs + 1 = 4 <=> w.outs = 3
    BY <1>2
  <2>3. outb(outs[w.outs + 1])
    BY <1>1, <2>1 DEF write_cursor
  <2>4. ASSUME w.outs = 3
        PROVE  /\ Goes([w EXCEPT !.at = "put", !.bytes = @ + 1, !.outs = 0, !.torn = FALSE])
               /\ placed' <=> ~w.torn
    BY <1>1, <2>1, <2>2, <2>4 DEF write_cursor
  <2>5. ASSUME w.outs # 3 PROVE Goes([w EXCEPT !.outs = @ + 1]) /\ ~placed'
    BY <1>1, <2>1, <2>2, <2>5 DEF write_cursor
  <2>. QED
    BY <2>3, <2>4, <2>5
<1>6. UNCHANGED <<screen, text, disturbed>> /\ Position' = Position
  BY DEF write_cursor, Position
<1>7. /\ vga \in [index : 14..15, register : [14..15 -> Int]]
      /\ vga = [index |-> vga.index, register |-> vga.register]
  BY DEF ScreenInv
<1>8. PICK i0 \in 14..15, r0 \in [14..15 -> Int] : i0 = vga.index /\ r0 = vga.register
  BY <1>7
<1>9. /\ w.outs = 0 => vga' = [index |-> 14, register |-> r0]
      /\ w.outs = 1 => vga' = [index |-> i0, register |-> [r0 EXCEPT ![i0] = hi]]
      /\ w.outs = 2 => vga' = [index |-> 15, register |-> r0]
      /\ w.outs = 3 => vga' = [index |-> i0, register |-> [r0 EXCEPT ![i0] = lo]]
  <2>1. /\ w.outs = 0 => outs[w.outs + 1] = <<"index", 14>>
        /\ w.outs = 1 => outs[w.outs + 1] = <<"data", hi>>
        /\ w.outs = 2 => outs[w.outs + 1] = <<"index", 15>>
        /\ w.outs = 3 => outs[w.outs + 1] = <<"data", lo>>
    BY <1>4
  <2>2. vga = [index |-> i0, register |-> r0]
    BY <1>7, <1>8
  <2>3. ASSUME NEW v, outb(<<"index", v>>) PROVE vga' = [index |-> v, register |-> r0]
    BY <2>2, <2>3 DEF outb
  <2>4. ASSUME NEW v, outb(<<"data", v>>) PROVE vga' = [index |-> i0, register |-> [r0 EXCEPT ![i0] = v]]
    BY <2>2, <2>4 DEF outb
  <2>5. /\ w.outs = 0 => outb(<<"index", 14>>)
        /\ w.outs = 1 => outb(<<"data", hi>>)
        /\ w.outs = 2 => outb(<<"index", 15>>)
        /\ w.outs = 3 => outb(<<"data", lo>>)
    BY <1>5, <2>1
  <2>. QED
    BY <2>3, <2>4, <2>5
<1>10. vga' \in [index : 14..15, register : [14..15 -> Int]]
  BY <1>2, <1>9
<1>11. ~w.torn => /\ p = Position
                  /\ w.outs = 1 => i0 = 14
                  /\ w.outs \in {2, 3} => r0[14] = hi
                  /\ w.outs = 3 => i0 = 15
  BY <1>2, <1>3, <1>8 DEF Placing
<1>12. placed' => 256 * vga.register[14]' + vga.register[15]' = Position'
  <2>1. ASSUME w.outs = 3, ~w.torn PROVE vga.register[14]' = hi /\ vga.register[15]' = lo
    BY <1>9, <1>11, <2>1
  <2>2. placed' => w.outs = 3 /\ ~w.torn
    BY <1>2, <1>5
  <2>. QED
    BY <1>3, <1>6, <1>11, <2>1, <2>2
<1>13. PICK x \in Writer : Goes(x) /\ CursorOf(x, TRUE)' /\ x.at \in {"put", "cursor"}
  <2>1. CASE w.outs = 3
    <3>1. PICK x : x = [w EXCEPT !.at = "put", !.bytes = @ + 1, !.outs = 0, !.torn = FALSE]
      OBVIOUS
    <3>2. x \in Writer /\ x.at = "put" /\ x.outs = 0 /\ ~x.torn
      <4>1. w \in Writer /\ w.bytes \in Nat /\ w.bytes + 1 \in Nat
        BY DEF Writer
      <4>2. x \in Writer
        BY <3>1, <4>1, Places DEF Writer
      <4>3. x.at = "put" /\ x.outs = 0 /\ x.torn = FALSE
        BY <3>1, <4>1 DEF Writer
      <4>. QED
        BY <4>2, <4>3
    <3>3. CursorOf(x, TRUE)'
      BY <3>2 DEF CursorOf, Putting
    <3>. QED
      BY <1>5, <2>1, <3>1, <3>2, <3>3
  <2>2. CASE w.outs # 3
    <3>1. PICK x : x = [w EXCEPT !.outs = @ + 1]
      OBVIOUS
    <3>2. w.outs \in 0..2 /\ w.outs + 1 \in 1..3
      BY <1>2, <2>2
    <3>3. /\ x \in Writer /\ x.at = "cursor" /\ x.outs = w.outs + 1 /\ x.pos = p /\ x.torn = w.torn
          /\ x.bytes < Len(x.str)
      <4>1. w \in Writer /\ w.outs + 1 \in Nat
        BY <3>2
      <4>2. x \in Writer
        BY <3>1, <4>1 DEF Writer
      <4>3. /\ x.at = w.at /\ x.outs = w.outs + 1 /\ x.pos = w.pos /\ x.torn = w.torn
            /\ x.bytes = w.bytes /\ x.str = w.str
        BY <3>1, <4>1 DEF Writer
      <4>4. w.bytes < Len(w.str)
        BY <1>1, <1>2, RunningCursor DEF CursorOf, Putting
      <4>. QED
        BY <1>2, <1>3, <4>2, <4>3, <4>4
    <3>4. ASSUME ~w.torn PROVE Placing(x)'
      <4>1. x.pos = Position'
        BY <1>6, <1>11, <3>3, <3>4
      <4>2. x.outs = 1 => vga.index' = 14
        BY <1>9, <3>2, <3>3
      <4>3. x.outs \in {2, 3} => vga.register[14]' = hi
        BY <1>9, <1>11, <3>2, <3>3, <3>4
      <4>4. x.outs = 3 => vga.index' = 15
        BY <1>9, <3>2, <3>3
      <4>. QED
        BY <1>3, <3>3, <4>1, <4>2, <4>3, <4>4 DEF Placing
    <3>5. CursorOf(x, TRUE)'
      BY <3>2, <3>3, <3>4 DEF CursorOf
    <3>. QED
      BY <1>5, <2>2, <3>1, <3>3, <3>5
  <2>. QED
    BY <2>1, <2>2
<1>14. Running.at = "cursor" /\ IsScreen(screen)
  BY <1>1, <1>2 DEF TypeInv
<1>15. Pending' = screen /\ Pending = screen
  <2>1. x.at \in Outside \cup {"init", "show", "store"} /\ "cursor" \in Outside \cup {"init", "show", "store"}
    BY <1>13 DEF Outside
  <2>2. /\ Rest(x.at, screen.buffer, screen.row, screen.col) = screen
        /\ Rest("cursor", screen.buffer, screen.row, screen.col) = screen
    BY <1>14, <2>1, RestOutside
  <2>3. Pending' = Rest(x.at, screen.buffer, screen.row, screen.col)
    BY <1>2, <1>6, <1>13, GoesOn
  <2>. QED
    BY <1>2, <1>14, <2>2, <2>3 DEF Pending
<1>16. ~disturbed => ShownInv'
  <2>1. ~disturbed => ScreenFor(Pending, LinesOf[text])
    BY DEF ScreenInv, ShownInv
  <2>2. ~disturbed => ScreenFor(Pending, LinesOf[text])'
    BY <1>6, <1>15, <2>1
  <2>. QED
    BY <1>6, <1>12, <1>15, <2>2 DEF ShownInv, Position
<1>17. PutOf(x, TRUE)' /\ (Ready => Ready') /\ TextInv'
  <2>1. PutOf(x, TRUE)'
    BY <1>13 DEF PutOf, Later
  <2>. QED
    BY <1>6, <2>1 DEF Ready, TextInv, ScreenInv
<1>. QED
  BY <1>2, <1>6, <1>10, <1>13, <1>16, <1>17, TopScreen

\* Nothing is written at first.
LEMMA InitScreen == Init => ScreenInv
<1> SUFFICES ASSUME Init PROVE ScreenInv
  OBVIOUS
<1>1. text = <<>> /\ text \in Text /\ LinesOf[text] = << <<>> >>
  BY LinesStep DEF Init, ConsoleInit, Text
<1>2. PICK L : L = << <<>> >>
  OBVIOUS
<1>3. AreLines(L)
  <2>1. <<>> \in Line
    BY DEF Line
  <2>2. L \in Seq(Line) /\ L # <<>>
    BY <1>2, <2>1
  <2>3. Len(L) = 1 /\ Len(L[1]) = 0
    BY <1>2
  <2>. QED
    BY <2>2, <2>3, Sizes DEF AreLines
<1>4. ScreenFor(Pending, L)
  BY <1>2 DEF Init, SerialInit, ConsoleInit, ScreenFor, Untouched, Pending
<1>5. vga \in [index : 14..15, register : [14..15 -> Int]] /\ ~placed /\ Len(writers) = 0
  BY DEF Init, ConsoleInit, SerialInit
<1>. QED
  BY <1>1, <1>2, <1>3, <1>4, <1>5 DEF ScreenInv, TextInv, ShownInv

\* A step that leaves the screen and the writers alone.
LEMMA ScreenStays ==
  ASSUME ScreenInv, UNCHANGED console, UNCHANGED writers
  PROVE  ScreenInv'
<1>1. UNCHANGED <<screen, vga, text, placed, disturbed, writers>>
  BY DEF console
<1>2. TextInv' /\ (~disturbed => ShownInv')
  BY <1>1 DEF ScreenInv, TextInv, ShownInv, Pending, Running
<1>3. ASSUME NEW i \in 1..Len(writers)
      PROVE  CursorOf(writers[i], i = Len(writers))' /\ (~disturbed => PutOf(writers[i], i = Len(writers))')
  <2>1. CursorOf(writers[i], i = Len(writers)) /\ (~disturbed => PutOf(writers[i], i = Len(writers)))
    BY DEF ScreenInv
  <2>2. CursorOf(writers[i], i = Len(writers))'
    BY <1>1, <2>1 DEF CursorOf, Placing, Position
  <2>3. ~disturbed => PutOf(writers[i], i = Len(writers))'
    BY <1>1, <2>1 DEF PutOf, Ready, Origin, Position
  <2>. QED
    BY <2>2, <2>3
<1>. QED
  BY <1>1, <1>2, <1>3 DEF ScreenInv

\* Every step.
LEMMA NextScreen == TypeInv /\ ScreenInv /\ [Next]_vars => ScreenInv'
<1> SUFFICES ASSUME TypeInv, ScreenInv, [Next]_vars PROVE ScreenInv'
  OBVIOUS
<1>1. CASE UNCHANGED vars
  BY <1>1, ScreenStays DEF vars, serial
<1>2. CASE Setup
  BY <1>2, ScreenStays DEF Setup, serial_init_port, serial_set_default_port
<1>3. CASE \E str \in Messages : write(str)
  BY <1>3, CallScreen
<1>4. CASE serial_write_step
  BY <1>4, SerialScreen DEF serial_write_step
<1>5. CASE putchar_step
  BY <1>5, PutcharScreen
<1>6. CASE write_cursor
  BY <1>6, CursorScreen
<1>7. CASE write_return
  BY <1>7, ReturnScreen
<1>. QED
  BY <1>1, <1>2, <1>3, <1>4, <1>5, <1>6, <1>7 DEF Next

\* The cells and the cursor, read off the invariant.
LEMMA ScreenSound ==
  ASSUME TypeInv, ScreenInv
  PROVE  ScreenShowsText
<1> SUFFICES ASSUME ~disturbed, writers = <<>> \/ ~Halfway(Running.at)
             PROVE  ShowsText
  BY DEF ScreenShowsText
<1>0. Pending = screen
  BY PendingWhole
<1>1. PICK L : L = LinesOf[text]
  OBVIOUS
<1>2. AreLines(L) /\ ScreenFor(screen, L) /\ (text # <<>> => L # << <<>> >>)
  BY <1>0, <1>1 DEF ScreenInv, TextInv, ShownInv
<1>3. PICK n \in Nat \ {0} : n = Len(L) /\ L \in Seq(Line) /\ L # <<>> /\ Last(L) = L[n]
  BY <1>2 DEF AreLines, Last
<1>4. Position = (Len(L) - Above(L) - 1) * MAX_COLS + Len(Last(L))
  <2>1. CASE L = << <<>> >>
    <3>2. screen.row = 0 /\ screen.col = 0
      BY <1>2, <2>1, OriginIs
    <3>3. Len(L) = 1 /\ L[1] = <<>> /\ Len(L[1]) = 0
      BY <2>1
    <3>4. Above(L) = 0 /\ Last(L) = L[1]
      BY <1>3, <3>3, Sizes DEF Above
    <3>5. Len(L) - Above(L) - 1 = 0
      BY <3>3, <3>4
    <3>. QED
      BY <3>2, <3>3, <3>4, <3>5 DEF Position
  <2>2. CASE L # << <<>> >>
    <3>1. screen = [buffer |-> screen.buffer, row |-> Row(L), col |-> Len(L[Len(L)])]
      BY <1>2, <2>2 DEF ScreenFor, ScreenIs
    <3>2. screen.row = Row(L) /\ screen.col = Len(L[n])
      BY <1>3, <3>1
    <3>. QED
      BY <1>3, <3>2 DEF Position, Row
  <2>. QED
    BY <2>1, <2>2
<1>5. placed => 256 * vga.register[14] + vga.register[15]
                  = (Len(L) - Above(L) - 1) * MAX_COLS + Len(Last(L))
  BY <1>0, <1>4 DEF ScreenInv, ShownInv, Position
<1>6. ASSUME text # <<>>, NEW i \in Video
      PROVE  screen.buffer[i] = IF i < CellCount THEN Cell(L, i \div MAX_COLS, i % MAX_COLS) ELSE JUNK
  <2>1. Shows(screen.buffer, L)
    BY <1>2, <1>6 DEF ScreenFor, ScreenIs
  <2>2. CASE i < CellCount
    <3>1. PICK r \in Rows, k \in Columns :
             r = i \div MAX_COLS /\ k = i % MAX_COLS /\ i = MAX_COLS * r + k
      BY <2>2, IsCell
    <3>2. screen.buffer[MAX_COLS * r + k] = Cell(L, r, k)
      BY <2>1 DEF Shows
    <3>. QED
      BY <2>2, <3>1, <3>2
  <2>3. CASE ~(i < CellCount)
    BY <2>1, <2>3 DEF Shows
  <2>. QED
    BY <2>2, <2>3
<1>. QED
  BY <1>1, <1>5, <1>6 DEF ShowsText, Cell, Above

\* Whatever messages exceptions brought in, as long as none of them found a
\* putchar halfway between two stores that belong together, the screen shows the
\* last lines of everything written, nothing past it was touched, and an
\* undisturbed cursor is behind the text.
THEOREM ScreenShowsAll == Spec => []ScreenShowsText
<1>1. Init => TypeInv /\ ScreenInv
  BY InitInv, InitScreen DEF IInv
<1>2. IInv /\ ScreenInv /\ [Next]_vars => IInv' /\ ScreenInv'
  BY NextInv, NextScreen DEF IInv
<1>3. IInv /\ ScreenInv => ScreenShowsText
  BY ScreenSound DEF IInv
<1>. QED
  BY InitInv, <1>1, <1>2, <1>3, PTL DEF Spec

=============================================================================
