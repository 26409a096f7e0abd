-------------------------------- MODULE Serial --------------------------------
(***************************************************************************)
(* The serial driver, kernel/drivers/serial.c, and the configuration of a  *)
(* port, x86_serial_config_* of arch/i386/include/x86.h.                   *)
(*                                                                         *)
(* serial_write is called by write for every message logged: by the code   *)
(* and, when an exception arrives in the middle of that, by the            *)
(* exception's handler.  The handler ends before the code it interrupted   *)
(* goes on, so the writers are a stack, of which the last one runs; Write  *)
(* has the rest of it.                                                     *)
(*                                                                         *)
(* A byte is the writer, its place in the message and the message's        *)
(* length.  What the port does with it once it is in the data register is  *)
(* not modelled; the poll before it may go on at any time.                 *)
(***************************************************************************)
EXTENDS Integers, Sequences, SequencesExt

CONSTANTS
  Ports,             \* the ports asked for, as bases
  Present,           \* those whose line status is not 0xFF
  SERIAL_PORTS_MAX,
  Messages,          \* what is logged, as sequences of characters
  MaxWriters         \* bound on the messages

ASSUME SerialAssumption ==
  /\ Ports \subseteq Nat \ {0} /\ Present \subseteq Ports
  /\ SERIAL_PORTS_MAX \in Nat \ {0}
  /\ MaxWriters \in Nat

VARIABLES
  serial_ports_,         \* 0 where there is none
  serial_default_port_,  \* 0 while there is none, or it is taken
  dlab,                  \* the ports whose data register leads to the divisor
  writers,               \* the calls of write in progress
  sent,                  \* history: the bytes stored to each data register
  count,                 \* history: the number of calls so far
  chosen                 \* history: the port last made the default

ports  == <<serial_ports_, dlab>>
serial == <<ports, serial_default_port_, writers, sent, count, chosen>>

Slot == 1..SERIAL_PORTS_MAX

SerialInit ==
  /\ serial_ports_ = [i \in Slot |-> 0]
  /\ serial_default_port_ = 0
  /\ dlab = {}
  /\ writers = <<>>
  /\ sent = [com \in Ports |-> <<>>]
  /\ count = 0
  /\ chosen = 0

-----------------------------------------------------------------------------
(* Setting up. *)

\* The last write of each decides where the data register leads.
x86_serial_config_baud_rate(on, com) == on \cup {com}

x86_serial_config_line(on, com) == on \ {com}

\* Mutant: the line first.
configure_line_first(on, com) == x86_serial_config_baud_rate(x86_serial_config_line(on, com), com)

configure(on, com) == x86_serial_config_line(x86_serial_config_baud_rate(on, com), com)

\* What ends the search in serial_init_port: a free slot, or the port's own.
EndsSearch(i, com) == serial_ports_[i] \in {0, com}

\* Mutant: the search does not look for the port.
search_free(i, com) == \A j \in 1..(i - 1) : serial_ports_[j] # 0

\* The search comes as far as slot i.
search(i, com) == \A j \in 1..(i - 1) : ~EndsSearch(j, com)

\* Mutant: the status is not looked at.
answers_always(com) == TRUE

answers(com) == com \in Present

\* A port whose own slot, or no slot, ends the search is left alone.
serial_init_port(com) ==
  \E i \in Slot :
    /\ writers = <<>>
    /\ search(i, com) /\ serial_ports_[i] = 0
    /\ dlab' = configure(dlab, com)
    /\ serial_ports_' = IF answers(com)
                        THEN [serial_ports_ EXCEPT ![i] = com]
                        ELSE serial_ports_
    /\ UNCHANGED <<serial_default_port_, writers, sent, count, chosen>>

serial_set_default_port(com) ==
  /\ writers = <<>>
  /\ \E i \in Slot : serial_ports_[i] = com
  /\ serial_default_port_' = com
  /\ chosen' = com
  /\ UNCHANGED <<ports, writers, sent, count>>

-----------------------------------------------------------------------------
(* serial_write *)

\* A call of write is a record: where it is (at), the port it has (com), its
\* cursor (bytes) and its message (str); in putchar, the cell its character goes
\* to and then the cursor's (pos); in move_cursor_, the port writes done (outs)
\* and, as history, whether it was interrupted (torn).
Running == Last(writers)

At(here) == writers # <<>> /\ Running.at = here

\* The running writer goes on as w.
Goes(w) == writers' = Front(writers) \o <<w>>

\* A call: by the code, or by a handler in the middle of another one.
serial_write(str) ==
  /\ count < MaxWriters
  /\ count' = count + 1
  /\ writers' = Append([i \in DOMAIN writers |-> [writers[i] EXCEPT !.torn = @ \/ writers[i].at = "cursor"]],
                       [id |-> count + 1, at |-> "read", com |-> 0, bytes |-> 0, str |-> str,
                        pos |-> 0, outs |-> 0, torn |-> FALSE])
  /\ UNCHANGED <<ports, serial_default_port_, sent, chosen>>

serial_write_read ==
  /\ At("read")
  /\ Goes([Running EXCEPT !.at = "take", !.com = serial_default_port_])
  /\ UNCHANGED <<ports, serial_default_port_, sent, count, chosen>>

take(port) ==
  /\ At("take")
  /\ Goes([Running EXCEPT !.at = "send"])
  /\ serial_default_port_' = port
  /\ UNCHANGED <<ports, sent, count, chosen>>

\* Mutant: the port is not taken.
serial_write_share == take(serial_default_port_)

serial_write_take == take(0)

\* com == 0: no port, or another writer has it.
serial_write_none ==
  /\ At("send") /\ Running.com = 0
  /\ Goes([Running EXCEPT !.at = "put"])
  /\ UNCHANGED <<ports, serial_default_port_, sent, count, chosen>>

serial_write_byte ==
  /\ At("send") /\ Running.com # 0 /\ Running.bytes < Len(Running.str)
  /\ sent' = [sent EXCEPT ![Running.com] =
                Append(@, [id |-> Running.id, place |-> Running.bytes + 1, size |-> Len(Running.str)])]
  /\ Goes([Running EXCEPT !.bytes = @ + 1])
  /\ UNCHANGED <<ports, serial_default_port_, count, chosen>>

finish(port) ==
  /\ At("send") /\ Running.com # 0 /\ Running.bytes = Len(Running.str)
  /\ serial_default_port_' = port
  /\ Goes([Running EXCEPT !.at = "put", !.bytes = 0])
  /\ UNCHANGED <<ports, sent, count, chosen>>

\* Mutant: the port is not given back.
serial_write_keep == finish(serial_default_port_)

serial_write_return == finish(Running.com)

-----------------------------------------------------------------------------
(* Properties. *)

\* The table the searches rely on has no port twice, no gap and no port that is
\* absent.  The default port is the one last chosen or is taken, and is back
\* when the last writer has ended; one that can be taken is in the table, and
\* its data register leads to the line and not to the divisor, whatever was
\* tried with other ports since.
DefaultUsable ==
  /\ \A i, j \in Slot :
       /\ serial_ports_[i] \in Present \cup {0}
       /\ serial_ports_[i] = serial_ports_[j] => i = j \/ serial_ports_[i] = 0
       /\ i < j /\ serial_ports_[j] # 0 => serial_ports_[i] # 0
  /\ serial_default_port_ \in {0, chosen}
  /\ writers = <<>> => serial_default_port_ = chosen
  /\ serial_default_port_ # 0 =>
       /\ \E i \in Slot : serial_ports_[i] = serial_default_port_
       /\ serial_default_port_ \notin dlab

Sends(id) == \E i \in 1..Len(writers) : writers[i].id = id /\ writers[i].at = "send"

\* However handlers interrupt each other, a message goes out in one piece: after
\* each of its bytes comes its next one, unless it is being sent still.
MessagesWhole ==
  \A com \in Ports :
    LET s == sent[com]
    IN  \A k \in 1..Len(s) :
          /\ s[k].place > 1 => k > 1 /\ s[k - 1] = [s[k] EXCEPT !.place = @ - 1]
          /\ s[k].place < s[k].size =>
               IF k < Len(s) THEN s[k + 1].id = s[k].id ELSE Sends(s[k].id)

=============================================================================
