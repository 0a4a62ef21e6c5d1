----------------------------- MODULE AntiReplay -----------------------------
(***************************************************************************)
(* What one request slot of the dispatcher still admits of replies that    *)
(* are repeated, delayed and overtaken (AntiReplayWindow and dispatch() of *)
(* logic/ble_dispatcher.hpp).  The bitmap is the set of its one bits: bit  *)
(* o stands for the counter highest_counter_ - o.                          *)
(***************************************************************************)
EXTENDS Integers

CONSTANTS kWindowSize,  \* 64: bits of the bitmap
          MaxCounter    \* 2^32 - 1: the largest counter of the wire format

ASSUME ReplayAssumption == kWindowSize \in Nat \ {0} /\ MaxCounter \in Nat

Counters == 0 .. MaxCounter
Offsets == 0 .. kWindowSize - 1

VARIABLES
    used_, highest_counter_, window_,   \* AntiReplayWindow
    plaintext_count,
    admitted,     \* history: counters routed to this request
    misjudged     \* history: add() once decided otherwise than Admissible

replayVars == <<used_, highest_counter_, window_, plaintext_count, admitted,
                misjudged>>

\* register_request(): the slot begins with an unused window.
ReplayInit ==
    /\ used_ = FALSE /\ highest_counter_ = 0 /\ window_ = {}
    /\ plaintext_count = 0
    /\ admitted = {} /\ misjudged = FALSE

-----------------------------------------------------------------------------
\* The side-effect free twin of add().
is_valid(counter) ==
    \/ ~used_
    \/ counter > highest_counter_
    \/ /\ highest_counter_ - counter < kWindowSize
       /\ highest_counter_ - counter \notin window_

\* The bitmap after a jump: bits pushed out of its width are gone, and a jump
\* over the whole width clears it instead of shifting by more than it has.
Shifted(shift) ==
    IF shift >= kWindowSize THEN {0}
    ELSE {o + shift : o \in {p \in window_ : p + shift < kWindowSize}} \cup {0}

\* A slip: a counter below the window is taken for one that it has not seen.
LateWithoutLimit(counter) ==
    /\ used_ /\ counter <= highest_counter_
    /\ LET offset == highest_counter_ - counter
       IN /\ offset \notin window_
          /\ window_' = (window_ \cup {offset}) \cap Offsets
    /\ UNCHANGED <<used_, highest_counter_>>

\* The three ways in which add() admits a counter.
First(counter) ==
    /\ ~used_ /\ used_' = TRUE
    /\ highest_counter_' = counter /\ window_' = {0}
Ahead(counter) ==
    /\ used_ /\ counter > highest_counter_
    /\ highest_counter_' = counter
    /\ window_' = Shifted(counter - highest_counter_)
    /\ UNCHANGED used_
Late(counter) ==
    /\ used_ /\ counter <= highest_counter_
    /\ LET offset == highest_counter_ - counter
       IN /\ offset < kWindowSize /\ offset \notin window_
          /\ window_' = window_ \cup {offset}
    /\ UNCHANGED <<used_, highest_counter_>>

\* ... and the two in which it refuses one.
Refused(counter) ==
    /\ used_ /\ counter <= highest_counter_
    /\ LET offset == highest_counter_ - counter
       IN offset >= kWindowSize \/ offset \in window_
    /\ UNCHANGED <<used_, highest_counter_, window_>>

\* What the window should admit, told by the whole history of the request:
\* every counter that has not been admitted, unless one has been that is a
\* window's width above it.
Admissible(counter) ==
    /\ counter \notin admitted
    /\ \A a \in admitted : a - counter < kWindowSize

\* A reply with a counter is dispatched, or dropped as a replay.
Counted(counter) ==
    /\ \/ /\ First(counter) \/ Ahead(counter) \/ Late(counter)
          /\ admitted' = admitted \cup {counter}
          /\ misjudged' = (misjudged \/ ~Admissible(counter))
       \/ /\ Refused(counter)
          /\ misjudged' = (misjudged \/ Admissible(counter))
          /\ UNCHANGED admitted
    /\ UNCHANGED plaintext_count

\* Of the replies without one, only the first is.
Plaintext ==
    /\ plaintext_count = 0 /\ plaintext_count' = 1
    /\ UNCHANGED <<used_, highest_counter_, window_, admitted, misjudged>>

\* The slot is released and registered for the next request.
Registered ==
    /\ used_' = FALSE /\ highest_counter_' = 0 /\ window_' = {}
    /\ plaintext_count' = 0
    /\ admitted' = {}
    /\ UNCHANGED misjudged

ReplayNext == (\E c \in Counters : Counted(c)) \/ Plaintext \/ Registered

ReplaySpec == ReplayInit /\ [][ReplayNext]_replayVars

-----------------------------------------------------------------------------
ReplayTypeOK ==
    /\ used_ \in BOOLEAN /\ misjudged \in BOOLEAN
    /\ highest_counter_ \in Counters
    /\ window_ \subseteq Offsets
    /\ plaintext_count \in 0 .. 1
    /\ admitted \subseteq Counters

\* 64 bits and one number are as good as that history
\* (ble_dispatcher.hpp:58): no reply is routed twice, none that is new and not
\* too old is refused, through jumps of any size, with the counter 0 and at
\* both ends of the window.
WindowIsExact ==
    /\ ReplayTypeOK
    /\ ~misjudged
    /\ \A c \in Counters : is_valid(c) <=> Admissible(c)

=============================================================================
