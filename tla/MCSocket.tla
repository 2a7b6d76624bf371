------------------------------ MODULE MCSocket ------------------------------
(* Instances of Socket for TLC. *)
EXTENDS Socket, TLC

CONSTANTS p1, p2, p3, a, b, x, y, u, v, w

\* every ToDest message is for the first pipe
AllToFirst == [m \in ToDest |-> p1]

\* stream pipes, in blocking mode, with nothing around them
Quiet == [bestEffort |-> FALSE, noRecv |-> FALSE, closeOnEOF |-> TRUE, kind |-> "bytes",
          pipes |-> {p1}, calls |-> {}, maxIn |-> 0,
          breaks |-> FALSE, unreadable |-> FALSE, closes |-> FALSE, timeouts |-> FALSE]

\* pipes break while ToOne messages are sent
Resending == [Quiet EXCEPT !.pipes = {p1, p2}, !.calls = {a, b}, !.breaks = TRUE]

\* everything that removes a pipe, at once, while messages come in or go out
Closing == {[Quiet EXCEPT !.calls = {a, x}, !.breaks = TRUE, !.closes = TRUE, !.timeouts = TRUE],
            [Quiet EXCEPT !.calls = {x}, !.maxIn = 2, !.breaks = TRUE, !.closes = TRUE, !.timeouts = TRUE]}

\* Close with healthy pipes, and with healthy pipes whose receivers may be the first to see it
Flushing == {[Quiet EXCEPT !.pipes = {p1, p2}, !.calls = {a}, !.noRecv = TRUE, !.maxIn = 1, !.closes = TRUE],
             [Quiet EXCEPT !.calls = {a, x}, !.maxIn = 1, !.closes = TRUE]}

\* SendTo and SendAll, in best effort mode, over msr pipes, one of them raw, that break
Addressing == [Quiet EXCEPT !.pipes = {p1, p3}, !.calls = {x, u}, !.bestEffort = TRUE, !.kind = "msgs",
                            !.breaks = TRUE]

\* connections that end or carry what is refused, with pipes that stay open after it, one of them raw
Ending == [Quiet EXCEPT !.pipes = {p1, p3}, !.closeOnEOF = FALSE, !.kind = "blocks",
                        !.maxIn = 1, !.breaks = TRUE, !.unreadable = TRUE]

SafeScenarios == {Resending, Addressing, Ending} \cup Closing \cup Flushing

\* Transports that stall, with queues that fill and a SendAll among the calls,
\* around a Close or around connections that break; ToOne messages; Close with
\* everything that ends a pipe; messages that nobody takes; pipes that EOF or a
\* refused block leaves open.
LiveScenarios ==
    LET Busy == [Quiet EXCEPT !.breaks = TRUE, !.closes = TRUE, !.timeouts = TRUE]
    IN {[Busy EXCEPT !.calls = {a, x, u}, !.breaks = FALSE],
        [Busy EXCEPT !.calls = {a, x, u}, !.closes = FALSE, !.unreadable = TRUE],
        [Busy EXCEPT !.calls = {a, b}, !.breaks = FALSE],
        [Busy EXCEPT !.calls = {x}, !.kind = "blocks"],
        [Busy EXCEPT !.maxIn = 2, !.breaks = FALSE],
        [Busy EXCEPT !.calls = {x}, !.closes = FALSE, !.closeOnEOF = FALSE, !.kind = "blocks", !.unreadable = TRUE]}

\* three SendAll calls while a pipe breaks
Broadcasting == {[Quiet EXCEPT !.pipes = {p1, p2}, !.calls = {u, v, w}, !.breaks = TRUE]}

\* Close right after a pipe was added
Hurrying == {[Quiet EXCEPT !.calls = {a}, !.closes = TRUE]}
=============================================================================
