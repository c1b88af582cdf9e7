------------------------------ MODULE MCOutbox ------------------------------
(***************************************************************************)
(* Small instances of Outbox.  Retry delays double from one tick, as       *)
(* complete_delivery computes them, up to MaxBackoff.                      *)
(***************************************************************************)
EXTENDS Outbox, TLC

CONSTANT MaxBackoff   \* MAX_BACKOFF_SECONDS, in ticks

MCBackoff == [n \in 1..MaxAttempts |->
                IF 2 ^ (n - 1) < MaxBackoff THEN 2 ^ (n - 1) ELSE MaxBackoff]

\* Workers of one kind, and channels, are interchangeable.
WorkersAndChannels == Permutations(Worker) \cup Permutations(Channel)
=============================================================================
