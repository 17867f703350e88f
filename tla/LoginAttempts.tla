----------------------------- MODULE LoginAttempts -----------------------------
(***************************************************************************)
(* LoginAttemptService: per key, the failures since the first one and the  *)
(* time until which logins are refused.  Every call first drops the        *)
(* entries that are over.                                                  *)
(***************************************************************************)
EXTENDS Integers

CONSTANTS
    NoEntry,    \* no failures are known of a key
    NoBlock,    \* blockedUntil: null
    BlockTtl,   \* LOGIN_RATE_LIMIT_TTL_MS
    BlockMax    \* LOGIN_RATE_LIMIT_MAX

Entry == [failures : Nat \ {0}, first : Nat, until : Nat \cup {NoBlock}]

ASSUME AttemptsAssumption ==
    /\ BlockTtl \in Nat \ {0} /\ BlockMax \in Nat \ {0}
    /\ NoEntry \notin Entry
    /\ NoBlock \notin Nat

\* cleanup() for one entry: its window or its block is over.
Over(entry, now) ==
    \/ now - entry.first > BlockTtl
    \/ entry.until # NoBlock /\ entry.until <= now

Cleaned(entry, now) == IF entry # NoEntry /\ Over(entry, now) THEN NoEntry ELSE entry

\* assertAllowed, on a cleaned entry.
Blocked(entry, now) == entry # NoEntry /\ entry.until # NoBlock /\ entry.until > now

\* recordFailure, on a cleaned entry: the window starts with its first failure,
\* and from BlockMax failures on a block of BlockTtl is set.  Slips: the
\* block comes one failure late, or ends at once; the count starts from zero.
FailedLate(entry, now) ==
    IF entry = NoEntry
    THEN [failures |-> 1, first |-> now, until |-> NoBlock]
    ELSE [entry EXCEPT !.failures = @ + 1,
                       !.until = IF entry.failures >= BlockMax THEN now + BlockTtl ELSE @]
FailedBriefly(entry, now) ==
    IF entry = NoEntry
    THEN [failures |-> 1, first |-> now, until |-> NoBlock]
    ELSE [entry EXCEPT !.failures = @ + 1,
                       !.until = IF entry.failures + 1 >= BlockMax THEN now + 1 ELSE @]
FailedFromZero(entry, now) ==
    IF entry = NoEntry
    THEN [failures |-> 0, first |-> now, until |-> NoBlock]
    ELSE [entry EXCEPT !.failures = @ + 1]
Failed(entry, now) ==
    IF entry = NoEntry
    THEN [failures |-> 1, first |-> now, until |-> NoBlock]
    ELSE [entry EXCEPT !.failures = @ + 1,
                       !.until = IF entry.failures + 1 >= BlockMax THEN now + BlockTtl ELSE @]
===============================================================================
