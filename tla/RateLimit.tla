------------------------------ MODULE RateLimit ------------------------------
(***************************************************************************)
(* The limits a request passes: that of its IP address in the middleware,  *)
(* and, if it buys a pack, those of its user in the route, one after the   *)
(* other.  Each is a log of instants in Redis that a script prunes, counts *)
(* and extends in one step, at the instant the caller stamped on it before *)
(* it sent it.  Scripts are run out of order (the middleware's are HTTP    *)
(* requests) or never, and a caller without an answer goes on as if        *)
(* admitted.                                                               *)
(***************************************************************************)
EXTENDS Integers, Sequences, FiniteSets, FiniteSetsExt

CONSTANTS
  Calls,        (* requests of one address                                  *)
  Path,         (* keys each call passes, in order                          *)
  Limit,        (* of a key: [window, max]                                  *)
  Second,       (* instants in a second; answers count in seconds           *)
  MaxInstant    (* bound on the clock                                       *)

ASSUME LimitAssumption ==
  /\ Second \in Nat \ {0} /\ MaxInstant \in Nat
  /\ \A k \in DOMAIN Limit : Limit[k].window \in Nat \ {0} /\ Limit[k].max \in Nat \ {0}
  /\ \A c \in Calls : Path[c] \in Seq(DOMAIN Limit) \ {<<>>} /\ IsInjective(Path[c])

VARIABLES
  instant,
  call,         (* limit a call is at, stamp of its script                  *)
  sent,         (* scripts Redis has not run yet                            *)
  window,       (* the sorted sets: admitted calls and their instants       *)
  expiry,       (* when Redis drops a sorted set                            *)
  admitted,     (* history: stamp and run of every admission                *)
  bypassed,     (* history: calls a limit did not answer                    *)
  promised      (* history: when a key has said it will admit, NoPromise    *)
                (* once it has admitted since                               *)

limitHistory == <<admitted, bypassed, promised>>
limitVars == <<instant, call, sent, window, expiry, limitHistory>>

NoPromise == -1
Keys == DOMAIN Limit

LimitInit ==
  /\ instant = 0
  /\ call = [c \in Calls |-> [stage |-> "asking", at |-> 1]]
  /\ sent = {}
  /\ window = [k \in Keys |-> {}] /\ expiry = [k \in Keys |-> 0]
  /\ admitted = [k \in Keys |-> {}] /\ bypassed = {}
  /\ promised = [k \in Keys |-> NoPromise]

----------------------------------------------------------------------------
(* Callers *)

(* The next limit, or the purchase.                                         *)
PassedOn(c) ==
  IF call[c].at = Len(Path[c]) THEN [call[c] EXCEPT !.stage = "passed"]
                              ELSE [stage |-> "asking", at |-> call[c].at + 1]

(* The instant is taken and the script sent; for the first limit, the call  *)
(* has just come in.                                                        *)
SendScript(c) ==
  /\ call[c].stage = "asking"
  /\ call' = [call EXCEPT ![c].stage = "waiting"]
  /\ sent' = sent \cup {[call |-> c, at |-> call[c].at, stamp |-> instant]}
  /\ UNCHANGED <<instant, window, expiry, limitHistory>>

(* The socket is down, an error, no answer in time: the caller goes on, and *)
(* a script that was sent may still be run, or never.                       *)
FailOpen(c) ==
  /\ call[c].stage \in {"asking", "waiting"}
  /\ call' = [call EXCEPT ![c] = PassedOn(c)]
  /\ bypassed' = bypassed \cup {<<c, call[c].at>>}
  /\ UNCHANGED <<instant, sent, window, expiry, admitted, promised>>

----------------------------------------------------------------------------
(* Redis *)

(* Mutant of Counted: an entry leaves an instant early. *)
CountedOneLess(key, stamp) ==
  {e \in window[key] : instant < expiry[key] /\ e.at > stamp - Limit[key].window + 1}

(* ZREMRANGEBYSCORE, of what has not expired.                               *)
Counted(key, stamp) ==
  {e \in window[key] : instant < expiry[key] /\ e.at > stamp - Limit[key].window}

(* Mutant of RetryAfter: seconds are rounded down. *)
RetryAfterRoundedDown(entries, key, stamp) ==
  Max({1, (Min({e.at : e \in entries}) + Limit[key].window - stamp) \div Second})

(* Seconds until the oldest entry leaves, at least one.                     *)
RetryAfter(entries, key, stamp) ==
  Max({1, (Min({e.at : e \in entries}) + Limit[key].window - stamp + Second - 1) \div Second})

(* The script is run.  Its answer is news to a caller that still waits.     *)
RunScript(s) ==
  LET key == Path[s.call][s.at]
      counted == Counted(key, s.stamp)
      waits == call[s.call].stage = "waiting" /\ call[s.call].at = s.at
      answer(row) == call' = IF waits THEN [call EXCEPT ![s.call] = row] ELSE call
  IN /\ s \in sent /\ sent' = sent \ {s}
     /\ IF Cardinality(counted) >= Limit[key].max
          THEN LET until == s.stamp + Second * RetryAfter(counted, key, s.stamp)
               IN /\ answer([call[s.call] EXCEPT !.stage = "refused"])
                  /\ window' = [window EXCEPT ![key] = counted]
                  /\ promised' = [promised EXCEPT ![key] =
                                    IF @ = NoPromise THEN until ELSE Min({@, until})]
                  /\ UNCHANGED <<expiry, admitted>>
          ELSE /\ answer(PassedOn(s.call))
               /\ window' = [window EXCEPT ![key] = counted \cup {[call |-> s.call, at |-> s.stamp]}]
               /\ expiry' = [expiry EXCEPT ![key] = instant + Limit[key].window]
               /\ admitted' = [admitted EXCEPT ![key] =
                                 @ \cup {[call |-> s.call, stamp |-> s.stamp, run |-> instant]}]
               /\ promised' = [promised EXCEPT ![key] = NoPromise]
     /\ UNCHANGED <<instant, bypassed>>

NextInstant ==
  /\ instant < MaxInstant      \* bound
  /\ instant' = instant + 1
  /\ UNCHANGED <<call, sent, window, expiry, limitHistory>>

LimitNext ==
  \/ NextInstant
  \/ \E c \in Calls : SendScript(c) \/ FailOpen(c)
  \/ \E s \in sent : RunScript(s)

LimitSpec == LimitInit /\ [][LimitNext]_limitVars

----------------------------------------------------------------------------
(* Properties *)

LimitTypeOK ==
  /\ instant \in 0..MaxInstant
  /\ call \in [Calls -> [stage : {"asking", "waiting", "refused", "passed"},
                         at : Nat \ {0}]]
  /\ sent \subseteq [call : Calls, at : Nat \ {0}, stamp : 0..MaxInstant]
  /\ \A k \in Keys : window[k] \subseteq [call : Calls, at : 0..MaxInstant]

(* "Sliding-window-log is exact": of the calls that were both made and      *)
(* counted within one window, a limit admits its maximum at most, however   *)
(* late or out of order their scripts are run.                              *)
WindowNeverOverflows ==
  \A k \in Keys : \A end \in 0..MaxInstant :
    LET within == (end - Limit[k].window + 1)..end
    IN Cardinality({e \in admitted[k] : e.stamp \in within /\ e.run \in within}) <= Limit[k].max

(* A caller that waits for as long as it is told is not refused again by    *)
(* the same limit, unless another call has been admitted since.             *)
RetryAfterSuffices ==
  [][ \A s \in sent :
        LET key == Path[s.call][s.at]
        IN RunScript(s) /\ promised'[key] # NoPromise /\ promised[key] # NoPromise =>
             s.stamp < promised[key] ]_limitVars

(* A call is through when every limit has counted it or could not be asked; *)
(* one that a limit refuses has been counted by all the limits before it,   *)
(* and is not counted by that one.                                          *)
PassesAreCounted ==
  \A c \in Calls : \A i \in DOMAIN Path[c] :
    LET counted == \E e \in admitted[Path[c][i]] : e.call = c
    IN /\ call[c].stage = "passed" \/ (call[c].stage = "refused" /\ i < call[c].at) =>
            counted \/ <<c, i>> \in bypassed
       /\ call[c].stage = "refused" /\ i = call[c].at => ~counted
=============================================================================
