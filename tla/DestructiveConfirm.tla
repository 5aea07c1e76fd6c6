------------------------- MODULE DestructiveConfirm -------------------------
(***************************************************************************)
(* Confirmation tokens for destructive commands (src-tauri/src/kernel/     *)
(* destructive_confirm.rs, guarded_command.rs) and the queue of what waits *)
(* for the user (services/approval_notify.rs), which the dispatcher's      *)
(* approvals share.  The queue is touched after the lock of the tokens, or *)
(* of the approvals, is released, so everything between can overtake it;   *)
(* and it knows tasks, not executors, of which a task that was ordered     *)
(* twice has two.  A uuid is a number; the bounds leave approvals out      *)
(* where there are as many tokens as MaxTokens.                            *)
(***************************************************************************)
EXTENDS Naturals, Sequences, FiniteSets, SeqFilter

CONSTANTS
  Command,     \* command hashes
  MaxTokens,   \* bound: blocked commands
  Asker,       \* executors: runs of execute_task
  Asked,       \* their tasks
  AskedBy,     \* the task of each executor
  NoAsker,
  MaxAsks      \* bound: approvals asked for

ASSUME ConfirmConstants ==
  /\ MaxTokens \in Nat /\ MaxAsks \in Nat /\ NoAsker \notin Asker
  /\ Asker \cap Nat = {} /\ Asked \cap Nat = {} /\ AskedBy \in [Asker -> Asked]

VARIABLES
  token,      \* Registry.pending: command, phase and whether the TTL is over
  blocked,    \* per command, evaluations that found no allowance
  deciding,   \* the user's answers on their way: [id, yes]
  approval,   \* per executor: where it stands with its approval
  sender,     \* per task: Dispatcher.pending, the executor a vote reaches
  asks,
  emitting,   \* tokens and executors whose notification has not been sent yet
  clearing,   \* ids about to leave the queue: for a token, or after the vote on the nth approval
  queue,      \* pending_queue
  runs,       \* history: how often each command was let through
  agreed,     \* history: tokens the user confirmed
  robbed,     \* history: executors whose entry left with an earlier vote or another executor
  stale       \* history: ids that ended before they were queued, or by a purge
              \* that leaves the queue alone

confirmVars == <<token, blocked, deciding, approval, sender, asks, emitting, clearing, queue,
                 runs, agreed, robbed, stale>>
askVars == <<approval, sender, asks, robbed>>
tokenVars == <<token, blocked, deciding, runs, agreed>>

Ids == 1..MaxTokens
Pending(i) == token[i].phase \in {"open", "confirmed", "consumed"}

ConfirmInit ==
  /\ \E n \in Ids :
       /\ token = [i \in Ids |-> [cmd |-> "none", phase |-> IF i <= n THEN "new" ELSE "gone", expired |-> FALSE]]
       /\ asks = IF n = MaxTokens THEN MaxAsks ELSE 0
  /\ blocked = [c \in Command |-> 0]
  /\ deciding = {} /\ emitting = {} /\ clearing = {} /\ queue = << >>
  /\ approval = [e \in Asker |-> "idle"] /\ sender = [t \in Asked |-> NoAsker]
  /\ runs = [c \in Command |-> 0] /\ agreed = {} /\ robbed = {} /\ stale = {}

-----------------------------------------------------------------------------
(* The queue.                                                              *)

Queued(x) == \E n \in DOMAIN queue : queue[n] = x
QueueWithout(x) == Without(queue, {x})
(* Mutant of Cleared: whatever is resolved disarms the reminder.            *)
ClearedAll(x) == << >>
Cleared(x) == QueueWithout(x)

Clearing(x, n) == clearing' = clearing \cup {[id |-> x, ask |-> n]}

(* Who waits and has sent its notification loses the entry with a clear of  *)
(* its task.                                                               *)
Robbed(x) ==
  {e \in Asker \ emitting : AskedBy[e] = x /\ approval[e] = "waiting" /\ Queued(x)}

(* enqueue_pending_approval, on behalf of a token or an executor.          *)
EmitPending(x) ==
  /\ x \in emitting
  /\ emitting' = emitting \ {x}
  /\ LET id == IF x \in Asker THEN AskedBy[x] ELSE x
     IN  queue' = IF Queued(id) THEN queue ELSE Append(queue, id)
  /\ UNCHANGED <<tokenVars, askVars, clearing, stale>>
ClearPending(m) ==
  /\ m \in clearing
  /\ clearing' = clearing \ {m}
  /\ queue' = Cleared(m.id) /\ robbed' = robbed \cup Robbed(m.id)
  /\ UNCHANGED <<tokenVars, approval, sender, asks, emitting, stale>>

-----------------------------------------------------------------------------
(* Tokens.                                                                 *)

Expired == {i \in Ids : Pending(i) /\ token[i].expired}
Purged == [i \in Ids |-> IF i \in Expired THEN [token[i] EXCEPT !.phase = "gone"] ELSE token[i]]

(* Five minutes.                                                           *)
Lapse(i) ==
  /\ Pending(i) /\ ~token[i].expired
  /\ token' = [token EXCEPT ![i].expired = TRUE]
  /\ UNCHANGED <<blocked, deciding, runs, agreed, askVars, emitting, clearing, queue, stale>>

(* take_confirmed_allowance, by GuardedCommand::evaluate: the command runs, *)
(* or is blocked.                                                          *)
Usable(c) == {i \in Ids : token[i].phase = "confirmed" /\ token[i].cmd = c /\ ~token[i].expired}
ClearingAll(ids) == clearing' = clearing \cup [id : ids, ask : {0}]
TakeAllowance(c) ==
  /\ \/ /\ Usable(c) = {} /\ blocked[c] < Cardinality({i \in Ids : token[i].phase = "new"})
        /\ blocked' = [blocked EXCEPT ![c] = @ + 1]
        /\ token' = Purged /\ ClearingAll(Expired)
        /\ UNCHANGED runs
     \/ \E i \in Usable(c) :
        /\ token' = [Purged EXCEPT ![i].phase = "consumed"]
        /\ runs' = [runs EXCEPT ![c] = @ + 1]
        /\ ClearingAll(Expired \cup {i})
        /\ UNCHANGED blocked
  /\ stale' = stale \cup (Expired \cap emitting)
  /\ UNCHANGED <<deciding, agreed, askVars, emitting, queue>>

(* register_pending; its purge, like the list's, leaves the queue alone.   *)
RegisterPending(c) ==
  /\ blocked[c] > 0
  /\ blocked' = [blocked EXCEPT ![c] = @ - 1]
  /\ \E i \in Ids :
       /\ token[i].phase = "new" /\ \A j \in 1..(i - 1) : token[j].phase # "new"
       /\ token' = [Purged EXCEPT ![i] = [cmd |-> c, phase |-> "open", expired |-> FALSE]]
       /\ emitting' = emitting \cup {i}
  /\ stale' = stale \cup Expired
  /\ UNCHANGED <<deciding, runs, agreed, askVars, clearing, queue>>
ListPending ==
  /\ Expired # {}
  /\ token' = Purged
  /\ stale' = stale \cup Expired
  /\ UNCHANGED <<blocked, deciding, runs, agreed, askVars, emitting, clearing, queue>>

(* The IPC command checks the id and the hash first, under a lock of its    *)
(* own; a second click may follow.                                         *)
ValidateHash(i, yes) ==
  /\ Pending(i)
  /\ deciding' = deciding \cup {[id |-> i, yes |-> yes]}
  /\ UNCHANGED <<token, blocked, runs, agreed, askVars, emitting, clearing, queue, stale>>

(* confirm_destructive and reject_destructive.  Mutant of Confirmed: a      *)
(* token that was used is armed again.                                     *)
ConfirmedAgain(t) ==
  IF t.phase \notin {"open", "confirmed", "consumed"} THEN t
  ELSE [t EXCEPT !.phase = IF t.expired THEN "gone" ELSE "confirmed"]
Confirmed(t) ==
  IF t.phase \notin {"open", "confirmed", "consumed"} THEN t
  ELSE IF t.expired THEN [t EXCEPT !.phase = "gone"]
  ELSE IF t.phase = "consumed" THEN t ELSE [t EXCEPT !.phase = "confirmed"]

Decide(d) ==
  /\ d \in deciding
  /\ deciding' = deciding \ {d}
  /\ token' = [token EXCEPT ![d.id] = IF d.yes THEN Confirmed(@)
                                      ELSE [@ EXCEPT !.phase = "gone"]]
  /\ agreed' = IF token'[d.id].phase = "confirmed" THEN agreed \cup {d.id} ELSE agreed
  /\ stale' = IF d.id \in emitting THEN stale \cup {d.id} ELSE stale
  /\ Clearing(d.id, 0)
  /\ UNCHANGED <<blocked, runs, askVars, emitting, queue>>

-----------------------------------------------------------------------------
(* The dispatcher's approvals (await_approval, resolve_vote), per executor *)
(* of a task.                                                              *)

(* A second executor takes the place of the first in the pending map, whose *)
(* channel closes.                                                         *)
AskApproval(e) ==
  /\ approval[e] = "idle" /\ asks < MaxAsks
  /\ asks' = asks + 1
  /\ approval' = [approval EXCEPT ![e] = "waiting"]
  /\ sender' = [sender EXCEPT ![AskedBy[e]] = e]
  /\ emitting' = emitting \cup {e} /\ robbed' = robbed \ {e}
  /\ UNCHANGED <<tokenVars, clearing, queue, stale>>

(* The vote wakes the executor before it clears the entry itself.           *)
ResolveVote(t) ==
  /\ sender[t] # NoAsker
  /\ sender' = [sender EXCEPT ![t] = NoAsker]
  /\ \E answer \in {"granted", "denied"} : approval' = [approval EXCEPT ![sender[t]] = answer]
  /\ Clearing(t, asks)
  /\ UNCHANGED <<tokenVars, asks, emitting, queue, robbed, stale>>

(* The timer, or a channel that has closed; the entry in the pending map is *)
(* removed, whose it ever is.  A vote between the two finds nobody.         *)
ApprovalTimeout(e) ==
  /\ approval[e] = "waiting" /\ e \notin emitting
  /\ approval' = [approval EXCEPT ![e] = "over"]
  /\ sender' = [sender EXCEPT ![AskedBy[e]] = NoAsker]
  /\ UNCHANGED <<tokenVars, asks, emitting, clearing, queue, robbed, stale>>

(* emit_approval_cleared takes the entry out at once and, in the desktop     *)
(* application, again once the event is sent: an executor clears for its    *)
(* task and stays where it is, or goes on with the clear.                  *)
ClearTask(e) ==
  /\ queue' = Cleared(AskedBy[e]) /\ robbed' = robbed \cup Robbed(AskedBy[e])
  /\ UNCHANGED <<tokenVars, sender, asks, emitting, clearing, stale>>

(* The executor clears the entry, granted or not, and goes on or fails.     *)
EmitCleared(e) ==
  /\ approval[e] \in {"granted", "denied", "over"} /\ e \notin emitting
  /\ approval' \in {approval, [approval EXCEPT ![e] = IF @ = "granted" THEN "idle" ELSE "failing"]}
  /\ ClearTask(e)

(* Any other error: the policy gate, a halt, a duplicate refused at         *)
(* admission, a worker that cannot be reached.                             *)
Fail(e) ==
  /\ approval[e] = "idle"
  /\ approval' = [approval EXCEPT ![e] = "failing"]
  /\ UNCHANGED <<tokenVars, sender, asks, emitting, clearing, queue, robbed, stale>>

(* The error arm of the caller clears once more, whatever the error.        *)
ClearFailed(e) ==
  /\ approval[e] = "failing"
  /\ approval' \in {approval, [approval EXCEPT ![e] = "failed"]}
  /\ ClearTask(e)

ConfirmNext ==
  \/ \E c \in Command : TakeAllowance(c) \/ RegisterPending(c)
  \/ \E i \in Ids : Lapse(i) \/ \E yes \in BOOLEAN : ValidateHash(i, yes)
  \/ ListPending
  \/ \E d \in deciding : Decide(d)
  \/ \E x \in emitting : EmitPending(x)
  \/ \E m \in clearing : ClearPending(m)
  \/ \E t \in Asked : ResolveVote(t)
  \/ \E e \in Asker : AskApproval(e) \/ ApprovalTimeout(e) \/ EmitCleared(e) \/ Fail(e) \/ ClearFailed(e)

ConfirmSpec == ConfirmInit /\ [][ConfirmNext]_confirmVars

-----------------------------------------------------------------------------
ConfirmTypeOK ==
  /\ token \in [Ids -> [cmd : Command \cup {"none"}, expired : BOOLEAN,
                        phase : {"new", "open", "confirmed", "consumed", "gone"}]]
  /\ blocked \in [Command -> 0..MaxTokens]
  /\ deciding \subseteq [id : Ids, yes : BOOLEAN]
  /\ approval \in [Asker -> {"idle", "waiting", "granted", "denied", "over", "failing", "failed"}]
  /\ sender \in [Asked -> Asker \cup {NoAsker}] /\ asks \in 0..MaxAsks
  /\ emitting \subseteq Ids \cup Asker
  /\ clearing \subseteq [id : Ids \cup Asked, ask : 0..MaxAsks]
  /\ queue \in Seq(Ids \cup Asked) /\ Cardinality(DOMAIN queue) = Cardinality({queue[n] : n \in DOMAIN queue})

(* However often the user clicks, and however many attempts at the same     *)
(* command are blocked, each confirmed token lets its command run once at   *)
(* most, and no other command.                                             *)
OneRunPerConfirmation ==
  \A c \in Command : runs[c] <= Cardinality({i \in agreed : token[i].cmd = c})

(* What waits for the user is in the queue that brings it up, and nothing   *)
(* is lost by resolving something else (approval_notify.rs:3), except that  *)
(* a clear of the same task, after the vote on an earlier approval or by    *)
(* another executor, takes the entry away; and an entry that no longer      *)
(* waits leaves: a token's unless it ended before it was queued or by a     *)
(* purge that leaves the queue alone, a task's with its last approval.      *)
ApprovalsQueued ==
  /\ \A i \in Ids : token[i].phase = "open" /\ i \notin emitting => Queued(i)
  /\ \A e \in Asker : approval[e] = "waiting" /\ e \notin emitting \cup robbed => Queued(AskedBy[e])
  /\ \A i \in Ids : Queued(i) /\ token[i].phase \notin {"new", "open"}
                    => [id |-> i, ask |-> 0] \in clearing \/ i \in stale
  /\ \A t \in Asked : Queued(t) =>
       \E e \in Asker : AskedBy[e] = t /\ approval[e] \in {"waiting", "granted", "denied", "over"}
=============================================================================
