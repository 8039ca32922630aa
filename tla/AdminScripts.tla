---------------------------- MODULE AdminScripts ----------------------------
(***************************************************************************)
(* The scripts an operator runs on a live stack: lib/timelock.js, which    *)
(* sends a call, announces it or leaves it to the Safe, and its users      *)
(* set-tier-config.js, list-asset.js, approve-testnet-pools.js and         *)
(* execute-timelocked.js.                                                  *)
(*                                                                         *)
(* A pair's pool keeps enough price history for the short settlement       *)
(* window of the testnet and not for the default one.                      *)
(***************************************************************************)
EXTENDS Deployment

clearPending_all(call) == <<>>
clearPending(call) ==
  LET kept[n \in 0 .. Len(pending)] ==   \* of the first n records
        IF n = 0 THEN <<>>
        ELSE IF pending[n] = call THEN kept[n - 1]
        ELSE Append(kept[n - 1], pending[n])
  IN  kept[Len(pending)]

writePending_first(call) == <<call>> \o clearPending(call)
writePending(call) == Append(clearPending(call), call)

(***************************************************************************)
(* sendOrQueue, up to its first transaction; `then` is where the script    *)
(* goes on when the call went through and `otherwise` when it did not.     *)
(* Its two file writes are the steps "clear" and "record".                 *)
(***************************************************************************)
sendOrQueue(call, then, otherwise) ==
  LET Remember(next) == local' = [local EXCEPT !.call = call, !.then = next]
  IN  IF ~HeldBy(Target(call), Key)                        \* "safe"
      THEN Goto(otherwise) /\ UNCHANGED <<chainVars, local>>
      ELSE IF Accepted(call)                               \* "executed"
      THEN /\ Execute(call)
           /\ Goto(IF Delay(call) > 0 /\ isExecutable(call)
                   THEN "clear" ELSE then)
           /\ Remember(then)
      ELSE IF Delay(call) = 0 \/ Invalid(call)             \* a bad call
      THEN Fails /\ UNCHANGED chainVars
      ELSE IF Queued(call) /\ ~Lapsed(call)                \* "waiting"
      THEN Goto(otherwise) /\ UNCHANGED <<chainVars, local>>
      ELSE queueAction(call) /\ Goto("record") /\ Remember(otherwise)

Clear ==
  /\ step = "clear"
  /\ pending' = clearPending(local.call)
  /\ Goto(local.then)
  /\ UNCHANGED <<now, chainVars, book, local>>

Record ==
  /\ step = "record"
  /\ pending' = writePending(local.call)
  /\ Goto(local.then)
  /\ UNCHANGED <<now, chainVars, book, local>>

\* The last step of every script.
Finish ==
  /\ script # "idle" /\ step = "end"
  /\ Done
  /\ UNCHANGED <<now, chainVars, fileVars>>

-----------------------------------------------------------------------------
\* set-tier-config.js: the exposure cap, the one value that may wait.
SetTierConfig(cap) ==
  /\ Starting("setTierConfig")
  /\ book.stack # 0 /\ HeldBy(Recorded(1), Key)
  /\ stacks[book.stack].cap # cap
  /\ Begins("setTierConfig", "send",
            [NoLocal EXCEPT !.call = Call(book.stack, "cap", cap)])

SendTierConfig ==
  /\ At("setTierConfig", "send")
  /\ sendOrQueue(local.call, "end", "end")
  /\ UNCHANGED <<now, fileVars>>

-----------------------------------------------------------------------------
\* list-asset.js: list the asset with a grace extension, or only set the tier
\* of one that is listed, and name its pool.
ListAsset(grace) ==
  /\ Starting("listAsset")
  /\ book.stack # 0 /\ HeldBy(Recorded(1), Key)
  /\ Begins("listAsset", IF stacks[book.stack].listed THEN "approve" ELSE "send",
            [NoLocal EXCEPT !.call = Call(book.stack, "list", grace)])

SendListing ==
  /\ At("listAsset", "send")
  /\ sendOrQueue(local.call, "approve", "end")
  /\ UNCHANGED <<now, fileVars>>

\* checkPoolHistory
HistorySuffices(stack) == stacks[stack].shortWindow

\* Naming a pair's first pool is instant.
ApprovePoolOf(stack) ==
  /\ stacks' = [stacks EXCEPT ![stack].approved =
                  @ \/ (stacks[stack].listed /\ HistorySuffices(stack))]
  /\ UNCHANGED <<factories, control, queue, safes, loans>>

ApproveListed ==
  /\ At("listAsset", "approve")
  /\ ApprovePoolOf(book.stack)
  /\ Goto("end")
  /\ UNCHANGED <<now, fileVars, local>>

\* approve-testnet-pools.js does not ask who the operator is: the contract
\* refuses a caller who is not.
ApproveTestnetPools ==
  /\ Starting("approvePools")
  /\ book.stack # 0 /\ stacks[book.stack].shortWindow
  /\ Begins("approvePools", "approve", NoLocal)

ApproveAll ==
  /\ At("approvePools", "approve")
  /\ IF stacks[book.stack].approved \/ ~stacks[book.stack].listed
        \/ HeldBy(Recorded(1), Key)
     THEN ApprovePoolOf(book.stack) /\ Goto("end") /\ UNCHANGED <<local, fileVars>>
     ELSE Throws
  /\ UNCHANGED <<now, fileVars>>

-----------------------------------------------------------------------------
\* execute-timelocked.js goes through the records it read when it started and
\* looks at each call as it finds it then; time passes as it goes.  It may be
\* started once more after the last of the MaxRuns scripts.
ExecuteTimelocked ==
  /\ script = "idle" /\ runs <= MaxRuns
  /\ pending # <<>>
  /\ Begins("executeTimelocked", "each",
            [NoLocal EXCEPT !.todo = pending, !.since = now])

NextRecord == local' = [local EXCEPT !.todo = Tail(@)]

ExecuteEach ==
  LET call == Head(local.todo)
  IN  /\ At("executeTimelocked", "each") /\ local.todo # <<>>
      /\ IF ~Queued(call)
         THEN /\ pending' = clearPending(call)
              /\ NextRecord /\ Goto("each") /\ UNCHANGED <<chainVars, book>>
         ELSE IF ~isExecutable(call)            \* lapsed, or still waiting
         THEN NextRecord /\ Goto("each") /\ UNCHANGED <<chainVars, fileVars>>
         ELSE Goto("send") /\ UNCHANGED <<chainVars, fileVars, local>>
      /\ UNCHANGED now

Overtakes(call) ==
  call.kind = "wire" /\ call.arg < stacks[call.stack].vaultFactory

\* The contract decides by the time the transaction is mined.
ExecuteSend ==
  LET call == Head(local.todo)
  IN  /\ At("executeTimelocked", "send")
      /\ IF Accepted(call) /\ HeldBy(Target(call), Key)
         THEN /\ Execute(call)
              /\ local' = [local EXCEPT !.todo = Tail(@), !.call = call,
                                        !.then = "each"]
              /\ step' = "clear" /\ UNCHANGED <<script, runs, fileVars>>
              /\ IF Overtakes(call) THEN Mishap("overtaken") ELSE UNCHANGED mishap
         ELSE Throws
      /\ UNCHANGED now

ExecutedAll ==
  /\ At("executeTimelocked", "each") /\ local.todo = <<>>
  /\ Done
  /\ UNCHANGED <<now, chainVars, fileVars>>

-----------------------------------------------------------------------------
\* The operator delists the asset; no script of the repository does.
RemoveAsset ==
  /\ Starting("removeAsset")
  /\ book.stack # 0 /\ HeldBy(Recorded(1), Key) /\ stacks[book.stack].listed
  /\ stacks' = [stacks EXCEPT ![book.stack].listed = FALSE]
  /\ runs' = runs + 1
  /\ UNCHANGED <<now, factories, control, queue, safes, loans, fileVars,
                 scriptVars, mishap>>

AdminStep ==
  \/ \E cap \in 1 .. 2 : SetTierConfig(cap)
  \/ SendTierConfig
  \/ \E grace \in 0 .. 1 : ListAsset(grace)
  \/ SendListing \/ ApproveListed
  \/ ApproveTestnetPools \/ ApproveAll
  \/ ExecuteTimelocked \/ ExecuteEach \/ ExecuteSend \/ ExecutedAll
  \/ RemoveAsset
  \/ Clear \/ Record \/ Finish

=============================================================================
