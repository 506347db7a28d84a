------------------------- MODULE WorkDeliveryProofs -------------------------
(***************************************************************************)
(* WorkDelivery implements RequestReply, and no request waits for an item  *)
(* that cannot arrive, for any number of requests, items and workers, any  *)
(* delivery budget and any number of faults.                               *)
(***************************************************************************)
EXTENDS WorkDelivery, TLAPS

USE BudgetAssumption, WorkerAssumption, RouteAssumption

Places == {"absent", "queued", "out", "gone", "dead"}
Run == [copy : Copies, n : Nat, worker : Workers, stage : {"running", "sent"}]
Handlers == {"idle", "publish", "fallback", "wait", "results", "failed"}

WorkTypes ==
  /\ at \in [Copies -> Places] /\ tries \in [Copies -> Nat]
  /\ runs \subseteq Run /\ inbox \subseteq Copies
  /\ worked \in [Requests -> SUBSET Items] /\ lost \subseteq Requests \X Items

GatewayTypes ==
  /\ handler \in [Requests -> Handlers] /\ published \in [Requests -> SUBSET Items]
  /\ pending \subseteq Requests /\ abandoned \subseteq Requests
  /\ republished \subseteq Requests
  /\ got \in [Requests -> SUBSET Items] /\ confirmed \in [Requests -> SUBSET Items]
  /\ batch \in [Requests -> SUBSET Items]
  /\ channel \in [Requests -> {"open", "results", "rejected", "closed"}]
  /\ durable \in [Requests -> {"pending", "ok", "failed", "aborted"}]
  /\ timer \in [Requests -> {"off", "armed", "publish", "acks", "done"}]

\* Nothing happens for a request before it is submitted.
Fresh == \A r \in Requests : handler[r] = "idle" =>
  /\ r \notin pending /\ r \notin abandoned
  /\ got[r] = {} /\ confirmed[r] = {} /\ timer[r] = "off" /\ durable[r] = "pending"
  /\ \A c \in Copies : c[1] = r => at[c] = "absent"
  /\ \A u \in runs : u.copy[1] # r
  /\ \A s \in signals : s.req # r

\* A result is the outcome of its item.
Truthful ==
  /\ \A m \in inbox : m[2] \in worked[m[1]]
  /\ \A r \in Requests : got[r] \subseteq worked[r]
  /\ \A r \in Requests : channel[r] = "results" => worked[r] = Items

\* Only requests nobody waits for are cancelled as a whole; the direct copies
\* are cancelled once every missing item has its copy on the pool.
Cancels ==
  /\ \A r \in abandoned : r \notin pending
  /\ \A s \in signals : s.scope = "request" => s.req \notin pending
  /\ \A s \in signals : s.scope = "direct" /\ s.req \in pending =>
       Items \ got[s.req] \subseteq confirmed[s.req]

\* The fallback task took every item that is missing now.
Taken == \A r \in pending : timer[r] \in {"publish", "acks"} =>
           Items \ got[r] \subseteq batch[r]

\* A confirmed item has its pool copy.
Backed == \A r \in pending : \A i \in confirmed[r] : at[<<r, i, "pool">>] # "absent"

\* The collector waits for the item of this copy, and nothing of it was lost.
Awaited(c) == c[1] \in pending /\ c[2] \notin got[c[1]] /\ <<c[1], c[2]>> \notin lost

\* Its result is on the way, or the pool copy has taken over.
Answers(c) == c \in inbox \/ (c[3] = "direct" /\ c[2] \in confirmed[c[1]])

\* A copy that is gone has been answered ...
Answered == \A c \in Copies : Awaited(c) =>
              at[c] # "dead" /\ (at[c] = "gone" => Answers(c))

\* ... and so has one that is about to be acknowledged.
Sent == \A u \in runs : u.stage = "sent" /\ Awaited(u.copy) => Answers(u.copy)

\* A durable publish has stored every item on one route.
Stores == \A r \in Requests : durable[r] = "ok" =>
            Stored(r, Items, "direct") \/ Stored(r, Items, "pool")

Inv == /\ WorkTypes /\ GatewayTypes /\ Fresh /\ Truthful
       /\ Cancels /\ Taken /\ Backed /\ Answered /\ Sent /\ Stores

LEMMA CopyParts ==
  /\ \A c \in Copies : /\ c[1] \in Requests /\ c[2] \in Items /\ c[3] \in Routes
                       /\ c = <<c[1], c[2], c[3]>>
  /\ \A r \in Requests, i \in Items, q \in Routes : <<r, i, q>> \in Copies
BY DEF Copies

LEMMA InitInv == Init => Inv
BY DEF Init, WorkInit, ForAll, Inv, WorkTypes, GatewayTypes, Fresh, Truthful, Cancels,
       Taken, Backed, Answered, Sent, Stores, Awaited, Places, Handlers

\* Copies that stay in the stream keep what was confirmed and what is durable.
LEMMA KeptCopies ==
  ASSUME Inv, UNCHANGED <<pending, confirmed, durable>>,
         \A c \in Copies : at[c] # "absent" => at'[c] # "absent"
  PROVE  Backed' /\ Stores'
<1>1. Backed'
  BY CopyParts DEF Inv, Backed, GatewayTypes, Routes
<1>2. Stores'
  BY CopyParts DEF Inv, Stores, Stored, Routes
<1> QED BY <1>1, <1>2

LEMMA AckWaitExpiresInv ==
  ASSUME Inv, NEW c \in Copies, AckWaitExpires(c), UNCHANGED gwVars PROVE Inv'
<1>1. UNCHANGED <<tries, runs, inbox, signals, worked, lost, handler, published,
                  pending, got, channel, durable, timer, batch, republished,
                  confirmed, abandoned>>
  BY DEF AckWaitExpires, gwVars, collector, ending, task
<1>2. GatewayTypes' /\ Truthful' /\ Cancels' /\ Taken' /\ Sent'
  BY <1>1 DEF Inv, GatewayTypes, Truthful, Cancels, Taken, Sent, Awaited, Answers
<1>3. WorkTypes'
  BY <1>1, CopyParts DEF Inv, AckWaitExpires, Fault, WorkTypes, Run, Places
<1>4. Fresh'
  BY <1>1, CopyParts DEF Inv, AckWaitExpires, Fault, Fresh, WorkTypes, GatewayTypes,
         Run
<1>5. Backed' /\ Stores'
  BY <1>1, KeptCopies DEF Inv, WorkTypes, AckWaitExpires
<1>6. Answered'
  BY <1>1, CopyParts DEF Inv, AckWaitExpires, Fault, Answered, Awaited, Answers,
         WorkTypes, GatewayTypes, Run
<1> QED BY <1>2, <1>3, <1>4, <1>5, <1>6 DEF Inv

LEMMA ExpireCopyInv ==
  ASSUME Inv, NEW c \in Copies, ExpireCopy(c), UNCHANGED gwVars PROVE Inv'
<1>1. UNCHANGED <<tries, runs, inbox, signals, worked, handler, published, pending,
                  got, channel, durable, timer, batch, republished, confirmed,
                  abandoned>>
  BY DEF ExpireCopy, gwVars, collector, ending, task
<1>2. GatewayTypes' /\ Truthful' /\ Cancels' /\ Taken'
  BY <1>1 DEF Inv, GatewayTypes, Truthful, Cancels, Taken
<1>3. WorkTypes'
  BY <1>1, CopyParts DEF Inv, ExpireCopy, Fault, ReqOf, ItemOf, WorkTypes, Run,
         Places
<1>4. Fresh'
  BY <1>1, CopyParts DEF Inv, ExpireCopy, Fault, ReqOf, ItemOf, Fresh, WorkTypes,
         GatewayTypes, Run
<1>5. Backed' /\ Stores'
  BY <1>1, KeptCopies DEF Inv, WorkTypes, ExpireCopy
<1>6. Answered'
  BY <1>1, CopyParts DEF Inv, ExpireCopy, Fault, ReqOf, ItemOf, Answered, Awaited,
         Answers, WorkTypes, GatewayTypes, Run
<1>7. Sent'
  BY <1>1, CopyParts DEF Inv, ExpireCopy, Fault, ReqOf, ItemOf, Sent, Awaited,
         Answers, WorkTypes, GatewayTypes, Run
<1> QED BY <1>2, <1>3, <1>4, <1>5, <1>6, <1>7 DEF Inv

LEMMA DeliverInv ==
  ASSUME Inv, NEW c \in Copies, NEW w \in Workers, Deliver(c, w), UNCHANGED gwVars
  PROVE  Inv'
<1>1. UNCHANGED <<inbox, signals, worked, lost, faults, handler, published, pending,
                  got, channel, durable, timer, batch, republished, confirmed,
                  abandoned>>
  BY DEF Deliver, gwVars, collector, ending, task
<1>2. GatewayTypes' /\ Truthful' /\ Cancels' /\ Taken'
  BY <1>1 DEF Inv, GatewayTypes, Truthful, Cancels, Taken
<1>3. WorkTypes'
  BY <1>1, CopyParts DEF Inv, Deliver, MayDeliver, WorkTypes, Run, Places
<1>4. Fresh'
  BY <1>1, CopyParts DEF Inv, Deliver, MayDeliver, Fresh, WorkTypes, GatewayTypes,
         Run
<1>5. Backed' /\ Stores'
  BY <1>1, KeptCopies DEF Inv, WorkTypes, Deliver, MayDeliver
<1>6. Answered'
  BY <1>1, CopyParts DEF Inv, Deliver, MayDeliver, Answered, Awaited, Answers,
         WorkTypes, GatewayTypes, Run
<1>7. Sent'
  BY <1>1, CopyParts DEF Inv, Deliver, MayDeliver, Sent, Awaited, Answers, WorkTypes,
         GatewayTypes, Run
<1> QED BY <1>2, <1>3, <1>4, <1>5, <1>6, <1>7 DEF Inv

LEMMA SettleCancelledInv ==
  ASSUME Inv, NEW u \in runs, SettleCancelled(u), UNCHANGED gwVars PROVE Inv'
<1>1. UNCHANGED <<tries, inbox, signals, worked, lost, handler, published, pending,
                  got, channel, durable, timer, batch, republished, confirmed,
                  abandoned>>
  BY DEF SettleCancelled, gwVars, collector, ending, task
<1>2. GatewayTypes' /\ Truthful' /\ Cancels' /\ Taken'
  BY <1>1 DEF Inv, GatewayTypes, Truthful, Cancels, Taken
<1>a. u \in Run /\ u.copy \in Copies
  BY DEF Inv, WorkTypes, Run
<1>b. Awaited(u.copy) => Answers(u.copy)
  BY <1>a, CopyParts
     DEF SettleCancelled, Cancelled, Signal, ReqOf, Inv, Cancels, Awaited, Answers
<1>3. WorkTypes'
  BY <1>1, CopyParts DEF Inv, SettleCancelled, Acked, Fault, WorkTypes, Run, Places
<1>4. Fresh'
  BY <1>1, CopyParts DEF Inv, SettleCancelled, Acked, Fault, Fresh, WorkTypes,
         GatewayTypes, Run
<1>5. Backed' /\ Stores'
  BY <1>1, KeptCopies DEF Inv, WorkTypes, SettleCancelled, Acked, Run
<1>6. Answered'
  BY <1>1, <1>a, <1>b
     DEF Inv, SettleCancelled, Acked, Answered, Awaited, Answers, WorkTypes
<1>7. Sent'
  BY <1>1, CopyParts DEF Inv, SettleCancelled, Acked, Fault, Sent, Awaited, Answers,
         WorkTypes, GatewayTypes, Run
<1> QED BY <1>2, <1>3, <1>4, <1>5, <1>6, <1>7 DEF Inv

LEMMA PublishResultInv ==
  ASSUME Inv, NEW u \in runs, PublishResult(u), UNCHANGED gwVars PROVE Inv'
<1>1. UNCHANGED <<at, tries, signals, handler, published, pending, got, channel,
                  durable, timer, batch, republished, confirmed, abandoned>>
  BY DEF PublishResult, gwVars, collector, ending, task
<1>2. GatewayTypes' /\ Cancels' /\ Taken' /\ Backed' /\ Stores'
  BY <1>1 DEF Inv, GatewayTypes, Cancels, Taken, Backed, Stores, Stored
<1> DEFINE sent == [u EXCEPT !.stage = "sent"]
<1>a. /\ u \in Run /\ u.copy \in Copies
      /\ sent \in Run /\ sent.copy = u.copy
  BY DEF Inv, WorkTypes, Run
<1>b. runs' = (runs \ {u}) \cup {sent}
  BY DEF PublishResult
<1> HIDE DEF sent
<1>3. WorkTypes'
  <2>1. runs' \subseteq Run
    BY <1>a, <1>b DEF Inv, WorkTypes
  <2>2. worked' \in [Requests -> SUBSET Items]
    BY <1>a, CopyParts DEF PublishResult, ReqOf, ItemOf, Inv, WorkTypes
  <2>3. inbox' \subseteq Copies /\ lost' \subseteq Requests \X Items
    BY <1>a, CopyParts DEF PublishResult, ReqOf, ItemOf, Inv, WorkTypes
  <2> QED BY <1>1, <2>1, <2>2, <2>3 DEF Inv, WorkTypes
<1>4. Fresh'
  BY <1>1, <1>a, <1>b DEF Inv, Fresh
<1>5. Truthful'
  BY <1>1, CopyParts DEF Inv, PublishResult, Fault, ReqOf, ItemOf, Truthful,
         WorkTypes, GatewayTypes, Run
<1>6. Answered'
  BY <1>1, CopyParts DEF Inv, PublishResult, Fault, ReqOf, ItemOf, Answered, Awaited,
         Answers, WorkTypes, GatewayTypes, Run
<1>7. Sent'
  BY <1>1, CopyParts DEF Inv, PublishResult, Fault, ReqOf, ItemOf, Sent, Awaited,
         Answers, WorkTypes, GatewayTypes, Run
<1> QED BY <1>2, <1>3, <1>4, <1>5, <1>6, <1>7 DEF Inv

LEMMA NakInv ==
  ASSUME Inv, NEW u \in runs, Nak(u), UNCHANGED gwVars PROVE Inv'
<1>1. UNCHANGED <<tries, inbox, signals, worked, lost, handler, published, pending,
                  got, channel, durable, timer, batch, republished, confirmed,
                  abandoned>>
  BY DEF Nak, gwVars, collector, ending, task
<1>2. GatewayTypes' /\ Truthful' /\ Cancels' /\ Taken'
  BY <1>1 DEF Inv, GatewayTypes, Truthful, Cancels, Taken
<1>3. WorkTypes'
  BY <1>1, CopyParts DEF Inv, Nak, Fault, WorkTypes, Run, Places
<1>4. Fresh'
  BY <1>1, CopyParts DEF Inv, Nak, Fault, Fresh, WorkTypes, GatewayTypes, Run
<1>5. Backed' /\ Stores'
  BY <1>1, KeptCopies DEF Inv, WorkTypes, Nak, Run
<1>6. Answered'
  BY <1>1, CopyParts DEF Inv, Nak, Fault, Answered, Awaited, Answers, WorkTypes,
         GatewayTypes, Run
<1>7. Sent'
  BY <1>1, CopyParts DEF Inv, Nak, Fault, Sent, Awaited, Answers, WorkTypes,
         GatewayTypes, Run
<1> QED BY <1>2, <1>3, <1>4, <1>5, <1>6, <1>7 DEF Inv

LEMMA AckInv ==
  ASSUME Inv, NEW u \in runs, Ack(u), UNCHANGED gwVars PROVE Inv'
<1>1. UNCHANGED <<tries, inbox, signals, worked, lost, handler, published, pending,
                  got, channel, durable, timer, batch, republished, confirmed,
                  abandoned>>
  BY DEF Ack, gwVars, collector, ending, task
<1>2. GatewayTypes' /\ Truthful' /\ Cancels' /\ Taken'
  BY <1>1 DEF Inv, GatewayTypes, Truthful, Cancels, Taken
<1>a. u \in Run /\ u.copy \in Copies
  BY DEF Inv, WorkTypes, Run
<1>b. Awaited(u.copy) => Answers(u.copy)
  BY DEF Ack, Inv, Sent
<1>3. WorkTypes'
  BY <1>1, CopyParts DEF Inv, Ack, Acked, Fault, WorkTypes, Run, Places
<1>4. Fresh'
  BY <1>1, CopyParts DEF Inv, Ack, Acked, Fault, Fresh, WorkTypes, GatewayTypes, Run
<1>5. Backed' /\ Stores'
  BY <1>1, KeptCopies DEF Inv, WorkTypes, Ack, Acked, Run
<1>6. Answered'
  BY <1>1, <1>a, <1>b DEF Inv, Ack, Acked, Answered, Awaited, Answers, WorkTypes
<1>7. Sent'
  BY <1>1, CopyParts DEF Inv, Ack, Acked, Fault, Sent, Awaited, Answers, WorkTypes,
         GatewayTypes, Run
<1> QED BY <1>2, <1>3, <1>4, <1>5, <1>6, <1>7 DEF Inv

LEMMA CrashInv ==
  ASSUME Inv, NEW w \in Workers, Crash(w), UNCHANGED gwVars PROVE Inv'
<1>1. UNCHANGED <<at, tries, inbox, signals, worked, lost, handler, published,
                  pending, got, channel, durable, timer, batch, republished,
                  confirmed, abandoned>>
  BY DEF Crash, gwVars, collector, ending, task
<1>2. GatewayTypes' /\ Truthful' /\ Cancels' /\ Taken' /\ Backed' /\ Answered' /\
       Stores'
  BY <1>1 DEF Inv, GatewayTypes, Truthful, Cancels, Taken, Backed, Answered, Awaited,
         Answers, Stores, Stored
<1>3. WorkTypes'
  BY <1>1, CopyParts DEF Inv, Crash, Fault, WorkTypes, Run, Places
<1>4. Fresh'
  BY <1>1, CopyParts DEF Inv, Crash, Fault, Fresh, WorkTypes, GatewayTypes, Run
<1>5. Sent'
  BY <1>1, CopyParts DEF Inv, Crash, Fault, Sent, Awaited, Answers, WorkTypes,
         GatewayTypes, Run
<1> QED BY <1>2, <1>3, <1>4, <1>5 DEF Inv

LEMMA SubmitInv ==
  ASSUME Inv, NEW r \in Requests, Submit(r) PROVE Inv'
<1>1. UNCHANGED <<at, tries, runs, inbox, signals, worked, lost, faults, published,
                  got, channel, durable, timer, batch, republished, confirmed,
                  abandoned>>
  BY DEF Submit, workVars, ending, task
<1>2. WorkTypes' /\ Truthful' /\ Stores'
  BY <1>1 DEF Inv, WorkTypes, Truthful, Stores, Stored
<1>a. /\ handler[r] = "idle" /\ pending' = pending \cup {r}
      /\ handler' = [handler EXCEPT ![r] = "publish"]
  BY DEF Submit
<1>b. /\ got[r] = {} /\ confirmed[r] = {} /\ timer[r] = "off" /\ r \notin abandoned
      /\ \A c \in Copies : c[1] = r => at[c] = "absent"
      /\ \A u \in runs : u.copy[1] # r
      /\ \A s \in signals : s.req # r
  BY <1>a DEF Inv, Fresh
<1>3. GatewayTypes'
  BY <1>1, <1>a DEF Inv, GatewayTypes, Handlers
<1>4. Fresh'
  BY <1>1, <1>a DEF Inv, Fresh, GatewayTypes
<1>5. Cancels'
  BY <1>1, <1>a, <1>b DEF Inv, Cancels
<1>6. Taken'
  BY <1>1, <1>a, <1>b DEF Inv, Taken
<1>7. Backed'
  BY <1>1, <1>a, <1>b DEF Inv, Backed
<1>8. Answered'
  BY <1>1, <1>a, <1>b DEF Inv, Answered, Awaited, Answers
<1>9. Sent'
  BY <1>1, <1>a, <1>b DEF Inv, Sent, Awaited, Answers
<1> QED BY <1>2, <1>3, <1>4, <1>5, <1>6, <1>7, <1>8, <1>9 DEF Inv

LEMMA PublishSingleInv ==
  ASSUME Inv, NEW r \in Requests, NEW i \in Items, PublishSingle(r, i) PROVE Inv'
<1>1. UNCHANGED <<tries, runs, inbox, signals, worked, lost, handler, pending, got,
                  channel, durable, timer, batch, republished, confirmed, abandoned>>
  BY DEF PublishSingle, collector, ending, task, stream
<1>2. Truthful' /\ Cancels' /\ Taken' /\ Sent'
  BY <1>1 DEF Inv, Truthful, Cancels, Taken, Sent, Awaited, Answers
<1>3. WorkTypes'
  BY <1>1, CopyParts DEF Inv, PublishSingle, Enqueue, Fault, Publishing, Target,
         WorkTypes, Run, Places
<1>4. GatewayTypes'
  BY <1>1, CopyParts DEF Inv, PublishSingle, Enqueue, Fault, Publishing, Target,
         GatewayTypes, Handlers
<1>5. Fresh'
  BY <1>1, CopyParts DEF Inv, PublishSingle, Enqueue, Fault, Publishing, Target,
         Fresh, WorkTypes, GatewayTypes, Run
<1>6. Backed' /\ Stores'
  BY <1>1, KeptCopies DEF Inv, WorkTypes, PublishSingle, Enqueue
<1>7. Answered'
  BY <1>1, CopyParts DEF Inv, PublishSingle, Enqueue, Fault, Publishing, Target,
         Answered, Awaited, Answers, WorkTypes, GatewayTypes, Run
<1> QED BY <1>2, <1>3, <1>4, <1>5, <1>6, <1>7 DEF Inv

\* A handler that gives up takes its collector with it.
LEMMA GiveUpInv ==
  ASSUME Inv, NEW r \in Requests, handler[r] # "idle", GiveUp(r),
         UNCHANGED <<workVars, task>>
  PROVE  Inv'
<1>1. UNCHANGED <<at, tries, runs, inbox, signals, worked, lost, faults, timer,
                  batch>>
  BY DEF GiveUp, workVars, task, Finish, Remove
<1>2. WorkTypes'
  BY <1>1 DEF Inv, WorkTypes
<1>3. GatewayTypes'
  BY <1>1, CopyParts DEF Inv, GiveUp, Finish, Remove, GatewayTypes, Handlers
<1>4. Fresh'
  BY <1>1, CopyParts DEF Inv, GiveUp, Finish, Remove, Fresh, WorkTypes, GatewayTypes,
         Run
<1>5. Truthful'
  BY <1>1, CopyParts DEF Inv, GiveUp, Finish, Remove, Truthful, WorkTypes,
         GatewayTypes, Run
<1>6. Cancels'
  BY <1>1, CopyParts DEF Inv, GiveUp, Finish, Remove, Cancels, GatewayTypes
<1>7. Taken'
  BY <1>1, CopyParts DEF Inv, GiveUp, Finish, Remove, Taken, GatewayTypes
<1>8. Backed'
  BY <1>1, CopyParts DEF Inv, GiveUp, Finish, Remove, Backed, WorkTypes, GatewayTypes
<1>9. Answered'
  BY <1>1, CopyParts DEF Inv, GiveUp, Finish, Remove, Answered, Awaited, Answers,
         WorkTypes, GatewayTypes, Run
<1>10. Sent'
  BY <1>1, CopyParts DEF Inv, GiveUp, Finish, Remove, Sent, Awaited, Answers,
         WorkTypes, GatewayTypes, Run
<1>11. Stores'
  BY <1>1, CopyParts DEF Inv, GiveUp, Finish, Remove, Stores, Stored, WorkTypes,
         GatewayTypes
<1> QED BY <1>2, <1>3, <1>4, <1>5, <1>6, <1>7, <1>8, <1>9, <1>10, <1>11 DEF Inv

LEMMA PublishFailsInv ==
  ASSUME Inv, NEW r \in Requests, PublishFails(r) PROVE Inv'
<1>1. handler[r] # "idle" /\ UNCHANGED <<workVars, task>>
  BY DEF PublishFails, Publishing
<1>2. CASE Target(r) = "direct"
  <2>1. /\ handler' = [handler EXCEPT ![r] = "fallback"]
        /\ published' = [published EXCEPT ![r] = {}]
        /\ UNCHANGED <<at, tries, runs, inbox, signals, worked, lost, pending, got,
                       channel, durable, timer, batch, republished, confirmed,
                       abandoned>>
    BY <1>1, <1>2 DEF PublishFails, workVars, collector, ending, task
  <2>2. GatewayTypes'
    BY <2>1 DEF Inv, GatewayTypes, Handlers
  <2>3. Fresh'
    BY <2>1 DEF Inv, Fresh, GatewayTypes
  <2>4. /\ WorkTypes' /\ Truthful' /\ Cancels' /\ Taken' /\ Backed' /\ Answered'
        /\ Sent' /\ Stores'
    BY <2>1 DEF Inv, WorkTypes, Truthful, Cancels, Taken, Backed, Answered, Sent,
                Stores, Stored, Awaited, Answers
  <2> QED BY <2>2, <2>3, <2>4 DEF Inv
<1>3. CASE Target(r) # "direct"
  BY <1>1, <1>3, GiveUpInv DEF PublishFails
<1> QED BY <1>2, <1>3

LEMMA HandoffInv ==
  ASSUME Inv, NEW r \in Requests, Handoff(r) PROVE Inv'
<1>1. UNCHANGED <<at, tries, runs, inbox, signals, worked, lost, faults, published,
                  pending, got, channel, durable, batch, republished, confirmed,
                  abandoned>>
  BY DEF Handoff, workVars, collector, ending
<1>2. WorkTypes' /\ Truthful' /\ Cancels' /\ Backed' /\ Answered' /\ Sent' /\ Stores'
  BY <1>1 DEF Inv, WorkTypes, Truthful, Cancels, Backed, Answered, Awaited, Answers,
         Sent, Awaited, Answers, Stores, Stored
<1>3. GatewayTypes'
  BY <1>1, CopyParts DEF Inv, Handoff, GatewayTypes, Handlers
<1>4. Fresh'
  BY <1>1, CopyParts DEF Inv, Handoff, Fresh, WorkTypes, GatewayTypes, Run
<1>5. Taken'
  BY <1>1, CopyParts DEF Inv, Handoff, Taken, GatewayTypes
<1> QED BY <1>2, <1>3, <1>4, <1>5 DEF Inv

LEMMA FallbackHandoffInv ==
  ASSUME Inv, NEW r \in Requests, FallbackHandoff(r) PROVE Inv'
<1>1. UNCHANGED <<at, tries, runs, inbox, worked, lost, faults, published, pending,
                  got, channel, batch, abandoned>>
  BY DEF FallbackHandoff, ending
<1>2. WorkTypes' /\ Truthful'
  BY <1>1 DEF Inv, WorkTypes, Truthful
<1>3. GatewayTypes'
  BY <1>1, CopyParts DEF Inv, FallbackHandoff, Confirm, Signal, GatewayTypes,
         Handlers
<1>4. Fresh'
  BY <1>1, CopyParts DEF Inv, FallbackHandoff, Confirm, Signal, Fresh, WorkTypes,
         GatewayTypes, Run
<1>5. Cancels'
  BY <1>1, CopyParts DEF Inv, FallbackHandoff, Confirm, Signal, Cancels, GatewayTypes
<1>6. Taken'
  BY <1>1, CopyParts DEF Inv, FallbackHandoff, Confirm, Signal, Taken, GatewayTypes
<1>7. Backed'
  BY <1>1 DEF Inv, FallbackHandoff, Confirm, Backed, Stored, GatewayTypes
<1>8. Answered'
  BY <1>1, CopyParts DEF Inv, FallbackHandoff, Confirm, Signal, Answered, Awaited,
         Answers, WorkTypes, GatewayTypes, Run
<1>9. Sent'
  BY <1>1, CopyParts DEF Inv, FallbackHandoff, Confirm, Signal, Sent, Awaited,
         Answers, WorkTypes, GatewayTypes, Run
<1>10. Stores'
  BY <1>1 DEF Inv, FallbackHandoff, Stores, Stored, GatewayTypes
<1> QED BY <1>2, <1>3, <1>4, <1>5, <1>6, <1>7, <1>8, <1>9, <1>10 DEF Inv

LEMMA FallbackFailsInv ==
  ASSUME Inv, NEW r \in Requests, FallbackFails(r) PROVE Inv'
<1>1. UNCHANGED <<at, tries, runs, inbox, signals, worked, lost, timer, batch>>
  BY DEF FallbackFails, task, stream
<1>2. WorkTypes'
  BY <1>1 DEF Inv, WorkTypes
<1>3. GatewayTypes'
  BY <1>1, CopyParts DEF Inv, FallbackFails, Finish, Remove, GatewayTypes, Handlers
<1>4. Fresh'
  BY <1>1, CopyParts DEF Inv, FallbackFails, Finish, Remove, Fresh, WorkTypes,
         GatewayTypes, Run
<1>5. Truthful'
  BY <1>1, CopyParts DEF Inv, FallbackFails, Finish, Remove, Truthful, WorkTypes,
         GatewayTypes, Run
<1>6. Cancels'
  BY <1>1, CopyParts DEF Inv, FallbackFails, Finish, Remove, Cancels, GatewayTypes
<1>7. Taken'
  BY <1>1, CopyParts DEF Inv, FallbackFails, Finish, Remove, Taken, GatewayTypes
<1>8. Backed'
  BY <1>1, CopyParts DEF Inv, FallbackFails, Finish, Remove, Backed, WorkTypes,
         GatewayTypes
<1>9. Answered'
  BY <1>1, CopyParts DEF Inv, FallbackFails, Finish, Remove, Answered, Awaited,
         Answers, WorkTypes, GatewayTypes, Run
<1>10. Sent'
  BY <1>1, CopyParts DEF Inv, FallbackFails, Finish, Remove, Sent, Awaited, Answers,
         WorkTypes, GatewayTypes, Run
<1>11. Stores'
  BY <1>1 DEF Inv, FallbackFails, Finish, Stores, Stored, GatewayTypes
<1> QED BY <1>2, <1>3, <1>4, <1>5, <1>6, <1>7, <1>8, <1>9, <1>10, <1>11 DEF Inv

LEMMA AcksDoneInv ==
  ASSUME Inv, NEW r \in Requests, AcksDone(r) PROVE Inv'
<1>1. UNCHANGED <<at, tries, runs, inbox, signals, worked, lost, handler, published,
                  pending, got, channel, timer, batch, republished, confirmed,
                  abandoned>>
  BY DEF AcksDone, collector, ending, task, stream
<1>2. WorkTypes' /\ Truthful' /\ Cancels' /\ Taken' /\ Backed' /\ Answered' /\ Sent'
  BY <1>1 DEF Inv, WorkTypes, Truthful, Cancels, Taken, Backed, Answered, Awaited,
         Answers, Sent, Awaited, Answers
<1>3. GatewayTypes'
  BY <1>1, CopyParts DEF Inv, AcksDone, InitialRoute, GatewayTypes, Handlers
<1>4. Fresh'
  BY <1>1, CopyParts DEF Inv, AcksDone, InitialRoute, Fresh, WorkTypes, GatewayTypes,
         Run
<1>5. Stores'
  BY <1>1, CopyParts DEF Inv, AcksDone, InitialRoute, Stores, Stored, WorkTypes,
         GatewayTypes
<1> QED BY <1>2, <1>3, <1>4, <1>5 DEF Inv

LEMMA AbortInv ==
  ASSUME Inv, NEW r \in Requests, Abort(r) PROVE Inv'
<1>1. UNCHANGED <<at, tries, runs, inbox, signals, worked, lost, faults, handler,
                  published, timer, batch>>
  BY DEF Abort, workVars, task
<1>2. WorkTypes'
  BY <1>1 DEF Inv, WorkTypes
<1>3. GatewayTypes'
  BY <1>1, CopyParts DEF Inv, Abort, Remove, Send, GatewayTypes, Handlers
<1>4. Fresh'
  BY <1>1, CopyParts DEF Inv, Abort, Remove, Send, Fresh, WorkTypes, GatewayTypes,
         Run
<1>5. Truthful'
  BY <1>1, CopyParts DEF Inv, Abort, Remove, Send, Truthful, WorkTypes, GatewayTypes,
         Run
<1>6. Cancels'
  BY <1>1, CopyParts DEF Inv, Abort, Remove, Send, Cancels, GatewayTypes
<1>7. Taken'
  BY <1>1, CopyParts DEF Inv, Abort, Remove, Send, Taken, GatewayTypes
<1>8. Backed'
  BY <1>1, CopyParts DEF Inv, Abort, Remove, Send, Backed, WorkTypes, GatewayTypes
<1>9. Answered'
  BY <1>1, CopyParts DEF Inv, Abort, Remove, Send, Answered, Awaited, Answers,
         WorkTypes, GatewayTypes, Run
<1>10. Sent'
  BY <1>1, CopyParts DEF Inv, Abort, Remove, Send, Sent, Awaited, Answers, WorkTypes,
         GatewayTypes, Run
<1>11. Stores'
  BY <1>1, CopyParts DEF Inv, Abort, Remove, Send, Stores, Stored, WorkTypes,
         GatewayTypes
<1> QED BY <1>2, <1>3, <1>4, <1>5, <1>6, <1>7, <1>8, <1>9, <1>10, <1>11 DEF Inv

LEMMA TimerFiresInv ==
  ASSUME Inv, NEW r \in Requests, TimerFires(r) PROVE Inv'
<1>1. UNCHANGED <<at, tries, runs, inbox, signals, worked, lost, faults, handler,
                  published, pending, got, channel, durable, confirmed, abandoned>>
  BY DEF TimerFires, workVars, ending
<1>2. WorkTypes' /\ Truthful' /\ Cancels' /\ Backed' /\ Answered' /\ Sent' /\ Stores'
  BY <1>1 DEF Inv, WorkTypes, Truthful, Cancels, Backed, Answered, Awaited, Answers,
         Sent, Awaited, Answers, Stores, Stored
<1>3. GatewayTypes'
  BY <1>1, CopyParts DEF Inv, TimerFires, Missing, GatewayTypes, Handlers
<1>4. Fresh'
  BY <1>1, CopyParts DEF Inv, TimerFires, Missing, Fresh, WorkTypes, GatewayTypes,
         Run
<1>5. Taken'
  BY <1>1, CopyParts DEF Inv, TimerFires, Missing, Taken, GatewayTypes
<1> QED BY <1>2, <1>3, <1>4, <1>5 DEF Inv

LEMMA RepublishInv ==
  ASSUME Inv, NEW r \in Requests, Republish(r) PROVE Inv'
<1>1. UNCHANGED <<tries, runs, inbox, signals, worked, lost, handler, published,
                  pending, got, channel, durable, batch, republished, confirmed,
                  abandoned>>
  BY DEF Republish, collector, ending, stream
<1>2. Truthful' /\ Cancels' /\ Sent'
  BY <1>1 DEF Inv, Truthful, Cancels, Sent, Awaited, Answers
<1>3. WorkTypes'
  BY <1>1, CopyParts DEF Inv, Republish, Enqueue, Fault, WorkTypes, Run, Places
<1>4. GatewayTypes'
  BY <1>1, CopyParts DEF Inv, Republish, Enqueue, Fault, GatewayTypes, Handlers
<1>5. Fresh'
  BY <1>1, CopyParts DEF Inv, Republish, Enqueue, Fault, Fresh, WorkTypes,
         GatewayTypes, Run
<1>6. Taken'
  BY <1>1, CopyParts DEF Inv, Republish, Enqueue, Fault, Taken, GatewayTypes
<1>7. Backed' /\ Stores'
  BY <1>1, KeptCopies DEF Inv, WorkTypes, Republish, Enqueue
<1>8. Answered'
  BY <1>1, CopyParts DEF Inv, Republish, Enqueue, Fault, Answered, Awaited, Answers,
         WorkTypes, GatewayTypes, Run
<1> QED BY <1>2, <1>3, <1>4, <1>5, <1>6, <1>7, <1>8 DEF Inv

LEMMA RepublishAckedInv ==
  ASSUME Inv, NEW r \in Requests, RepublishAcked(r) PROVE Inv'
<1>1. UNCHANGED <<at, tries, runs, inbox, worked, lost, faults, handler, published,
                  pending, got, channel, durable, abandoned>>
  BY DEF RepublishAcked, ending
<1>2. WorkTypes' /\ Truthful' /\ Stores'
  BY <1>1 DEF Inv, WorkTypes, Truthful, Stores, Stored
<1>3. GatewayTypes'
  BY <1>1, CopyParts DEF Inv, RepublishAcked, Confirm, Durable, Signal, Stored,
         GatewayTypes, Handlers
<1>4. Fresh'
  BY <1>1, CopyParts DEF Inv, RepublishAcked, Confirm, Durable, Signal, Stored,
         Fresh, WorkTypes, GatewayTypes, Run
<1>5. Cancels'
  <2>1. r \in pending => Items \ got[r] \subseteq batch[r]
    BY DEF Inv, Taken, RepublishAcked
  <2>2. r \in pending => confirmed'[r] = confirmed[r] \cup batch[r]
    BY DEF RepublishAcked, Confirm, Inv, GatewayTypes
  <2>3. \A q \in Requests : confirmed[q] \subseteq confirmed'[q]
    BY DEF RepublishAcked, Confirm, Inv, GatewayTypes
  <2>4. signals' = signals \cup {Signal("direct", DirectWorker, r)}
    BY DEF RepublishAcked, Confirm
  <2> QED BY <1>1, <2>1, <2>2, <2>3, <2>4 DEF Inv, Cancels, Signal, GatewayTypes
<1>6. Taken'
  BY <1>1, CopyParts DEF Inv, RepublishAcked, Confirm, Durable, Signal, Stored,
         Taken, GatewayTypes
<1>7. Backed'
  BY <1>1, CopyParts DEF Inv, RepublishAcked, Confirm, Durable, Signal, Stored,
         Backed, WorkTypes, GatewayTypes
<1>8. Answered'
  BY <1>1, CopyParts DEF Inv, RepublishAcked, Confirm, Durable, Signal, Stored,
         Answered, Awaited, Answers, WorkTypes, GatewayTypes, Run
<1>9. Sent'
  BY <1>1, CopyParts DEF Inv, RepublishAcked, Confirm, Durable, Signal, Stored, Sent,
         Awaited, Answers, WorkTypes, GatewayTypes, Run
<1> QED BY <1>2, <1>3, <1>4, <1>5, <1>6, <1>7, <1>8, <1>9 DEF Inv

LEMMA RepublishFailsInv ==
  ASSUME Inv, NEW r \in Requests, RepublishFails(r) PROVE Inv'
<1>1. UNCHANGED <<at, tries, runs, inbox, signals, worked, lost, handler, published,
                  pending, got, channel, durable, republished, confirmed, abandoned>>
  BY DEF RepublishFails, collector, ending, stream
<1>2. WorkTypes' /\ Truthful' /\ Cancels' /\ Backed' /\ Answered' /\ Sent' /\ Stores'
  BY <1>1 DEF Inv, WorkTypes, Truthful, Cancels, Backed, Answered, Awaited, Answers,
         Sent, Awaited, Answers, Stores, Stored
<1>3. GatewayTypes'
  BY <1>1, CopyParts DEF Inv, RepublishFails, GatewayTypes, Handlers
<1>4. Fresh'
  BY <1>1, CopyParts DEF Inv, RepublishFails, Fresh, WorkTypes, GatewayTypes, Run
<1>5. Taken'
  BY <1>1, CopyParts DEF Inv, RepublishFails, Taken, GatewayTypes
<1> QED BY <1>2, <1>3, <1>4, <1>5 DEF Inv

LEMMA ReturnResultsInv ==
  ASSUME Inv, NEW r \in Requests, ReturnResults(r) PROVE Inv'
<1>1. UNCHANGED <<at, tries, runs, inbox, signals, worked, lost, faults, pending,
                  got, timer, batch, republished, confirmed, abandoned>>
  BY DEF ReturnResults, workVars, collector, task
<1>2. WorkTypes' /\ Cancels' /\ Taken' /\ Backed' /\ Answered' /\ Sent'
  BY <1>1 DEF Inv, WorkTypes, Cancels, Taken, Backed, Answered, Awaited, Answers,
         Sent, Awaited, Answers
<1>3. GatewayTypes'
  BY <1>1, CopyParts DEF Inv, ReturnResults, Finish, GatewayTypes, Handlers
<1>4. Fresh'
  BY <1>1, CopyParts DEF Inv, ReturnResults, Finish, Fresh, WorkTypes, GatewayTypes,
         Run
<1>5. Truthful'
  BY <1>1, CopyParts DEF Inv, ReturnResults, Finish, Truthful, WorkTypes,
         GatewayTypes, Run
<1>6. Stores'
  BY <1>1, CopyParts DEF Inv, ReturnResults, Finish, Stores, Stored, WorkTypes,
         GatewayTypes
<1> QED BY <1>2, <1>3, <1>4, <1>5, <1>6 DEF Inv

LEMMA ReturnFailureInv ==
  ASSUME Inv, NEW r \in Requests, ReturnFailure(r) \/ Disconnect(r) PROVE Inv'
BY GiveUpInv DEF ReturnFailure, Disconnect, Publishing

LEMMA ExpireInv ==
  ASSUME Inv, NEW r \in Requests, Expire(r) PROVE Inv'
<1>1. UNCHANGED <<at, tries, runs, inbox, signals, worked, lost, faults, handler,
                  published, durable, timer, batch>>
  BY DEF Expire, workVars, task
<1>2. WorkTypes' /\ Stores'
  BY <1>1 DEF Inv, WorkTypes, Stores, Stored
<1>3. GatewayTypes'
  BY <1>1, CopyParts DEF Inv, Expire, Remove, Send, GatewayTypes, Handlers
<1>4. Fresh'
  BY <1>1, CopyParts DEF Inv, Expire, Remove, Send, Fresh, WorkTypes, GatewayTypes,
         Run
<1>5. Truthful'
  BY <1>1, CopyParts DEF Inv, Expire, Remove, Send, Truthful, WorkTypes,
         GatewayTypes, Run
<1>6. Cancels'
  BY <1>1, CopyParts DEF Inv, Expire, Remove, Send, Cancels, GatewayTypes
<1>7. Taken'
  BY <1>1, CopyParts DEF Inv, Expire, Remove, Send, Taken, GatewayTypes
<1>8. Backed'
  BY <1>1, CopyParts DEF Inv, Expire, Remove, Send, Backed, WorkTypes, GatewayTypes
<1>9. Answered'
  BY <1>1, CopyParts DEF Inv, Expire, Remove, Send, Answered, Awaited, Answers,
         WorkTypes, GatewayTypes, Run
<1>10. Sent'
  BY <1>1, CopyParts DEF Inv, Expire, Remove, Send, Sent, Awaited, Answers,
         WorkTypes, GatewayTypes, Run
<1> QED BY <1>2, <1>3, <1>4, <1>5, <1>6, <1>7, <1>8, <1>9, <1>10 DEF Inv

LEMMA SendCancelInv ==
  ASSUME Inv, NEW r \in Requests, SendCancel(r) PROVE Inv'
<1>1. UNCHANGED <<at, tries, runs, inbox, worked, lost, faults, handler, published,
                  pending, got, channel, durable, timer, batch, republished,
                  confirmed>>
  BY DEF SendCancel, collector, task
<1>2. WorkTypes' /\ Truthful' /\ Taken' /\ Backed' /\ Answered' /\ Sent' /\ Stores'
  BY <1>1 DEF Inv, WorkTypes, Truthful, Taken, Backed, Answered, Awaited, Answers,
         Sent, Awaited, Answers, Stores, Stored
<1>3. GatewayTypes'
  BY <1>1, CopyParts DEF Inv, SendCancel, Signal, GatewayTypes, Handlers
<1>4. Fresh'
  BY <1>1, CopyParts DEF Inv, SendCancel, Signal, Fresh, WorkTypes, GatewayTypes, Run
<1>5. Cancels'
  BY <1>1, CopyParts DEF Inv, SendCancel, Signal, Cancels, GatewayTypes
<1> QED BY <1>2, <1>3, <1>4, <1>5 DEF Inv

LEMMA HandleResultInv ==
  ASSUME Inv, NEW m \in inbox, HandleResult(m) PROVE Inv'
<1> DEFINE r == ReqOf(m)
           results == IF Accepts(m) THEN got[r] \cup {ItemOf(m)} ELSE got[r]
<1>1. /\ UNCHANGED <<at, tries, runs, signals, worked, lost, handler, published,
                     durable, timer, batch>>
      /\ inbox' = inbox \ {m}
  BY DEF HandleResult, task
<1>2. /\ m \in Copies /\ r \in Requests /\ r = m[1] /\ ItemOf(m) = m[2] /\ m[2] \in Items
      /\ handler[r] = "idle" => r \notin pending
  BY CopyParts DEF Inv, WorkTypes, Fresh, ReqOf, ItemOf
<1>3. results \subseteq Items /\ got[r] \subseteq results /\ results \subseteq worked[r]
  BY <1>2 DEF Inv, GatewayTypes, Truthful
<1>4. m[1] = r /\ Accepts(m) => m[2] \in results
  BY <1>2
<1>5. ~Accepts(m) /\ r \in pending => m[2] \in got[r] \/
                                   (m[3] = "direct" /\ m[2] \in confirmed[r])
  BY <1>2 DEF Accepts, ReqOf, ItemOf
<1> HIDE DEF r, results
<1>6. WorkTypes' /\ Stores'
  BY <1>1 DEF Inv, WorkTypes, Stores, Stored
<1>7. CASE r \in pending /\ Complete(results)
  <2>1. /\ pending' = pending \ {r} /\ got' = [got EXCEPT ![r] = {}]
        /\ republished' = republished \ {r} /\ abandoned' = abandoned
        /\ confirmed' = [confirmed EXCEPT ![r] = {}]
        /\ channel' = [channel EXCEPT ![r] = "results"]
    BY <1>7 DEF HandleResult, Remove, Send, r, results
  <2>2. worked[r] = Items
    BY <1>2, <1>3, <1>7 DEF Complete, Inv, WorkTypes
  <2>3. GatewayTypes'
    BY <1>1, <1>2, <2>1 DEF Inv, GatewayTypes
  <2>4. Fresh'
    BY <1>1, <1>2, <2>1 DEF Inv, Fresh, GatewayTypes
  <2>5. Truthful'
    BY <1>1, <1>2, <2>1, <2>2 DEF Inv, Truthful, GatewayTypes
  <2>6. Cancels' /\ Taken' /\ Backed'
    BY <1>1, <1>2, <2>1 DEF Inv, Cancels, Taken, Backed, GatewayTypes
  <2>7. Answered' /\ Sent'
    BY <1>1, <1>2, <2>1, CopyParts
       DEF Inv, Answered, Sent, Awaited, Answers, GatewayTypes, WorkTypes, Run
  <2> QED BY <1>6, <2>3, <2>4, <2>5, <2>6, <2>7 DEF Inv
<1>8. CASE ~(r \in pending /\ Complete(results))
  <2>1. /\ got' = [got EXCEPT ![r] = results]
        /\ UNCHANGED <<pending, republished, confirmed, channel, abandoned>>
    BY <1>8 DEF HandleResult, ending, r, results
  <2>2. GatewayTypes'
    BY <1>1, <1>2, <1>3, <2>1 DEF Inv, GatewayTypes
  <2>3. results = got[r] \/ r \in pending
    BY DEF results, Accepts, r
  <2>4. Fresh'
    BY <1>1, <1>2, <2>1, <2>3 DEF Inv, Fresh, GatewayTypes
  <2>5. Truthful'
    BY <1>1, <1>2, <1>3, <2>1 DEF Inv, Truthful, GatewayTypes
  <2>6. Cancels' /\ Taken' /\ Backed'
    BY <1>1, <1>2, <1>3, <2>1 DEF Inv, Cancels, Taken, Backed, GatewayTypes
  <2>7. ASSUME NEW c \in Copies, Awaited(c)' PROVE Awaited(c) /\ (Answers(c) => Answers(c)')
    BY <1>1, <1>2, <1>3, <1>4, <1>5, <2>1, <2>7 DEF Awaited, Answers, Inv, GatewayTypes
  <2>8. Answered'
    BY <1>1, <2>7 DEF Inv, Answered
  <2>9. Sent'
    BY <1>1, <2>7 DEF Inv, Sent, WorkTypes, Run
  <2> QED BY <1>6, <2>2, <2>4, <2>5, <2>6, <2>8, <2>9 DEF Inv
<1> QED BY <1>7, <1>8

LEMMA RejectChunksInv ==
  ASSUME Inv, NEW m \in inbox, RejectChunks(m) PROVE Inv'
<1>1. UNCHANGED <<at, tries, runs, signals, worked, lost, handler, published,
                  durable, timer, batch>>
  BY DEF RejectChunks, task
<1>2. Stores'
  BY <1>1 DEF Inv, Stores, Stored
<1>3. WorkTypes'
  BY <1>1, CopyParts DEF Inv, RejectChunks, Remove, Send, ReqOf, WorkTypes, Run,
         Places
<1>4. GatewayTypes'
  BY <1>1, CopyParts DEF Inv, RejectChunks, Remove, Send, ReqOf, GatewayTypes,
         Handlers
<1>5. Fresh'
  BY <1>1, CopyParts DEF Inv, RejectChunks, Remove, Send, ReqOf, Fresh, WorkTypes,
         GatewayTypes, Run
<1>6. Truthful'
  BY <1>1, CopyParts DEF Inv, RejectChunks, Remove, Send, ReqOf, Truthful, WorkTypes,
         GatewayTypes, Run
<1>7. Cancels'
  BY <1>1, CopyParts DEF Inv, RejectChunks, Remove, Send, ReqOf, Cancels,
         GatewayTypes
<1>8. Taken'
  BY <1>1, CopyParts DEF Inv, RejectChunks, Remove, Send, ReqOf, Taken, GatewayTypes
<1>9. Backed'
  BY <1>1, CopyParts DEF Inv, RejectChunks, Remove, Send, ReqOf, Backed, WorkTypes,
         GatewayTypes
<1>10. Answered'
  BY <1>1, CopyParts DEF Inv, RejectChunks, Remove, Send, ReqOf, Answered, Awaited,
         Answers, WorkTypes, GatewayTypes, Run
<1>11. Sent'
  BY <1>1, CopyParts DEF Inv, RejectChunks, Remove, Send, ReqOf, Sent, Awaited,
         Answers, WorkTypes, GatewayTypes, Run
<1> QED BY <1>2, <1>3, <1>4, <1>5, <1>6, <1>7, <1>8, <1>9, <1>10, <1>11 DEF Inv

LEMMA StepInv == ASSUME Inv, [Next]_vars PROVE Inv'
<1>1. CASE WorkNext /\ UNCHANGED gwVars
  BY <1>1, AckWaitExpiresInv, ExpireCopyInv, DeliverInv, SettleCancelledInv,
     PublishResultInv, NakInv, AckInv, CrashInv
     DEF WorkNext
<1>2. ASSUME NEW r \in Requests, Gateway(r) PROVE Inv'
  BY <1>2, SubmitInv, PublishSingleInv, PublishFailsInv, HandoffInv,
     FallbackHandoffInv, FallbackFailsInv, AcksDoneInv, AbortInv, TimerFiresInv,
     RepublishInv, RepublishAckedInv, RepublishFailsInv, ReturnResultsInv,
     ReturnFailureInv, ExpireInv, SendCancelInv
     DEF Gateway
<1>3. CASE UNCHANGED vars
  <2> USE <1>3 DEF vars, workVars, gwVars, collector, ending, task
  <2>1. WorkTypes' /\ GatewayTypes'
    BY DEF Inv, WorkTypes, GatewayTypes
  <2>2. Fresh' /\ Truthful'
    BY DEF Inv, Fresh, Truthful
  <2>3. Cancels' /\ Taken' /\ Backed'
    BY DEF Inv, Cancels, Taken, Backed
  <2>4. Answered'
    BY DEF Inv, Answered, Awaited, Answers
  <2>5. Sent'
    BY DEF Inv, Sent, Awaited, Answers
  <2>6. Stores'
    BY DEF Inv, Stores, Stored
  <2> QED BY <2>1, <2>2, <2>3, <2>4, <2>5, <2>6 DEF Inv
<1> QED BY <1>1, <1>2, <1>3, HandleResultInv, RejectChunksInv DEF Next

\* The invariant behind both results holds of every request, worker and fault.
THEOREM Invariant == Spec => []Inv
BY InitInv, StepInv, PTL DEF Spec

\* A durable request never waits for an item that cannot arrive, unless the
\* transport lost it: the cancels of the fallback, the stale-result rule,
\* redeliveries and acknowledgements never remove the last copy between them.
THEOREM NothingStranded == Spec => []NoItemStranded
<1>1. Inv => NoItemStranded
  <2> SUFFICES ASSUME Inv, NEW r \in pending, durable[r] = "ok", NEW i \in Missing(r),
                      <<r, i>> \notin lost
               PROVE  CanArrive(r, i)
    BY DEF NoItemStranded
  <2> DEFINE Copy(q) == <<r, i, q>>
  <2>1. r \in Requests /\ i \in Items /\ i \notin got[r]
    BY DEF Inv, GatewayTypes, Missing
  <2>2. ASSUME NEW q \in Routes
        PROVE  Copy(q) \in Copies /\ Awaited(Copy(q))
    BY <2>1, CopyParts DEF Awaited
  <2>3. ASSUME NEW q \in Routes, at[Copy(q)] # "absent",
               ~(at[Copy(q)] \in {"queued", "out"})
        PROVE  Answers(Copy(q))
    BY <2>2, <2>3 DEF Inv, Answered, WorkTypes, Places
  <2>4. CASE i \in confirmed[r]
    <3>1. "pool" \in Routes /\ at[Copy("pool")] # "absent"
      BY <2>4 DEF Inv, Backed, Routes
    <3>2. at[Copy("pool")] \in {"queued", "out"} \/ Copy("pool") \in inbox
      BY <2>3, <3>1 DEF Answers
    <3>3. Accepts(Copy("pool"))
      BY <2>1 DEF Accepts, ReqOf, ItemOf
    <3> QED BY <3>1, <3>2, <3>3 DEF CanArrive
  <2>5. CASE i \notin confirmed[r]
    <3>1. PICK q \in Routes : at[Copy(q)] # "absent"
      BY <2>1 DEF Inv, Stores, Stored, Routes
    <3>2. at[Copy(q)] \in {"queued", "out"} \/ Copy(q) \in inbox
      BY <2>3, <2>5, <3>1 DEF Answers
    <3>3. Accepts(Copy(q))
      BY <2>1, <2>5 DEF Accepts, ReqOf, ItemOf
    <3> QED BY <3>2, <3>3 DEF CanArrive
  <2> QED BY <2>4, <2>5
<1> QED BY <1>1, Invariant, PTL

----------------------------------------------------------------------------
(* Refinement.                                                             *)

Mapped == [r \in Requests |-> Status(r)]

LEMMA InitRefines == Init => Reply!Init
BY DEF Init, WorkInit, ForAll, Reply!Init, Status

\* Steps that the client does not see.
LEMMA Unseen ==
  ASSUME UNCHANGED <<handler, worked>> PROVE UNCHANGED Reply!vars
BY DEF Reply!vars, Status

\* The handler of one request goes on.
LEMMA HandlerMoves ==
  ASSUME Inv, NEW r \in Requests, NEW h \in Handlers,
         handler' = [handler EXCEPT ![r] = h], worked' = worked
  PROVE  Mapped' = [Mapped EXCEPT ![r] = IF h \in {"idle", "results", "failed"}
                                         THEN h ELSE "open"]
BY DEF Inv, GatewayTypes, Mapped, Status

LEMMA FinishRefines ==
  ASSUME Inv, NEW r \in Requests, NEW h \in {"results", "failed"}, Finish(r, h),
         worked' = worked, handler[r] \in {"publish", "fallback", "wait"},
         h = "results" => worked[r] = Items
  PROVE  Reply!Next
<1>1. Mapped' = [Mapped EXCEPT ![r] = h]
  BY HandlerMoves DEF Finish, Handlers
<1>2. Mapped[r] = "open"
  BY DEF Mapped, Status
<1>3. CASE h = "results"
  BY <1>1, <1>2, <1>3 DEF Reply!Next, Reply!Succeed, Mapped
<1>4. CASE h = "failed"
  BY <1>1, <1>2, <1>4 DEF Reply!Next, Reply!Fail, Mapped
<1> QED BY <1>3, <1>4

LEMMA WorkRefines ==
  ASSUME Inv, WorkNext, UNCHANGED gwVars PROVE [Reply!Next]_(Reply!vars)
<1>1. handler' = handler
  BY DEF gwVars
<1>2. ASSUME NEW u \in runs, PublishResult(u) PROVE Reply!Next
  <2> DEFINE r == u.copy[1]
  <2>1. r \in Requests /\ u.copy[2] \in Items /\ handler[r] # "idle"
    BY CopyParts DEF Inv, WorkTypes, Run, Fresh, GatewayTypes
  <2>2. worked' = [worked EXCEPT ![r] = @ \cup {u.copy[2]}]
    BY <1>2 DEF PublishResult, ReqOf, ItemOf
  <2>3. Mapped' = Mapped /\ Mapped[r] # "idle"
    BY <1>1, <2>1 DEF Mapped, Status
  <2>4. Reply!Work(r, u.copy[2])
    BY <2>2, <2>3 DEF Reply!Work, Mapped
  <2> QED BY <2>1, <2>4 DEF Reply!Next
<1>3. (\E u \in runs : PublishResult(u)) \/ worked' = worked
  BY DEF WorkNext, AckWaitExpires, ExpireCopy, Deliver, SettleCancelled, Nak, Ack, Crash
<1> QED BY <1>1, <1>2, <1>3, Unseen

LEMMA GatewayRefines ==
  ASSUME Inv, NEW r \in Requests, Gateway(r) PROVE [Reply!Next]_(Reply!vars)
<1>1. worked' = worked
  BY DEF Gateway, Submit, PublishSingle, PublishFails, Handoff, FallbackHandoff,
         FallbackFails, AcksDone, Abort, TimerFires, Republish, RepublishAcked,
         RepublishFails, ReturnResults, ReturnFailure, Disconnect, Expire, SendCancel,
         workVars, stream
<1>2. CASE Submit(r)
  <2>1. Mapped' = [Mapped EXCEPT ![r] = "open"] /\ Mapped[r] = "idle"
    BY <1>1, <1>2, HandlerMoves DEF Submit, Handlers, Mapped, Status
  <2> QED BY <1>1, <2>1 DEF Reply!Next, Reply!Submit, Mapped
<1>3. CASE ReturnResults(r)
  <2>1. channel[r] = "results" => worked[r] = Items
    BY DEF Inv, Truthful
  <2> QED BY <1>1, <1>3, <2>1, FinishRefines DEF ReturnResults
<1>4. ASSUME GiveUp(r) \/ FallbackFails(r), handler[r] \in {"publish", "fallback", "wait"}
      PROVE  Reply!Next
  BY <1>1, <1>4, FinishRefines DEF GiveUp, FallbackFails
<1>5. CASE PublishFails(r) /\ Target(r) = "direct"
  <2>1. Mapped' = Mapped
    BY <1>1, <1>5, HandlerMoves
       DEF PublishFails, Publishing, Handlers, Mapped, Status, Inv, GatewayTypes
  <2> QED BY <1>1, <2>1 DEF Reply!vars, Mapped
<1>6. CASE Handoff(r) \/ FallbackHandoff(r)
  <2>1. Mapped' = Mapped
    BY <1>1, <1>6, HandlerMoves
       DEF Handoff, FallbackHandoff, Handlers, Mapped, Status, Inv, GatewayTypes
  <2> QED BY <1>1, <2>1 DEF Reply!vars, Mapped
<1>7. CASE (PublishFails(r) /\ Target(r) # "direct") \/ FallbackFails(r)
           \/ ReturnFailure(r) \/ Disconnect(r)
  BY <1>4, <1>7 DEF PublishFails, FallbackFails, ReturnFailure, Disconnect, Publishing
<1>8. CASE (\E i \in Items : PublishSingle(r, i)) \/ AcksDone(r) \/ Abort(r)
           \/ TimerFires(r) \/ Republish(r) \/ RepublishAcked(r) \/ RepublishFails(r)
           \/ Expire(r) \/ SendCancel(r)
  <2>1. handler' = handler
    BY <1>8 DEF PublishSingle, AcksDone, Abort, TimerFires, Republish, RepublishAcked,
                RepublishFails, Expire, SendCancel
  <2> QED BY <1>1, <2>1, Unseen
<1> QED BY <1>2, <1>3, <1>5, <1>6, <1>7, <1>8 DEF Gateway

\* The queue keeps its promise to the client: one answer per request, and one
\* with results only when workers produced an outcome for every item.
THEOREM Refinement == Spec => ImplementsRequestReply
<1>1. Inv /\ [Next]_vars => [Reply!Next]_(Reply!vars)
  <2> SUFFICES ASSUME Inv, [Next]_vars PROVE [Reply!Next]_(Reply!vars)
    OBVIOUS
  <2>1. ASSUME NEW m \in inbox, HandleResult(m) \/ RejectChunks(m)
        PROVE  UNCHANGED Reply!vars
    BY <2>1, Unseen DEF HandleResult, RejectChunks
  <2>2. CASE UNCHANGED vars
    BY <2>2, Unseen DEF vars, workVars, gwVars
  <2> QED BY <2>1, <2>2, WorkRefines, GatewayRefines DEF Next
<1> QED BY <1>1, InitRefines, Invariant, PTL DEF Spec, ImplementsRequestReply, Reply!Spec
=============================================================================
