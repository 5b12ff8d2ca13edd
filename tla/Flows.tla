-------------------------------- MODULE Flows --------------------------------
(***************************************************************************)
(* A durable flow of one conversation: FlowEngine and Pass in              *)
(* packages/core/src/conversation/flows.ts.  What is stored is a journal   *)
(* of what each step came to.  A run that stopped, at a wait or because    *)
(* its process ended, is carried on by running its function again from the *)
(* top: the steps in the journal give what they gave, and the first one    *)
(* past it happens.                                                        *)
(*                                                                         *)
(* The function is Program: the step it takes next, given what each step   *)
(* before gave.  It has one version and is deterministic, as the engine    *)
(* asks of it.  One pass is under way at a time, under the conversation's  *)
(* lock, and each action is the code up to the next write or effect.  The  *)
(* store may fail to write what a step came to and the end of a run, and   *)
(* to read the run at a deadline or in resume, but not to write that a run *)
(* or a wait has begun or that a wait rejected an answer, nor to read the  *)
(* run for an update or when it is cancelled at no wait.                   *)
(***************************************************************************)
EXTENDS Naturals, Sequences

CONSTANTS
    Updates,      \* by identity: one of them may be delivered again
    Histories,    \* sequences of "ok" and "thrown"
    Program,      \* the label of the step taken after each history, or Return
    Return,
    Effects,      \* the labels of effects, and the others are of waits
    Repeatable,   \* the effects that are safe to repeat
    Timed,        \* the waits that have a deadline
    None,
    MaxRuns, MaxStops, MaxFails

ASSUME FlowAssumption ==
    /\ None \notin Updates
    /\ Histories \subseteq Seq({"ok", "thrown"}) /\ <<>> \in Histories
    /\ MaxRuns \in Nat /\ MaxStops \in Nat /\ MaxFails \in Nat

Labels == {Program[h] : h \in Histories} \ {Return}

\* A step that does not return has another step after it, whatever it gave.
ASSUME ProgramAssumption ==
    /\ Program \in [Histories -> Labels \cup {Return}]
    /\ None \notin Labels /\ Return \notin Effects /\ Repeatable \subseteq Effects
    /\ \A h \in Histories : Program[h] # Return =>
          Append(h, "ok") \in Histories /\ Append(h, "thrown") \in Histories

VARIABLES
    store,     \* the record of the conversation's last run
    due,       \* whether the deadline of the wait it is at has passed
    done,      \* how often the effect at each place of this run was run
    pass,      \* the pass under way
    handlers,  \* the update whose handlers may start a flow, or None
    next,      \* the update that starts a flow once the run there is cancelled, or None
    timer,     \* whether this process has a timer for the deadline
    fired,     \* whether an expiry waits for the conversation's turn
    found,     \* what resume read of the run: nothing yet, or whether to arm
    life,      \* this process: deadlines not looked for, looked for, or given up
    stops,     \* how often it was shut down or died
    fails,     \* how often the store failed
    lost       \* whether a failure of the store took what would have acted on a deadline

outside == <<due, done>>
turn == <<pass, handlers, next>>
timing == <<timer, fired, found, life>>
vars == <<store, outside, turn, timing, stops, fails, lost>>

-----------------------------------------------------------------------------
(* Records and their replay.                                               *)

Settled(e) == e.kind # "started"

Gives(e) == IF e.kind \in {"done", "answer"} THEN "ok" ELSE "thrown"

Outcomes(j) == [i \in 1 .. Len(j) |-> Gives(j[i])]

\* Mutation: an effect that failed is tried again.
PastRetries(j) ==
    IF j # <<>> /\ j[Len(j)].kind \in {"started", "failed"} THEN SubSeq(j, 1, Len(j) - 1) ELSE j

\* The journal up to what is settled: an effect may have started and not ended.
Past(j) == IF j # <<>> /\ ~Settled(j[Len(j)]) THEN SubSeq(j, 1, Len(j) - 1) ELSE j

Active == store.status = "active"

\* Replaying meets the steps it recorded: the same code is at the same place.
Follows(rec) ==
    /\ \A i \in 1 .. Len(rec.journal) :
          LET h == Outcomes(SubSeq(rec.journal, 1, i - 1))
          IN  h \in Histories /\ Program[h] = rec.journal[i].label
    /\ rec.waiting # None =>
          Outcomes(rec.journal) \in Histories /\ Program[Outcomes(rec.journal)] = rec.waiting

\* Mutation: only the update that started the run is remembered.
HandledStart(u) == store.by = u

\* What an update delivered again is known by.
Handled(u) ==
    store.by = u \/ \E i \in 1 .. Len(store.journal) : store.journal[i].by = u

Idle == pass.drive = "none" /\ handlers = None /\ next = None

NoPass == [drive |-> "none", of |-> None, journal |-> <<>>, waiting |-> None,
           at |-> None, past |-> <<>>, used |-> FALSE, stage |-> "code"]

Begins(drive, u, rec) ==
    pass' = [drive |-> drive, of |-> u, journal |-> rec.journal, waiting |-> rec.waiting,
             at |-> rec.waiting, past |-> Outcomes(Past(rec.journal)),
             used |-> drive # "update", stage |-> "code"]

\* A run being cancelled waits for nothing more, nor once it was told so at a wait.
Cancelled ==
    \/ pass.drive = "cancel"
    \/ \E i \in 1 .. Len(pass.journal) : pass.journal[i].kind = "cancelled"

Step == Program[pass.past]
Place == Len(pass.past) + 1

-----------------------------------------------------------------------------
(* Writing.                                                                *)

\* #arm: a timer is kept for a wait with a deadline, and for nothing else.
Arms(w) == timer' = (w \in Timed)

Written(j, w) ==
    /\ store' = [store EXCEPT !.journal = j, !.waiting = w]
    /\ Arms(w)
    /\ lost' = FALSE
    /\ UNCHANGED fails

Fails == fails < MaxFails /\ fails' = fails + 1

StoreFails == Fails /\ UNCHANGED <<store, timer, lost>>

\* Nothing is left in this process that looks at the deadline.
Loses == lost' = ~(timer' \/ fired' \/ found' \in {"waits", "due"})

Entry(kind, by) == [kind |-> kind, label |-> Step, by |-> by]

Noted(e) == Append(SubSeq(pass.journal, 1, Place - 1), e)

\* #record, and the code goes on with what the step gave, or with the store's failure.
\* Whatever waited at this place does so no longer.
Record(e) ==
    /\ \/ Written(Noted(e), None)
       \/ StoreFails
    /\ pass' = [pass EXCEPT !.journal = Noted(e), !.waiting = None, !.at = None, !.used = TRUE,
                            !.stage = "code",
                            !.past = Append(@, IF fails' > fails THEN "thrown" ELSE Gives(e))]

-----------------------------------------------------------------------------
(* Steps of a pass.                                                        *)

Running == pass.drive # "none" /\ pass.stage = "code"

Began == Place <= Len(pass.journal)

\* Mutation: an effect is run before it is written down that it started.
StartEffectUnwritten ==
    /\ Running /\ Step \in Effects
    /\ ~Began \/ Step \in Repeatable
    /\ pass' = [pass EXCEPT !.journal = Noted(Entry("started", None)), !.stage = "begun"]
    /\ UNCHANGED <<store, timer, fails, lost, outside, handlers, next, fired, found, life, stops>>

\* An effect is written down as started, again if it is safe to repeat.
StartEffect ==
    /\ Running /\ Step \in Effects
    /\ ~Began \/ Step \in Repeatable
    /\ LET j == Noted(Entry("started", None))
       IN  \/ /\ Written(j, pass.waiting)
              /\ pass' = [pass EXCEPT !.journal = j, !.stage = "begun"]
           \/ /\ StoreFails
              /\ pass' = [pass EXCEPT !.journal = j, !.past = Append(@, "thrown")]
    /\ UNCHANGED <<outside, handlers, next, fired, found, life, stops>>

\* One that began in a pass that stopped, and may have happened, is not run again.
Uncertain ==
    /\ Running /\ Step \in Effects \ Repeatable /\ Began
    /\ Record(Entry("failed", None))
    /\ UNCHANGED <<outside, handlers, next, fired, found, life, stops>>

RunEffect ==
    /\ pass.stage = "begun"
    /\ done' = [done EXCEPT ![Place] = @ + 1]
    /\ \E s \in {"done", "failed"} : pass' = [pass EXCEPT !.stage = s]
    /\ UNCHANGED <<store, due, handlers, next, timing, stops, fails, lost>>

EndEffect ==
    /\ pass.stage \in {"done", "failed"}
    /\ Record(Entry(pass.stage, None))
    /\ UNCHANGED <<outside, handlers, next, fired, found, life, stops>>

\* Once a pass is over, the handlers see the update unless it stopped there.
Over ==
    /\ pass' = NoPass
    /\ handlers' \in {None} \cup (IF pass.drive = "update" THEN {pass.of} ELSE {})

AtWait == Running /\ Step \notin Effects /\ Step # Return

\* A wait is reached for the first time: it is written down, and the pass is over.
Arm ==
    /\ AtWait /\ ~Cancelled /\ pass.at = None
    /\ Written(pass.journal, Step)
    /\ due' = FALSE
    /\ Over
    /\ UNCHANGED <<done, next, fired, found, life, stops>>

CancelWait ==
    /\ AtWait /\ Cancelled
    /\ Record(Entry("cancelled", None))
    /\ UNCHANGED <<outside, handlers, next, fired, found, life, stops>>

Here == AtWait /\ ~Cancelled /\ pass.at # None

\* An update that comes after the deadline is no answer.
Expired == due /\ (pass.drive = "deadline" \/ ~pass.used)

TimeOut ==
    /\ Here /\ Expired
    /\ Record(Entry("timeout", None))
    /\ UNCHANGED <<outside, handlers, next, fired, found, life, stops>>

\* Mutation: a wait whose own code failed is written down as answered.
AnswerForgetsFailure ==
    /\ Here /\ ~Expired /\ ~pass.used
    /\ \/ Record(Entry("answer", pass.of))
       \/ /\ Written(Noted(Entry("answer", pass.of)), None)
          /\ pass' = [pass EXCEPT !.journal = Noted(Entry("answer", pass.of)), !.waiting = None,
                                  !.at = None, !.used = TRUE, !.past = Append(@, "thrown")]
    /\ UNCHANGED <<outside, handlers, next, fired, found, life, stops>>

\* The update is what the wait was for, or made the wait's own code fail.
Answer ==
    /\ Here /\ ~Expired /\ ~pass.used
    /\ \/ Record(Entry("answer", pass.of))
       \/ Record(Entry("error", None))
    /\ UNCHANGED <<outside, handlers, next, fired, found, life, stops>>

\* It was not, or was rejected and counted; or something else drives this pass.
StayAt ==
    /\ Here /\ ~Expired
    /\ \/ ~pass.used /\ Written(pass.journal, pass.at)
       \/ UNCHANGED <<store, timer, fails, lost>>
    /\ Over
    /\ UNCHANGED <<outside, next, fired, found, life, stops>>

\* #finish: the function returned or threw.  If the store fails, so does the pass.
Finish ==
    /\ Running /\ Step = Return
    /\ timer' = FALSE
    /\ UNCHANGED <<outside, fired, found, life, stops>>
    /\ \/ /\ store' = [store EXCEPT !.status = "over", !.waiting = None, !.journal = pass.journal]
          /\ UNCHANGED <<next, fails, lost>>
       \/ /\ Fails /\ Loses
          /\ next' = None
          /\ UNCHANGED store
    /\ Over

-----------------------------------------------------------------------------
(* What drives a pass.                                                     *)

\* offer: an update that was used stops here, and one no run can take goes on.
Offer(u) ==
    /\ Idle
    /\ Active => ~Handled(u)
    /\ IF Active /\ Follows(store)
       THEN Begins("update", u, store) /\ UNCHANGED handlers
       ELSE handlers' = u /\ UNCHANGED pass
    /\ UNCHANGED <<store, outside, next, timing, stops, fails, lost>>

Leave ==
    /\ handlers # None /\ pass.drive = "none"
    /\ handlers' = None
    /\ UNCHANGED <<store, outside, pass, next, timing, stops, fails, lost>>

\* start, if a handler calls it: nothing for the update that started the run there is.
Start ==
    /\ handlers # None /\ pass.drive = "none" /\ store.run < MaxRuns
    /\ handlers' = None
    /\ Active => handlers # store.by
    /\ next' = handlers
    /\ UNCHANGED <<store, outside, pass, timing, stops, fails, lost>>

\* #cancelRun: told at the wait it is at, or ended where it is.
CancelRun ==
    \/ /\ store.waiting # None /\ Follows(store)
       /\ Begins("cancel", None, store)
       /\ UNCHANGED <<store, timer>>
    \/ /\ store.waiting = None
       /\ store' = [store EXCEPT !.status = "over"]
       /\ timer' = FALSE
       /\ UNCHANGED pass

Cancel ==
    /\ pass.drive = "none" /\ Active
    /\ CancelRun
    /\ UNCHANGED <<outside, handlers, next, fired, found, life, stops, fails, lost>>

\* A run is written down before any of its code runs.  One that cannot be told is lost.
Run ==
    /\ next # None /\ pass.drive = "none"
    /\ Active => store.waiting # None /\ ~Follows(store)
    /\ LET rec == [run |-> store.run + 1, status |-> "active", journal |-> <<>>,
                   waiting |-> None, by |-> next]
       IN  store' = rec /\ Begins("start", next, rec)
    /\ next' = None
    /\ done' = [i \in DOMAIN done |-> 0]
    /\ UNCHANGED <<due, handlers, timing, stops, fails, lost>>

TimePasses ==
    /\ Active /\ store.waiting \in Timed /\ ~due
    /\ due' = TRUE
    /\ UNCHANGED <<store, done, turn, timing, stops, fails, lost>>

\* A timer may be early, or that of a wait before.
Fire ==
    /\ timer
    /\ timer' = FALSE
    /\ fired' = TRUE
    /\ UNCHANGED <<store, outside, turn, found, life, stops, fails, lost>>

\* #expire: the run is looked at again, and may wait for something else by now.
Expire ==
    /\ fired /\ Idle
    /\ fired' = FALSE
    /\ LET waits == Active /\ store.waiting \in Timed
       IN  /\ timer' = (timer \/ (waits /\ ~due))
           /\ IF waits /\ due /\ Follows(store)
              THEN Begins("deadline", None, store)
              ELSE UNCHANGED pass
    /\ UNCHANGED <<store, outside, handlers, next, found, life, stops, fails, lost>>

\* The run cannot be read, which is reported: the timer is gone, and no other is kept.
ExpireFails ==
    /\ fired /\ Idle
    /\ fired' = FALSE
    /\ UNCHANGED <<store, outside, turn, timer, found, life, stops>>
    /\ Fails /\ Loses

\* resume reads the run without its turn, and arms for what it read, if it can read it.
ResumeReads ==
    /\ life = "new" /\ found = "no"
    /\ UNCHANGED <<store, outside, turn, timer, fired, life, stops>>
    /\ \/ /\ found' = IF ~(Active /\ store.waiting \in Timed) THEN "nothing"
                      ELSE IF due THEN "due" ELSE "waits"
          /\ lost' = FALSE
          /\ UNCHANGED fails
       \/ found' = "nothing" /\ Fails /\ Loses

\* Mutation: a deadline that passed while nothing ran is left to the next update.
ResumeArmsOnly ==
    /\ found # "no"
    /\ found' = "no"
    /\ life' = IF life = "new" THEN "on" ELSE life
    /\ timer' = (timer \/ found = "waits")
    /\ UNCHANGED <<store, outside, turn, fired, stops, fails, lost>>

Resume ==
    /\ found # "no"
    /\ found' = "no"
    /\ life' = IF life = "new" THEN "on" ELSE life
    /\ timer' = (timer \/ found = "waits")
    /\ fired' = (fired \/ found = "due")
    /\ UNCHANGED <<store, outside, turn, stops, fails, lost>>

Shutdown ==
    /\ life # "off" /\ stops < MaxStops
    /\ stops' = stops + 1
    /\ life' = "off" /\ timer' = FALSE
    /\ UNCHANGED <<store, outside, turn, fired, found, fails, lost>>

\* The client starts again in the same process, and deadlines are looked for again.
StartAgain ==
    /\ life = "off" /\ found = "no"
    /\ life' = "new"
    /\ UNCHANGED <<store, outside, turn, timer, fired, found, stops, fails, lost>>

\* The process ends anywhere, and another one begins.
Dies ==
    /\ life' = "new" /\ timer' = FALSE /\ fired' = FALSE /\ found' = "no"
    /\ pass' = NoPass /\ handlers' = None /\ next' = None
    /\ UNCHANGED <<store, outside, fails, lost>>

Crash == life # "off" /\ stops < MaxStops /\ stops' = stops + 1 /\ Dies

Exit == life = "off" /\ UNCHANGED stops /\ Dies

-----------------------------------------------------------------------------

Places == {Len(h) + 1 : h \in Histories}

Init ==
    /\ store = [run |-> 0, status |-> "none", journal |-> <<>>, waiting |-> None, by |-> None]
    /\ due = FALSE
    /\ done = [i \in Places |-> 0]
    /\ pass = NoPass /\ handlers = None /\ next = None
    /\ timer = FALSE /\ fired = FALSE /\ found = "no" /\ life = "new"
    /\ stops = 0 /\ fails = 0 /\ lost = FALSE

Proceeds ==
    \/ StartEffect \/ Uncertain \/ RunEffect \/ EndEffect
    \/ Arm \/ CancelWait \/ TimeOut \/ Answer \/ StayAt \/ Finish

Next ==
    \/ Proceeds
    \/ \E u \in Updates : Offer(u)
    \/ Leave \/ Start \/ Cancel \/ Run
    \/ TimePasses \/ Fire \/ Expire \/ ExpireFails \/ ResumeReads \/ Resume
    \/ Shutdown \/ StartAgain \/ Crash \/ Exit

Spec == Init /\ [][Next]_vars

\* Timers fire, a pass goes on, a handler ends, and a process that ends is followed
\* by one that looks for deadlines.  No update need ever come.
FairSpec ==
    /\ Spec
    /\ WF_vars(Proceeds) /\ WF_vars(Leave) /\ WF_vars(next # None /\ Cancel) /\ WF_vars(Run)
    /\ WF_vars(due /\ Fire) /\ SF_vars(Expire) /\ WF_vars(ResumeReads) /\ WF_vars(Resume)
    /\ WF_vars(Exit)

-----------------------------------------------------------------------------

(***************************************************************************)
(* An effect that is not declared safe to repeat happens at most once in a *)
(* run, wherever its process is stopped and whatever carries the run on.   *)
(***************************************************************************)
AtMostOnce ==
    \A i \in Places : done[i] > 1 =>
        i <= Len(store.journal) /\ store.journal[i].label \in Repeatable

(***************************************************************************)
(* A stored run can be carried on: its journal is what the same function   *)
(* goes through again, up to the wait it is at.  It holds until the store  *)
(* fails: a step whose outcome was not stored gives the code the failure,  *)
(* and is stored with the next one as if it had given its outcome.         *)
(***************************************************************************)
NeverDiverges == Active /\ fails = 0 => Follows(store)

(***************************************************************************)
(* An update answers one wait of a run, however often it is delivered.     *)
(***************************************************************************)
AnswersOnce ==
    \A i, k \in 1 .. Len(store.journal) :
        store.journal[i].by = store.journal[k].by /\ store.journal[i].by # None => i = k

(***************************************************************************)
(* What a step came to does not change: within a run the stored journal    *)
(* only grows, but for an effect that had started.                         *)
(***************************************************************************)
JournalGrows ==
    [][store'.run = store.run =>
          \A i \in 1 .. Len(store.journal) :
              i <= Len(store'.journal)
                  /\ (Settled(store.journal[i]) => store'.journal[i] = store.journal[i])]_vars

(***************************************************************************)
(* A deadline is acted on, in this process or in the one after it, without *)
(* an update to remind it, when the run can be carried on.  What is left   *)
(* out is a failure of the store that takes the last timer: one to read at *)
(* the deadline or in resume, or one to write the end of the run.  Nothing *)
(* then looks at the deadline until an update or the next process does.    *)
(***************************************************************************)
DeadlineIsKept ==
    []<>~(Active /\ store.waiting \in Timed /\ due /\ Follows(store) /\ ~lost)
=============================================================================
