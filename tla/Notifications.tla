--------------------------- MODULE Notifications ---------------------------
(***************************************************************************)
(* The messages a page shows (useNotifications.ts, NotificationContainer,  *)
(* errorBox, successBox).  A message's ID is the millisecond it is added   *)
(* in, so that messages added together share it; each is shown by a        *)
(* component with a timer of its own, which closes it by its ID, as its    *)
(* button does.                                                            *)
(***************************************************************************)
EXTENDS Ranked

CONSTANTS
    LastTick,       \* bound: the clock
    MaxMessages     \* bound: messages at a time

VARIABLES
    now,            \* Date.now()
    notifications   \* the messages, each with the time its timer is set for

notifyVars == <<now, notifications>>

Types == {"error", "success"}

\* How long a message is shown, in ticks of the clock, seconds; two messages of
\* one tick are of one millisecond.
Duration == [error |-> 5, success |-> 3]

Messages == [id : Nat, type : Types, due : Nat]

NotifyTypeOK ==
    /\ now \in 0 .. LastTick
    /\ notifications \in Seq(Messages) /\ Len(notifications) <= MaxMessages

Init == now = 0 /\ notifications = <<>>

Message(type) == [id |-> now, type |-> type, due |-> now + Duration[type]]

\* addError, addSuccess; the timers of the others run on.
AddNotification(type) ==
    /\ Len(notifications) < MaxMessages
    /\ notifications' = Append(notifications, Message(type))
    /\ UNCHANGED now

RemoveNotification(id) ==
    /\ notifications' = Picked(notifications, {i \in DOMAIN notifications : notifications[i].id # id})
    /\ UNCHANGED now

\* The timer of a SingleError, of a SingleSuccess.
Due(i, type) == notifications[i].type = type /\ notifications[i].due <= now
ErrorTimerFires(i) == Due(i, "error") /\ RemoveNotification(notifications[i].id)
SuccessTimerFires(i) == Due(i, "success") /\ RemoveNotification(notifications[i].id)

\* The button of a message.
Close(i) == RemoveNotification(notifications[i].id)

\* Another page is opened, with messages of its own.
Leave == notifications # <<>> /\ notifications' = <<>> /\ UNCHANGED now

\* Time passes; a timer that is due is served first.
Tick ==
    /\ now < LastTick /\ \A i \in DOMAIN notifications : notifications[i].due > now
    /\ now' = now + 1 /\ UNCHANGED notifications

Next ==
    \/ Tick \/ Leave \/ \E type \in Types : AddNotification(type)
    \/ \E i \in DOMAIN notifications : ErrorTimerFires(i) \/ SuccessTimerFires(i) \/ Close(i)

-----------------------------------------------------------------------------
(* Properties. *)

\* No message outlasts its time, however many come after it: each component's
\* timer survives the renders the other messages cause (errorBox.tsx:27-32).
NoneLingers ==
    \A i \in DOMAIN notifications :
        now <= notifications[i].id + Duration[notifications[i].type]

\* An error goes early only when it is closed, or when a message added in the
\* same millisecond ends: deleting profiles tells its successes and failures
\* together, and the failures go with the successes (useNotifications.ts:14-26,
\* TesterProfilesPage.tsx:102-106).
Early(n) == n.type = "error" /\ now < n.id + Duration[n.type]
Alike(n) == \E m \in DOMAIN notifications : notifications[m].id = n.id /\ notifications[m].type = "success"
ErrorsStay ==
    \A i \in DOMAIN notifications : LET n == notifications[i] IN
        Early(n) /\ (\A j \in DOMAIN notifications' : notifications'[j].id # n.id) =>
            Alike(n) \/ Leave \/ Close(i)

=============================================================================
