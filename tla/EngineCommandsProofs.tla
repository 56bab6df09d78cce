------------------------- MODULE EngineCommandsProofs -------------------------
(***************************************************************************)
(* Theorems about EngineCommands, for any commands and handlers.            *)
(*                                                                         *)
(* A first invariant says what a handler holds of its command.  The         *)
(* publication, the mailbox, the versions and the confirmations each rest   *)
(* on it with an invariant of their own.                                    *)
(***************************************************************************)
EXTENDS EngineCommands, FiniteSetTheorems, TLAPS

-----------------------------------------------------------------------------
(* The plans of the engine.                                                 *)

LEMMA SequencePlans ==
    ASSUME NEW p \in Plans("sequence")
    PROVE  Len(p) = 2 /\ p[1] = "ACCEPTED" /\ p[2] \in {"COMPLETED", "FAILED"}
BY DEF Plans, SuccessPlan, FailurePlans

LEMMA MailboxPlans ==
    ASSUME NEW p \in Plans("mailbox")
    PROVE  Len(p) \in 2 .. 5 /\ \A i \in 1 .. Len(p) : p[i] \in EventType
<1>1. ASSUME p = <<"ACCEPTED", "STARTED", "VALIDATED", "VALIDATED", "COMPLETED">>
      PROVE  Len(p) = 5 /\ \A i \in 1 .. 5 : p[i] \in EventType
  BY <1>1 DEF EventType
<1>2. ASSUME p = <<"ACCEPTED", "STARTED", "FAILED">>
      PROVE  Len(p) = 3 /\ \A i \in 1 .. 3 : p[i] \in EventType
  BY <1>2 DEF EventType
<1>3. ASSUME p = <<"ACCEPTED", "STARTED", "VALIDATED", "FAILED">>
      PROVE  Len(p) = 4 /\ \A i \in 1 .. 4 : p[i] \in EventType
  BY <1>3 DEF EventType
<1>4. \/ p = <<"ACCEPTED", "STARTED", "VALIDATED", "VALIDATED", "COMPLETED">>
      \/ p = <<"ACCEPTED", "STARTED", "FAILED">>
      \/ p = <<"ACCEPTED", "STARTED", "VALIDATED", "FAILED">>
  BY DEF Plans, SuccessPlan, FailurePlans
<1> QED
  BY <1>1, <1>2, <1>3, <1>4

LEMMA ImportPlans ==
    ASSUME NEW p \in Plans("import")
    PROVE  Len(p) \in 2 .. 5 /\ \A i \in 1 .. Len(p) : p[i] \in EventType
<1>1. ASSUME p = <<"ACCEPTED", "STARTED", "BATCH_COMPLETED", "COMPLETED">>
      PROVE  Len(p) = 4 /\ \A i \in 1 .. 4 : p[i] \in EventType
  BY <1>1 DEF EventType
<1>2. ASSUME p = <<"ACCEPTED", "STARTED", "FAILED">>
      PROVE  Len(p) = 3 /\ \A i \in 1 .. 3 : p[i] \in EventType
  BY <1>2 DEF EventType
<1>3. \/ p = <<"ACCEPTED", "STARTED", "BATCH_COMPLETED", "COMPLETED">>
      \/ p = <<"ACCEPTED", "STARTED", "FAILED">>
  BY DEF Plans, SuccessPlan, FailurePlans
<1> QED
  BY <1>1, <1>2, <1>3

\* A plan has two to five events.
LEMMA EveryPlan ==
    ASSUME NEW p \in AllPlans
    PROVE  Len(p) \in 2 .. 5 /\ \A i \in 1 .. Len(p) : p[i] \in EventType
<1>1. p \in Plans("sequence") \/ p \in Plans("mailbox") \/ p \in Plans("import")
  BY DEF AllPlans, Aggregates
<1>2. CASE p \in Plans("sequence")
  BY <1>2, SequencePlans DEF EventType
<1> QED
  BY <1>1, <1>2, MailboxPlans, ImportPlans

LEMMA PlansOfAggregates ==
    ASSUME NEW a \in Aggregates
    PROVE  Plans(a) \subseteq AllPlans /\ SuccessPlan(a) \in Plans(a)
BY DEF AllPlans, Plans

-----------------------------------------------------------------------------
(* What a handler holds.                                                    *)

\* Mine, of what a handler holds.
MineOf(r) ==
    CASE r.pc = "record" -> r.first .. r.at - 1
      [] r.pc = "mark"   -> r.first .. r.at
      [] r.pc = "apply"  -> r.first .. r.upto
      [] OTHER           -> {}

\* A command that exists follows a plan of its aggregate, and ends by its event.
CommandFits(k) ==
    /\ k.status = "NONE" => k.events = 0 /\ k.types = {}
    /\ k.plan \in Plans(k.on)
    /\ k.status \in {"COMPLETED", "FAILED"} => k.status \in k.types

\* Each caller has its points, and a command of its own aggregate.
Fits(r, commands) ==
    /\ r.pc = "idle" => r.by = "nobody" /\ r.command = None
    /\ r.pc = "claim" => r.by \in {"publish", "confirm"} /\ r.command = None
    /\ r.pc = "mapping" => r.by = "map" /\ r.command = None
    /\ r.pc \in {"dispatch", "request", "read", "record", "mark", "apply"} =>
         r.command \in Commands /\ commands[r.command].status # "NONE"
    /\ r.command \in Commands =>
         /\ r.by = "publish" => commands[r.command].on = "sequence"
         /\ r.by \in OnMailbox => commands[r.command].on = "mailbox"
    /\ r.pc = "dispatch" => r.by \in {"publish", "configure", "request", "confirm"}
    /\ r.pc = "request" => r.by = "request"
    /\ r.pc \in {"read", "record", "mark", "apply"} =>
         r.by \in {"publish", "configure", "provision", "monitor"}
    /\ r.pc = "apply" => r.by # "monitor"
    /\ r.pc \in {"record", "mark", "apply"} =>
         /\ r.first <= r.at /\ r.at <= r.upto /\ r.upto <= Len(r.plan)
         /\ r.plan \in Plans(commands[r.command].on)
         /\ r.by = "publish" => r.upto = Len(r.plan)
    /\ \A i \in MineOf(r) :
         i <= commands[r.command].events /\ r.plan[i] \in commands[r.command].types

LastFits(names, commands) ==
    \A a \in Aggregates :
      names[a] # None => commands[names[a]].status # "NONE" /\ commands[names[a]].on = a

EngineInv ==
    /\ None \notin Commands
    /\ CommandsTypeOK
    /\ \A c \in Commands : CommandFits(command[c])
    /\ \A s \in Slots : Fits(req[s], command)
    /\ LastFits(last, command)
    /\ OneAppliesEachEvent

\* Commands only go forward.
Grows ==
    \A c \in Commands :
      command[c].status # "NONE" =>
        /\ command'[c].status # "NONE"
        /\ command'[c].on = command[c].on
        /\ command[c].events <= command'[c].events
        /\ command[c].types \subseteq command'[c].types

LEMMA FitsOn ==
    ASSUME None \notin Commands, CommandsTypeOK, NEW r \in Requests, Fits(r, command), Grows,
           command' \in [Commands -> CommandRows]
    PROVE  Fits(r, command')
<1>1. CASE r.command \in Commands /\ command[r.command].status # "NONE"
  <2>1. /\ command'[r.command].status # "NONE"
        /\ command'[r.command].on = command[r.command].on
        /\ command[r.command].events <= command'[r.command].events
        /\ command[r.command].types \subseteq command'[r.command].types
        /\ command[r.command].events \in Nat /\ command'[r.command].events \in Nat
    BY <1>1 DEF Grows, CommandsTypeOK, CommandRows
  <2>2. ASSUME NEW i \in MineOf(r)
        PROVE  i <= command'[r.command].events /\ r.plan[i] \in command'[r.command].types
    <3>1. i \in Int /\ i <= command[r.command].events /\ r.plan[i] \in command[r.command].types
      BY DEF Fits, MineOf, Requests
    <3> QED
      BY <2>1, <3>1
  <2> QED
    BY <2>1, <2>2 DEF Fits
<1>2. CASE ~(r.command \in Commands /\ command[r.command].status # "NONE")
  <2>1. r.pc \in {"idle", "claim", "mapping"} /\ r.command = None
    BY <1>2 DEF Fits, Requests, Points
  <2>2. MineOf(r) = {}
    BY <2>1 DEF MineOf
  <2> QED
    BY <2>1, <2>2 DEF Fits
<1> QED
  BY <1>1, <1>2

\* A handler's step that lets commands go forward, and claims no event of another one.
LEMMA EngineStep ==
    ASSUME EngineInv, NEW s \in Slots, NEW r \in Requests,
           req' = [req EXCEPT ![s] = r],
           command' \in [Commands -> CommandRows], Grows,
           \A c \in Commands : CommandFits(command'[c]),
           CommandsTypeOK',
           Fits(r, command'),
           \A i \in MineOf(r) :
             \/ r.command = req[s].command /\ i \in MineOf(req[s])
             \/ i > command[r.command].events,
           last' = last \/ LastFits(last', command')
    PROVE  EngineInv'
<1>1. /\ req'[s] = r
      /\ \A t \in Slots \ {s} : req'[t] = req[t]
  BY DEF EngineInv, CommandsTypeOK
<1>2. ASSUME NEW t \in Slots
      PROVE  Fits(req'[t], command')
  <2>1. CASE t = s
    BY <2>1, <1>1
  <2>2. CASE t # s
    BY <2>2, <1>1, FitsOn DEF EngineInv, CommandsTypeOK
  <2> QED
    BY <2>1, <2>2
<1>3. LastFits(last', command')
  BY DEF LastFits, EngineInv, CommandsTypeOK, Grows
<1>4. \A t \in Slots : Mine(t) = MineOf(req[t]) /\ Mine(t)' = MineOf(req'[t])
  BY DEF Mine, MineOf, At
<1>5. ASSUME NEW t \in Slots \ {s}, req'[t].command = r.command,
             NEW i \in MineOf(r), i \in MineOf(req'[t])
      PROVE  FALSE
  <2>1. req[t].command = r.command /\ i \in MineOf(req[t])
    BY <1>1, <1>5
  <2>2. i <= command[r.command].events
    BY <2>1 DEF EngineInv, Fits
  <2>3. i \in Int /\ r.command \in Commands
    <3>1. r.pc \in {"record", "mark", "apply"} /\ i \in Int
      BY <1>5 DEF MineOf, Requests
    <3> QED
      BY <3>1 DEF Fits
  <2>4. ~(i > command[r.command].events)
    BY <2>2, <2>3 DEF EngineInv, CommandsTypeOK, CommandRows
  <2>5. req[t].command = req[s].command /\ i \in MineOf(req[s])
    BY <2>1, <2>4
  <2> QED
    BY <1>4, <2>1, <2>5 DEF EngineInv, OneAppliesEachEvent
<1>6. OneAppliesEachEvent'
  <2> SUFFICES ASSUME NEW t \in Slots, NEW u \in Slots, t # u,
                      req'[t].command = req'[u].command
               PROVE  MineOf(req'[t]) \cap MineOf(req'[u]) = {}
    BY <1>4 DEF OneAppliesEachEvent
  <2>1. CASE t = s \/ u = s
    BY <2>1, <1>1, <1>5
  <2>2. CASE t # s /\ u # s
    BY <2>2, <1>1, <1>4 DEF EngineInv, OneAppliesEachEvent
  <2> QED
    BY <2>1, <2>2
<1> QED
  BY <1>2, <1>3, <1>6 DEF EngineInv

LEMMA IdleFits == Idle \in Requests /\ Idle.by = "nobody" /\ Idle.command = None
                  /\ Idle.pc = "idle" /\ MineOf(Idle) = {}
                  /\ \A commands : None \notin Commands => Fits(Idle, commands)
<1>1. SuccessPlan("sequence") \in AllPlans
  BY PlansOfAggregates DEF Aggregates
<1>2. Idle \in Requests /\ Idle.pc = "idle" /\ Idle.by = "nobody" /\ Idle.command = None
  BY <1>1 DEF Idle, Requests, Points, Callers
<1>3. MineOf(Idle) = {}
  BY <1>2 DEF MineOf
<1> HIDE DEF Idle
<1>4. ASSUME NEW commands, None \notin Commands
      PROVE  Fits(Idle, commands)
  BY <1>2, <1>3, <1>4 DEF Fits, OnMailbox
<1> QED
  BY <1>2, <1>3, <1>4

\* A handler that writes no command.
LEMMA QuietStep ==
    ASSUME EngineInv, NEW s \in Slots, NEW r \in Requests,
           req' = [req EXCEPT ![s] = r], command' = command, last' = last,
           CommandsTypeOK', Fits(r, command),
           \A i \in MineOf(r) : r.command = req[s].command /\ i \in MineOf(req[s])
    PROVE  EngineInv'
<1>1. Grows
  BY DEF Grows, EngineInv, CommandsTypeOK, CommandRows
<1> QED
  BY <1>1, EngineStep DEF EngineInv, CommandsTypeOK

-----------------------------------------------------------------------------
(* What is written to a command.                                            *)

LEMMA Created ==
    ASSUME EngineInv, NEW c \in Commands, NEW a \in Aggregates, Create(c, a)
    PROVE  /\ command' \in [Commands -> CommandRows]
           /\ Grows
           /\ \A d \in Commands : CommandFits(command'[d])
           /\ command[c].status = "NONE" /\ command[c].types = {}
           /\ command'[c].status = "REQUESTED" /\ command'[c].on = a
           /\ command'[c].events = 0 /\ command'[c].types = {}
           /\ \A d \in Commands \ {c} : command'[d] = command[d]
<1> DEFINE new == [NoCommand EXCEPT !.on = a, !.status = "REQUESTED", !.plan = SuccessPlan(a)]
<1>1. SuccessPlan(a) \in AllPlans /\ SuccessPlan(a) \in Plans(a)
  BY PlansOfAggregates
<1>2. /\ new \in CommandRows /\ new.status = "REQUESTED" /\ new.on = a
      /\ new.events = 0 /\ new.types = {} /\ new.plan = SuccessPlan(a)
  <2>1. /\ NoCommand \in CommandRows
        /\ NoCommand.events = 0 /\ NoCommand.types = {}
    BY <1>1, PlansOfAggregates DEF NoCommand, CommandRows, CommandStatus, Aggregates
  <2> HIDE DEF NoCommand
  <2> QED
    BY <1>1, <2>1 DEF CommandRows, CommandStatus
<1>3. command' = [command EXCEPT ![c] = new] /\ command[c].status = "NONE"
  BY DEF Create
<1> HIDE DEF new
<1>4. command'[c] = new /\ \A d \in Commands \ {c} : command'[d] = command[d]
  BY <1>3 DEF EngineInv, CommandsTypeOK
<1>5. CommandFits(new)
  BY <1>1, <1>2 DEF CommandFits
<1>6. Grows
  BY <1>3, <1>4 DEF Grows, EngineInv, CommandsTypeOK, CommandRows
<1> QED
  BY <1>2, <1>3, <1>4, <1>5, <1>6 DEF EngineInv, CommandsTypeOK, CommandFits

\* One existing command is written, and goes forward.
LEMMA Rewritten ==
    ASSUME EngineInv, NEW c \in Commands, NEW new \in CommandRows, CommandFits(new),
           command' = [command EXCEPT ![c] = new],
           command[c].status # "NONE" => new.status # "NONE",
           new.on = command[c].on, command[c].events <= new.events,
           command[c].types \subseteq new.types
    PROVE  /\ command' \in [Commands -> CommandRows]
           /\ Grows
           /\ \A d \in Commands : CommandFits(command'[d])
           /\ command'[c] = new
           /\ \A d \in Commands \ {c} : command'[d] = command[d]
<1>1. command'[c] = new /\ \A d \in Commands \ {c} : command'[d] = command[d]
  BY DEF EngineInv, CommandsTypeOK
<1>2. Grows
  BY <1>1 DEF Grows, EngineInv, CommandsTypeOK, CommandRows
<1> QED
  BY <1>1, <1>2 DEF EngineInv, CommandsTypeOK

-----------------------------------------------------------------------------
(* Every action preserves EngineInv.                                        *)

LEMMA FinishingKeepsInv ==
    ASSUME EngineInv, NEW s \in Slots,
           HandlerFails(s) \/ Refused(s) \/ RecordTaken(s) \/ Map(s)
    PROVE  /\ EngineInv'
           /\ req' = [req EXCEPT ![s] = Idle] /\ command' = command /\ last' = last
<1>1. req' = [req EXCEPT ![s] = Idle] /\ command' = command /\ last' = last
  BY DEF HandlerFails, Refused, RecordTaken, Map, Finish, Continue, rows
<1>2. lost' \subseteq Commands
  BY DEF HandlerFails, Refused, RecordTaken, Map, Held, auxiliary, EngineInv, CommandsTypeOK,
         Requests
<1>3. CommandsTypeOK'
  BY <1>1, <1>2, IdleFits
  DEF HandlerFails, Refused, RecordTaken, Map, rows, auxiliary, EngineInv, CommandsTypeOK,
      ImportStatus
<1> QED
  BY <1>1, <1>3, IdleFits, QuietStep DEF EngineInv

\* What a handler holds when it begins without a command of its own.
Begun(r) ==
    \/ r.pc = "claim" /\ r.by = "publish" /\ r.command = None /\ r.version = sequenceVersion + 1
    \/ r.pc = "claim" /\ r.by = "confirm" /\ r.command = None
    \/ r.pc = "mapping" /\ r.by = "map" /\ r.command = None
    \/ r.pc = "read" /\ r.by = "provision" /\ r.command = last["mailbox"] /\ r.command \in Commands
    \/ /\ r.pc = "read" /\ r.by = "monitor" /\ r.command \in Commands
       /\ command[r.command].status # "NONE"

Beginning(s) ==
    BeginPublish(s) \/ BeginProvision(s) \/ BeginMapping(s) \/ BeginConfirm(s) \/ BeginMonitor(s)

LEMMA Beginnings ==
    ASSUME EngineInv, NEW s \in Slots, Beginning(s)
    PROVE  \E r \in Requests : Begin(s, r) /\ Begun(r)
<1>1. CASE BeginPublish(s)
  <2> DEFINE v == sequenceVersion + 1
             r == [Idle EXCEPT !.pc = "claim", !.by = "publish", !.version = v]
  <2>1. Begin(s, r) /\ v \in Nat
    BY <1>1 DEF BeginPublish, EngineInv, CommandsTypeOK
  <2>2. v = sequenceVersion + 1
    OBVIOUS
  <2> HIDE DEF v
  <2>3. r \in Requests /\ Begun(r)
    BY <2>1, <2>2, IdleFits DEF Requests, Points, Callers, Begun
  <2> HIDE DEF r
  <2> QED
    BY <2>1, <2>3
<1>2. CASE BeginProvision(s)
  <2> DEFINE r == [Idle EXCEPT !.pc = "read", !.by = "provision", !.command = last["mailbox"]]
  <2>1. Begin(s, r) /\ last["mailbox"] \in Commands
    BY <1>2 DEF BeginProvision, EngineInv, CommandsTypeOK, Aggregates
  <2>2. r \in Requests /\ Begun(r)
    BY <2>1, IdleFits DEF Requests, Points, Callers, Begun
  <2> HIDE DEF r
  <2> QED
    BY <2>1, <2>2
<1>3. CASE BeginMapping(s)
  <2> DEFINE r == [Idle EXCEPT !.pc = "mapping", !.by = "map"]
  <2>1. Begin(s, r)
    BY <1>3 DEF BeginMapping
  <2>2. r \in Requests /\ Begun(r)
    BY <2>1, IdleFits DEF Requests, Points, Callers, Begun
  <2> HIDE DEF r
  <2> QED
    BY <2>1, <2>2
<1>4. CASE BeginConfirm(s)
  <2> DEFINE r == [Idle EXCEPT !.pc = "claim", !.by = "confirm"]
  <2>1. Begin(s, r)
    BY <1>4 DEF BeginConfirm
  <2>2. r \in Requests /\ Begun(r)
    BY <2>1, IdleFits DEF Requests, Points, Callers, Begun
  <2> HIDE DEF r
  <2> QED
    BY <2>1, <2>2
<1>5. CASE BeginMonitor(s)
  <2>1. PICK c \in Commands :
          /\ command[c].status # "NONE"
          /\ Begin(s, [Idle EXCEPT !.pc = "read", !.by = "monitor", !.command = c])
    BY <1>5 DEF BeginMonitor
  <2> DEFINE r == [Idle EXCEPT !.pc = "read", !.by = "monitor", !.command = c]
  <2>2. Begin(s, r)
    BY <2>1
  <2>3. r \in Requests /\ Begun(r)
    BY <2>1, IdleFits DEF Requests, Points, Callers, Begun
  <2> HIDE DEF r
  <2> QED
    BY <2>2, <2>3
<1> QED
  BY <1>1, <1>2, <1>3, <1>4, <1>5 DEF Beginning

LEMMA Starts ==
    ASSUME EngineInv, NEW s \in Slots, NEW r, Begin(s, r)
    PROVE  requests' \in Nat /\ overlap' \in BOOLEAN /\ (overlap => overlap')
<1>1. requests' \in Nat
  BY DEF Begin, Admit, EngineInv, CommandsTypeOK
<1> DEFINE meets == r.by \in OnMailbox /\ \E t \in Slots \ {s} : req[t].by \in OnMailbox
<1>2. overlap' = (overlap \/ meets)
  BY DEF Begin
<1> HIDE DEF meets
<1> QED
  BY <1>1, <1>2, Zenon

LEMMA BeginningKeepsInv ==
    ASSUME EngineInv, NEW s \in Slots, Beginning(s)
    PROVE  EngineInv'
<1>1. PICK r \in Requests : Begin(s, r) /\ Begun(r)
  BY Beginnings
<1>2. req' = [req EXCEPT ![s] = r] /\ command' = command /\ last' = last
  BY <1>1 DEF Begin, Continue, Beginning, BeginPublish, BeginProvision, BeginMapping,
              BeginConfirm, BeginMonitor, rows
<1>3. UNCHANGED <<rows, lost, mappings>>
  BY DEF Beginning, BeginPublish, BeginProvision, BeginMapping, BeginConfirm, BeginMonitor
<1>4. requests' \in Nat /\ overlap' \in BOOLEAN
  BY <1>1, Starts
<1>5. CommandsTypeOK'
  BY <1>2, <1>3, <1>4 DEF rows, EngineInv, CommandsTypeOK
<1>6. MineOf(r) = {}
  BY <1>1 DEF Begun, MineOf
<1>7. Fits(r, command)
  BY <1>1, <1>6 DEF Begun, Fits, OnMailbox, EngineInv, LastFits, Aggregates
<1> QED
  BY <1>2, <1>5, <1>6, <1>7, QuietStep

\* A handler that creates its command goes on to dispatch it.
Creating(s, r, c, a) ==
    /\ Create(c, a)
    /\ req' = [req EXCEPT ![s] = r]
    /\ r.pc = "dispatch" /\ r.command = c
    /\ r.by \in {"publish", "configure", "request", "confirm"}
    /\ r.by = "publish" => a = "sequence"
    /\ r.by \in OnMailbox => a = "mailbox"
    /\ last' = [last EXCEPT ![a] = c] \/ last' = last

CreatesCommand(s) == Publish(s) \/ Configure(s) \/ BeginRequest(s) \/ Confirm(s)

LEMMA Creations ==
    ASSUME EngineInv, NEW s \in Slots, CreatesCommand(s)
    PROVE  \E r \in Requests, c \in Commands, a \in Aggregates :
             /\ Creating(s, r, c, a)
             /\ Publish(s) => /\ r.by = "publish" /\ r.version = req[s].version
                              /\ a = "sequence" /\ last' = [last EXCEPT !["sequence"] = c]
             /\ ~Publish(s) => r.by # "publish" /\ a # "sequence"
             /\ Configure(s) => /\ r.by = "configure" /\ Begin(s, r)
                                /\ last' = [last EXCEPT !["mailbox"] = c]
             /\ BeginRequest(s) => r.by = "request" /\ Begin(s, r) /\ last' = last
             /\ Confirm(s) => r.by = "confirm" /\ a = "import"
<1>1. CASE Publish(s)
  <2>0. req[s] \in Requests /\ req[s].by = "publish"
    BY <1>1 DEF Publish, EngineInv, CommandsTypeOK
  <2>1. PICK c \in Commands :
          /\ Create(c, "sequence")
          /\ last' = [last EXCEPT !["sequence"] = c]
          /\ req' = [req EXCEPT ![s] = [req[s] EXCEPT !.pc = "dispatch", !.command = c]]
    BY <1>1 DEF Publish, Continue
  <2> DEFINE r == [req[s] EXCEPT !.pc = "dispatch", !.command = c]
  <2>2. /\ r \in Requests /\ r.pc = "dispatch" /\ r.command = c /\ r.by = "publish"
        /\ r.version = req[s].version
    BY <2>0 DEF Requests, Points
  <2>3. req' = [req EXCEPT ![s] = r]
    BY <2>1
  <2> HIDE DEF r
  <2>4. Creating(s, r, c, "sequence")
    BY <2>1, <2>2, <2>3 DEF Creating, OnMailbox
  <2>5. ~Configure(s) /\ ~BeginRequest(s) /\ ~Confirm(s)
    BY <1>1 DEF Publish, Configure, BeginRequest, Confirm, Begin, At
  <2> QED
    BY <1>1, <2>1, <2>2, <2>4, <2>5 DEF Aggregates
<1>2. CASE Confirm(s)
  <2>0. req[s] \in Requests /\ req[s].by = "confirm"
    BY <1>2 DEF Confirm, EngineInv, CommandsTypeOK
  <2>1. PICK c \in Commands :
          /\ Create(c, "import")
          /\ last' = [last EXCEPT !["import"] = c]
          /\ req' = [req EXCEPT ![s] = [req[s] EXCEPT !.pc = "dispatch", !.command = c]]
    BY <1>2 DEF Confirm, Continue
  <2> DEFINE r == [req[s] EXCEPT !.pc = "dispatch", !.command = c]
  <2>2. r \in Requests /\ r.pc = "dispatch" /\ r.command = c /\ r.by = "confirm"
    BY <2>0 DEF Requests, Points
  <2>3. req' = [req EXCEPT ![s] = r]
    BY <2>1
  <2> HIDE DEF r
  <2>4. Creating(s, r, c, "import")
    BY <2>1, <2>2, <2>3 DEF Creating, OnMailbox
  <2>5. ~Configure(s) /\ ~BeginRequest(s) /\ ~Publish(s)
    BY <1>2 DEF Publish, Configure, BeginRequest, Confirm, Begin, At
  <2> QED
    BY <1>2, <2>1, <2>2, <2>4, <2>5 DEF Aggregates
<1>3. CASE Configure(s) \/ BeginRequest(s)
  <2>0. ~Publish(s) /\ ~Confirm(s)
    BY <1>3 DEF Publish, Configure, BeginRequest, Confirm, Begin, At
  <2>1. CASE Configure(s)
    <3>1. PICK c \in Commands :
            /\ Create(c, "mailbox")
            /\ last' = [last EXCEPT !["mailbox"] = c]
            /\ Begin(s, [Idle EXCEPT !.pc = "dispatch", !.by = "configure", !.command = c])
      BY <2>1 DEF Configure
    <3> DEFINE r == [Idle EXCEPT !.pc = "dispatch", !.by = "configure", !.command = c]
    <3>2. r \in Requests /\ r.pc = "dispatch" /\ r.command = c /\ r.by = "configure"
      BY IdleFits DEF Requests, Points, Callers
    <3>3. Begin(s, r)
      BY <3>1
    <3> HIDE DEF r
    <3>4. Creating(s, r, c, "mailbox")
      BY <3>1, <3>2, <3>3 DEF Begin, Continue, Creating, OnMailbox
    <3>5. ~BeginRequest(s)
      <4> SUFFICES ASSUME BeginRequest(s)
                   PROVE  FALSE
        OBVIOUS
      <4>1. PICK d \in Commands :
              Begin(s, [Idle EXCEPT !.pc = "dispatch", !.by = "request", !.command = d])
        BY DEF BeginRequest
      <4> DEFINE q == [Idle EXCEPT !.pc = "dispatch", !.by = "request", !.command = d]
      <4>2. q \in Requests /\ q.by = "request"
        BY IdleFits DEF Requests, Points, Callers
      <4>3. req'[s] = q
        BY <4>1 DEF Begin, Continue, EngineInv, CommandsTypeOK
      <4>4. req'[s] = r
        BY <3>3 DEF Begin, Continue, EngineInv, CommandsTypeOK
      <4> HIDE DEF q
      <4> QED
        BY <3>2, <4>2, <4>3, <4>4
    <3> QED
      BY <2>0, <3>1, <3>2, <3>3, <3>4, <3>5 DEF Aggregates
  <2>2. CASE BeginRequest(s) /\ ~Configure(s)
    <3>1. PICK c \in Commands :
            /\ Create(c, "mailbox")
            /\ Begin(s, [Idle EXCEPT !.pc = "dispatch", !.by = "request", !.command = c])
      BY <2>2 DEF BeginRequest
    <3> DEFINE r == [Idle EXCEPT !.pc = "dispatch", !.by = "request", !.command = c]
    <3>2. r \in Requests /\ r.pc = "dispatch" /\ r.command = c /\ r.by = "request"
      BY IdleFits DEF Requests, Points, Callers
    <3>3. Begin(s, r) /\ last' = last
      BY <2>2, <3>1 DEF BeginRequest, rows
    <3> HIDE DEF r
    <3>4. Creating(s, r, c, "mailbox")
      BY <3>1, <3>2, <3>3 DEF Begin, Continue, Creating, OnMailbox
    <3> QED
      BY <2>0, <2>2, <3>1, <3>2, <3>3, <3>4 DEF Aggregates
  <2> QED
    BY <1>3, <2>1, <2>2
<1> QED
  BY <1>1, <1>2, <1>3 DEF CreatesCommand

LEMMA CreationKeepsInv ==
    ASSUME EngineInv, NEW s \in Slots, CreatesCommand(s)
    PROVE  EngineInv'
<1>1. PICK r \in Requests, c \in Commands, a \in Aggregates :
        /\ Creating(s, r, c, a)
        /\ Configure(s) \/ BeginRequest(s) => Begin(s, r)
  BY Creations
<1>2. /\ command' \in [Commands -> CommandRows]
      /\ Grows
      /\ \A d \in Commands : CommandFits(command'[d])
      /\ command'[c].status = "REQUESTED" /\ command'[c].on = a
  BY <1>1, Created DEF Creating
<1>3. requests' \in Nat /\ overlap' \in BOOLEAN
  BY <1>1, Starts
  DEF CreatesCommand, Publish, Confirm, auxiliary, EngineInv, CommandsTypeOK
<1>4. last' \in [Aggregates -> Commands \cup {None}]
  BY <1>1 DEF Creating, EngineInv, CommandsTypeOK
<1>5. /\ publishStatus' \in PublishStatus /\ provisioningStatus' \in ProvisioningStatus
      /\ importStatus' \in ImportStatus
      /\ UNCHANGED <<sequenceVersion, rawRows, lost, mappings>>
  BY DEF CreatesCommand, Publish, Configure, BeginRequest, Confirm, StatusOnceRequested, rows,
         auxiliary, EngineInv, CommandsTypeOK, PublishStatus, BLOCKED_PUBLISH_STATUSES,
         ProvisioningStatus, ImportStatus
<1>6. CommandsTypeOK'
  BY <1>1, <1>2, <1>3, <1>4, <1>5 DEF Creating, EngineInv, CommandsTypeOK
<1>7. LastFits(last', command')
  BY <1>1, <1>2 DEF Creating, LastFits, EngineInv, CommandsTypeOK, Grows
<1>8. MineOf(r) = {}
  BY <1>1 DEF Creating, MineOf
<1>9. Fits(r, command')
  BY <1>1, <1>2, <1>8 DEF Creating, Fits
<1>10. req' = [req EXCEPT ![s] = r]
  BY <1>1 DEF Creating
<1> QED
  BY <1>2, <1>6, <1>7, <1>8, <1>9, <1>10, EngineStep

\* The mailbox comes to name the command that was submitted.
LEMMA RequestKeepsInv ==
    ASSUME EngineInv, NEW s \in Slots, Request(s)
    PROVE  EngineInv'
<1>1. /\ req' = [req EXCEPT ![s] = Idle] /\ command' = command
      /\ last' = [last EXCEPT !["mailbox"] = req[s].command]
  BY DEF Request, Finish, Continue
<1>2. /\ req[s].command \in Commands /\ command[req[s].command].status # "NONE"
      /\ command[req[s].command].on = "mailbox"
  BY DEF Request, At, EngineInv, Fits, OnMailbox
<1>3. last' \in [Aggregates -> Commands \cup {None}] /\ LastFits(last', command')
  BY <1>1, <1>2 DEF EngineInv, CommandsTypeOK, LastFits
<1>4. CommandsTypeOK'
  BY <1>1, <1>3, IdleFits
  DEF Request, StatusOnceRequested, auxiliary, EngineInv, CommandsTypeOK, ProvisioningStatus
<1>5. Grows
  BY <1>1 DEF Grows, EngineInv, CommandsTypeOK, CommandRows
<1> QED
  BY <1>1, <1>3, <1>4, <1>5, IdleFits, EngineStep DEF EngineInv, CommandsTypeOK

\* A handler that finds events missing means to record them, from the first on.
LEMMA ReadOutcomes ==
    ASSUME EngineInv, NEW s \in Slots, AdvanceRead(s)
    PROVE  /\ req[s].pc = "read" /\ req[s].command \in Commands
           /\ req[s].by \in {"publish", "configure", "provision", "monitor"}
           /\ UNCHANGED <<rows, command, requests, auxiliary>>
           /\ \E r \in Requests :
                /\ req' = [req EXCEPT ![s] = r]
                /\ \/ r = Idle /\ command[req[s].command].events + 1
                                    > Len(command[req[s].command].plan)
                   \/ /\ r.pc = "record" /\ r.by = req[s].by /\ r.command = req[s].command
                      /\ r.version = req[s].version
                      /\ r.plan = command[r.command].plan
                      /\ r.first = command[r.command].events + 1 /\ r.at = r.first
                      /\ r.first <= r.upto /\ r.upto <= Len(r.plan)
                      /\ r.by = "publish" => r.upto = Len(r.plan)
<1> DEFINE c == command[req[s].command]
           first == c.events + 1
<1>1. /\ req[s].pc = "read" /\ req[s].command \in Commands /\ req[s] \in Requests
      /\ req[s].by \in {"publish", "configure", "provision", "monitor"}
      /\ UNCHANGED <<rows, command, requests, auxiliary>>
  BY DEF AdvanceRead, At, EngineInv, Fits, CommandsTypeOK
<1>2. c.plan \in AllPlans /\ c.events \in 0 .. 5
  BY <1>1 DEF EngineInv, CommandsTypeOK, CommandRows
<1>3. Len(c.plan) \in 2 .. 5 /\ first \in 1 .. 6
  BY <1>2, EveryPlan
<1>4. CASE first > Len(c.plan)
  <2>1. req' = [req EXCEPT ![s] = Idle]
    BY <1>4 DEF AdvanceRead, Finish, Continue
  <2> QED
    BY <1>1, <1>4, <2>1, IdleFits
<1>5. CASE ~(first > Len(c.plan))
  <2>1. PICK upto \in {first, Len(c.plan)} :
          /\ upto = Len(c.plan) \/ req[s].by \in {"provision", "monitor"}
          /\ Continue(s, [req[s] EXCEPT !.pc = "record", !.plan = c.plan,
                                        !.first = first, !.upto = upto, !.at = first])
    BY <1>5 DEF AdvanceRead
  <2>2. first \in 1 .. 5 /\ upto \in 1 .. 5 /\ first <= upto /\ upto <= Len(c.plan)
    <3> DEFINE n == Len(c.plan)
    <3>1. n \in 2 .. 5 /\ first \in 1 .. 6 /\ ~(first > n) /\ upto \in {first, n}
      BY <1>3, <1>5
    <3> HIDE DEF n, first
    <3>2. first \in 1 .. 5 /\ upto \in 1 .. 5 /\ first <= upto /\ upto <= n
      BY <3>1
    <3> QED
      BY <3>2 DEF n
  <2> DEFINE p == c.plan
             f == first
             r == [req[s] EXCEPT !.pc = "record", !.plan = p, !.first = f, !.upto = upto,
                                 !.at = f]
  <2>3. Continue(s, r)
    BY <2>1
  <2>4. p \in AllPlans /\ f \in 1 .. 5 /\ p = c.plan /\ f = first
    BY <1>2, <2>2
  <2> HIDE DEF c, first, p, f
  <2>5. /\ r \in Requests /\ r.pc = "record" /\ r.by = req[s].by
        /\ r.command = req[s].command /\ r.version = req[s].version
        /\ r.plan = p /\ r.first = f /\ r.at = f /\ r.upto = upto
    BY <1>1, <2>2, <2>4 DEF Requests, Points
  <2> HIDE DEF r
  <2>6. req' = [req EXCEPT ![s] = r]
    BY <2>3 DEF Continue
  <2>7. r.by = "publish" => upto = Len(p)
    BY <1>1, <2>1, <2>4, <2>5
  <2> QED
    BY <1>1, <2>2, <2>4, <2>5, <2>6, <2>7 DEF c, first
<1> QED
  BY <1>4, <1>5

LEMMA ReadKeepsInv ==
    ASSUME EngineInv, NEW s \in Slots, AdvanceRead(s)
    PROVE  EngineInv'
<1>1. PICK r \in Requests :
        /\ req' = [req EXCEPT ![s] = r]
        /\ \/ r = Idle
           \/ /\ r.pc = "record" /\ r.by = req[s].by /\ r.command = req[s].command
              /\ r.plan = command[r.command].plan
              /\ r.first = command[r.command].events + 1 /\ r.at = r.first
              /\ r.first <= r.upto /\ r.upto <= Len(r.plan)
              /\ r.by = "publish" => r.upto = Len(r.plan)
  BY ReadOutcomes
<1>2. UNCHANGED <<rows, command, requests, auxiliary>> /\ req[s].command \in Commands
      /\ req[s].by \in {"publish", "configure", "provision", "monitor"} /\ req[s].pc = "read"
  BY ReadOutcomes
<1>3. CommandsTypeOK'
  BY <1>1, <1>2 DEF rows, auxiliary, EngineInv, CommandsTypeOK
<1>4. CASE r = Idle
  BY <1>1, <1>2, <1>3, <1>4, IdleFits, QuietStep DEF rows, EngineInv
<1>5. CASE r # Idle
  <2>1. MineOf(r) = {}
    BY <1>1, <1>5 DEF MineOf, Requests
  <2>2. command[r.command].status # "NONE" /\ r.plan \in Plans(command[r.command].on)
    BY <1>1, <1>2, <1>5 DEF EngineInv, Fits, CommandFits
  <2>3. Fits(r, command)
    BY <1>1, <1>2, <1>5, <2>1, <2>2 DEF EngineInv, Fits, Requests
  <2> QED
    BY <1>1, <1>2, <1>3, <2>1, <2>3, QuietStep DEF rows
<1> QED
  BY <1>4, <1>5

\* The command goes to the engine, which may be told a scenario for it.
LEMMA DispatchKeepsInv ==
    ASSUME EngineInv, NEW s \in Slots, Dispatch(s)
    PROVE  /\ EngineInv' /\ req[s].command \in Commands
           /\ \E r \in Requests :
                /\ req' = [req EXCEPT ![s] = r]
                /\ r = Idle \/ /\ r.by = req[s].by /\ r.command = req[s].command
                               /\ r.version = req[s].version
                               /\ r.pc \in {"request", "read"}
                               /\ r.pc = "request" <=> r.by = "request"
                /\ r = Idle => req[s].by = "confirm"
           /\ \A c \in Commands : /\ command'[c].events = command[c].events
                                  /\ command'[c].types = command[c].types
                                  /\ command'[c].on = command[c].on
                                  /\ command'[c].status = "NONE" <=> command[c].status = "NONE"
<1> DEFINE c == req[s].command
<1>1. /\ c \in Commands /\ command[c].status # "NONE" /\ req[s] \in Requests
      /\ req[s].by \in {"publish", "configure", "request", "confirm"} /\ req[s].pc = "dispatch"
      /\ req[s].by = "publish" => command[c].on = "sequence"
      /\ command[c] \in CommandRows /\ command[c].on \in Aggregates
      /\ command[c].plan \in Plans(command[c].on)
  BY DEF Dispatch, At, EngineInv, Fits, CommandFits, CommandsTypeOK, CommandRows
<1>2. PICK p \in IF req[s].by = "publish" THEN Plans("sequence") ELSE {command[c].plan} :
        command' = [command EXCEPT ![c].status = "ACCEPTED", ![c].plan = p]
  BY DEF Dispatch
<1>3. p \in Plans(command[c].on) /\ p \in AllPlans
  BY <1>1, <1>2, PlansOfAggregates
<1> DEFINE k == command[c]
           new == [k EXCEPT !.status = "ACCEPTED", !.plan = p]
<1>4. /\ new \in CommandRows /\ new.status = "ACCEPTED" /\ new.plan = p
      /\ new.on = k.on /\ new.events = k.events /\ new.types = k.types
  <2> HIDE DEF k
  <2>1. k \in CommandRows
    BY <1>1 DEF k
  <2> QED
    BY <1>3, <2>1 DEF CommandRows, CommandStatus
<1>5. command' = [command EXCEPT ![c] = new]
  BY <1>1, <1>2 DEF EngineInv, CommandsTypeOK
<1> HIDE DEF new
<1>6. CommandFits(new)
  BY <1>3, <1>4 DEF CommandFits
<1>7. /\ command' \in [Commands -> CommandRows]
      /\ Grows
      /\ \A d \in Commands : CommandFits(command'[d])
      /\ command'[c] = new
      /\ \A d \in Commands \ {c} : command'[d] = command[d]
  <2>1. new.events = command[c].events /\ command[c].events \in Nat
    BY <1>1, <1>4 DEF CommandRows
  <2>2. new.on = command[c].on /\ new.types = command[c].types /\ new.status # "NONE"
    BY <1>4
  <2>3. command[c].events <= new.events
    BY <2>1
  <2> HIDE DEF c, k
  <2> QED
    BY <1>1, <1>4, <1>5, <1>6, <2>2, <2>3, Rewritten
<1>8. PICK r \in Requests :
        /\ req' = [req EXCEPT ![s] = r]
        /\ r = Idle \/ /\ r.by = req[s].by /\ r.command = req[s].command
                       /\ r.version = req[s].version
                       /\ r.pc \in {"request", "read"}
                       /\ r.pc = "request" <=> r.by = "request"
        /\ r = Idle => req[s].by = "confirm"
        /\ r # Idle => req[s].by # "confirm"
  <2>1. req' = [req EXCEPT ![s] = AfterDispatch(s)]
    BY DEF Dispatch, Continue
  <2>2. CASE req[s].by = "confirm"
    BY <2>1, <2>2, IdleFits DEF AfterDispatch
  <2>3. CASE req[s].by = "request"
    <3> DEFINE r == [req[s] EXCEPT !.pc = "request"]
    <3>1. AfterDispatch(s) = r
      BY <2>3 DEF AfterDispatch
    <3>2. /\ r \in Requests /\ r.pc = "request" /\ r.by = "request" /\ r.command = c
          /\ r.version = req[s].version
      BY <1>1, <2>3 DEF Requests, Points
    <3> HIDE DEF r
    <3> QED
      BY <2>1, <2>3, <3>1, <3>2, IdleFits
  <2>4. CASE req[s].by \in {"publish", "configure"}
    <3> DEFINE r == [req[s] EXCEPT !.pc = "read"]
    <3>1. AfterDispatch(s) = r
      BY <2>4 DEF AfterDispatch
    <3>2. /\ r \in Requests /\ r.pc = "read" /\ r.by = req[s].by /\ r.command = c
          /\ r.version = req[s].version
      BY <1>1 DEF Requests, Points
    <3> HIDE DEF r
    <3> QED
      BY <2>1, <2>4, <3>1, <3>2, IdleFits
  <2> QED
    BY <1>1, <2>2, <2>3, <2>4
<1>9. MineOf(r) = {}
  BY <1>8, IdleFits DEF MineOf
<1>10. Fits(r, command')
  <2>1. CASE r = Idle
    BY <2>1, IdleFits DEF EngineInv
  <2>2. CASE r # Idle
    BY <1>1, <1>4, <1>7, <1>8, <1>9, <2>2 DEF EngineInv, Fits
  <2> QED
    BY <2>1, <2>2
<1>11. UNCHANGED <<rows, requests, auxiliary>>
  BY DEF Dispatch
<1>12. CommandsTypeOK'
  BY <1>7, <1>8, <1>11 DEF rows, auxiliary, EngineInv, CommandsTypeOK
<1>13. EngineInv'
  BY <1>7, <1>8, <1>9, <1>10, <1>11, <1>12, EngineStep DEF rows
<1> QED
  BY <1>1, <1>4, <1>7, <1>8, <1>13

\* What a handler that is at an event knows of it.
LEMMA AtAnEvent ==
    ASSUME EngineInv, NEW s \in Slots, req[s].pc \in {"record", "mark", "apply"}
    PROVE  /\ req[s] \in Requests
           /\ req[s].command \in Commands /\ command[req[s].command] \in CommandRows
           /\ command[req[s].command].status # "NONE"
           /\ req[s].plan \in Plans(command[req[s].command].on)
           /\ Event(s) \in EventType
           /\ req[s].pc # "record" => Event(s) \in command[req[s].command].types
<1>1. /\ req[s] \in Requests
      /\ req[s].command \in Commands /\ command[req[s].command] \in CommandRows
      /\ command[req[s].command].status # "NONE"
      /\ req[s].plan \in Plans(command[req[s].command].on) /\ req[s].plan \in AllPlans
      /\ req[s].first <= req[s].at /\ req[s].at <= req[s].upto
      /\ req[s].upto <= Len(req[s].plan)
      /\ req[s].first \in 1 .. 5 /\ req[s].at \in 1 .. 5 /\ req[s].upto \in 1 .. 5
  BY DEF EngineInv, Fits, CommandsTypeOK, Requests
<1>2. Len(req[s].plan) \in 2 .. 5
      /\ \A i \in 1 .. Len(req[s].plan) : req[s].plan[i] \in EventType
  BY <1>1, EveryPlan
<1>3. req[s].at \in 1 .. Len(req[s].plan)
  BY <1>1, <1>2
<1>4. req[s].pc # "record" => req[s].at \in MineOf(req[s])
  BY <1>1 DEF MineOf
<1> QED
  BY <1>1, <1>2, <1>3, <1>4 DEF Event, EngineInv, Fits

\* Record writes the event, and is about to mark the command.
LEMMA Recording ==
    ASSUME EngineInv, NEW s \in Slots, Record(s)
    PROVE  /\ EngineInv' /\ req[s].pc = "record" /\ req[s].command \in Commands
           /\ req[s].at = command[req[s].command].events + 1
           /\ \E r \in Requests :
                /\ req' = [req EXCEPT ![s] = r]
                /\ r.pc = "mark" /\ r.by = req[s].by /\ r.command = req[s].command
                /\ r.version = req[s].version /\ r.at = req[s].at
           /\ \E k \in CommandRows :
                /\ command' = [command EXCEPT ![req[s].command] = k]
                /\ k.on = command[req[s].command].on
                /\ k.status = command[req[s].command].status
                /\ k.events = req[s].at
                /\ k.types = command[req[s].command].types \cup {Event(s)}
           /\ lost' = lost \cup (IF req[s].by = "monitor" THEN {req[s].command} ELSE {})
<1> DEFINE c == req[s].command
           k == command[c]
           e == Event(s)
           n == req[s].at
           all == k.types \cup {e}
           new == [k EXCEPT !.events = n, !.types = all]
           r == [req[s] EXCEPT !.pc = "mark"]
<1>1. /\ req[s].pc = "record" /\ n = k.events + 1
      /\ command' = [command EXCEPT ![c] = new]
      /\ req' = [req EXCEPT ![s] = r]
      /\ lost' = lost \cup (IF req[s].by = "monitor" THEN {c} ELSE {})
      /\ UNCHANGED <<rows, requests, overlap, mappings>>
  <2>1. command' = [command EXCEPT ![c].events = n, ![c].types = @ \cup {e}]
    BY DEF Record
  <2> QED
    BY <2>1 DEF Record, At, FreePosition, Goto, Continue, EngineInv, CommandsTypeOK
<1>2. /\ req[s] \in Requests /\ c \in Commands /\ k \in CommandRows /\ k.status # "NONE"
      /\ e \in EventType /\ n \in 1 .. 5 /\ CommandFits(k) /\ Fits(req[s], command)
  BY <1>1, AtAnEvent DEF EngineInv, Requests
<1>t. all = k.types \cup {e} /\ all \in SUBSET EventType /\ n \in 0 .. 5
  BY <1>2 DEF CommandRows
<1> HIDE DEF c, k, e, n, all
<1>3. /\ new \in CommandRows /\ new.on = k.on /\ new.status = k.status /\ new.plan = k.plan
      /\ new.events = n /\ new.types = k.types \cup {e}
  BY <1>2, <1>t DEF CommandRows
<1>4. /\ r \in Requests /\ r.pc = "mark" /\ r.by = req[s].by /\ r.command = req[s].command
      /\ r.version = req[s].version /\ r.at = req[s].at /\ r.first = req[s].first
      /\ r.upto = req[s].upto /\ r.plan = req[s].plan
  BY <1>2 DEF Requests, Points
<1> HIDE DEF new, r
<1>5. CommandFits(new) /\ k.events <= new.events
  BY <1>1, <1>2, <1>3 DEF CommandFits, CommandRows
<1>6. /\ command' \in [Commands -> CommandRows]
      /\ Grows
      /\ \A d \in Commands : CommandFits(command'[d])
      /\ command'[c] = new
  <2>1. k = command[c]
    BY DEF k
  <2> QED
    BY <1>1, <1>2, <1>3, <1>5, <2>1, Rewritten
<1>7. ASSUME NEW i \in MineOf(r)
      PROVE  /\ i = n \/ i \in MineOf(req[s])
             /\ i <= new.events /\ r.plan[i] \in new.types
  <2>1. i \in Int /\ req[s].first <= i /\ i <= n
    BY <1>2, <1>4 DEF MineOf, Requests, n
  <2>2. CASE i = n
    BY <1>2, <1>3, <1>4, <2>2 DEF e, Event, n
  <2>3. CASE i # n
    <3>1. i \in req[s].first .. n - 1
      BY <1>2, <2>1, <2>3 DEF Requests
    <3>2. i \in MineOf(req[s])
      BY <1>1, <3>1 DEF MineOf, n
    <3>3. req[s].plan[i] \in k.types
      BY <1>2, <3>2 DEF Fits, k, c
    <3> QED
      BY <1>2, <1>3, <1>4, <2>1, <3>2, <3>3
  <2> QED
    BY <2>2, <2>3
<1>8. Fits(r, command')
  <2>1. r.command = c /\ r.command \in Commands
    BY <1>2, <1>4 DEF c
  <2>2. /\ r.pc = "mark" /\ command'[r.command].status # "NONE"
        /\ command'[r.command].on = k.on
    BY <1>2, <1>3, <1>4, <1>6, <2>1
  <2>3. \A i \in MineOf(r) :
          i <= command'[r.command].events /\ r.plan[i] \in command'[r.command].types
    BY <1>6, <1>7, <2>1
  <2>4. /\ r.by \in {"publish", "configure", "provision", "monitor"}
        /\ r.by = "publish" => k.on = "sequence"
        /\ r.by \in OnMailbox => k.on = "mailbox"
        /\ r.first <= r.at /\ r.at <= r.upto /\ r.upto <= Len(r.plan)
        /\ r.plan \in Plans(k.on)
        /\ r.by = "publish" => r.upto = Len(r.plan)
    BY <1>1, <1>2, <1>4 DEF Fits, k, c
  <2> QED
    BY <2>1, <2>2, <2>3, <2>4 DEF Fits
<1>9. lost' \subseteq Commands
  BY <1>1, <1>2 DEF EngineInv, CommandsTypeOK
<1>10. CommandsTypeOK'
  BY <1>1, <1>4, <1>6, <1>9 DEF rows, EngineInv, CommandsTypeOK
<1>11. \A i \in MineOf(r) :
         \/ r.command = req[s].command /\ i \in MineOf(req[s])
         \/ i > command[r.command].events
  <2>1. n > k.events
    BY <1>1, <1>2 DEF CommandRows
  <2> QED
    BY <1>4, <1>7, <2>1 DEF k, c
<1>12. EngineInv'
  BY <1>1, <1>4, <1>6, <1>8, <1>10, <1>11, EngineStep DEF rows
<1> QED
  BY <1>1, <1>2, <1>3, <1>4, <1>12 DEF c, k, e, n

\* Mark writes the status that follows from the event, and goes on.
LEMMA Marking ==
    ASSUME EngineInv, NEW s \in Slots, Mark(s)
    PROVE  /\ EngineInv' /\ req[s].pc = "mark" /\ req[s].command \in Commands
           /\ \E r \in Requests :
                /\ req' = [req EXCEPT ![s] = r]
                /\ \/ r = Idle /\ req[s].by = "monitor"
                   \/ /\ r.pc \in {"record", "apply"} /\ r.by = req[s].by
                      /\ r.command = req[s].command /\ r.version = req[s].version
                      /\ r.pc = "record" => r.at = req[s].at + 1
           /\ \A d \in Commands : /\ command'[d].events = command[d].events
                                  /\ command'[d].types = command[d].types
                                  /\ command'[d].on = command[d].on
                                  /\ command'[d].status = "NONE" <=> command[d].status = "NONE"
<1> DEFINE c == req[s].command
           k == command[c]
           e == Event(s)
           n == req[s].at
           status == CommandStatusAfter(e)
           new == [k EXCEPT !.status = status]
<1>1. /\ req[s].pc = "mark"
      /\ command' = [command EXCEPT ![c] = new]
      /\ UNCHANGED <<rows, requests, auxiliary>>
  <2>1. command' = [command EXCEPT ![c].status = status]
    BY DEF Mark
  <2> QED
    BY <2>1 DEF Mark, At, EngineInv, CommandsTypeOK
<1>2. /\ req[s] \in Requests /\ c \in Commands /\ k \in CommandRows /\ k.status # "NONE"
      /\ e \in EventType /\ n \in 1 .. 5 /\ CommandFits(k) /\ Fits(req[s], command)
      /\ e \in k.types
  BY <1>1, AtAnEvent DEF EngineInv, Requests
<1>3. /\ status \in CommandStatus /\ status # "NONE"
      /\ status \in {"COMPLETED", "FAILED"} => status = e
  BY <1>2 DEF CommandStatusAfter, CommandStatus, EventType
<1> HIDE DEF c, k, e, n, status
<1>4. /\ new \in CommandRows /\ new.on = k.on /\ new.status = status /\ new.plan = k.plan
      /\ new.events = k.events /\ new.types = k.types
  BY <1>2, <1>3 DEF CommandRows
<1> HIDE DEF new
<1>5. CommandFits(new) /\ k.events <= new.events
  BY <1>2, <1>3, <1>4 DEF CommandFits, CommandRows
<1>6. /\ command' \in [Commands -> CommandRows]
      /\ Grows
      /\ \A d \in Commands : CommandFits(command'[d])
      /\ command'[c] = new
      /\ \A d \in Commands \ {c} : command'[d] = command[d]
  <2>1. k = command[c]
    BY DEF k
  <2> QED
    BY <1>1, <1>2, <1>3, <1>4, <1>5, <2>1, Rewritten
<1>7. PICK r \in Requests :
        /\ req' = [req EXCEPT ![s] = r]
        /\ \/ r = Idle /\ req[s].by = "monitor"
           \/ /\ r.pc \in {"record", "apply"} /\ r.by = req[s].by
              /\ r.command = req[s].command /\ r.version = req[s].version
              /\ r.first = req[s].first /\ r.upto = req[s].upto /\ r.plan = req[s].plan
              /\ r.pc = "record" => r.at = req[s].at + 1 /\ r.at <= r.upto
              /\ r.pc = "apply" => r.at = r.first /\ r.by # "monitor" /\ req[s].at = r.upto
  <2>1. req[s].at \in 1 .. 5 /\ req[s].upto \in 1 .. 5 /\ req[s].at <= req[s].upto
    BY <1>1, <1>2 DEF Fits, Requests
  <2>2. CASE req[s].at < req[s].upto
    <3> DEFINE m == req[s].at + 1
               r == [req[s] EXCEPT !.pc = "record", !.at = m]
    <3>1. req' = [req EXCEPT ![s] = r]
      BY <2>2 DEF Mark, Continue
    <3>2. m \in 1 .. 5 /\ m <= req[s].upto /\ m = req[s].at + 1
      BY <2>1, <2>2
    <3> HIDE DEF m
    <3>3. /\ r \in Requests /\ r.pc = "record" /\ r.by = req[s].by /\ r.at = m
          /\ r.command = req[s].command /\ r.version = req[s].version
          /\ r.first = req[s].first /\ r.upto = req[s].upto /\ r.plan = req[s].plan
      BY <1>2, <3>2 DEF Requests, Points
    <3> HIDE DEF r
    <3> QED
      BY <3>1, <3>2, <3>3
  <2>3. CASE ~(req[s].at < req[s].upto) /\ req[s].by = "monitor"
    BY <2>3, IdleFits DEF Mark, Continue
  <2>4. CASE ~(req[s].at < req[s].upto) /\ req[s].by # "monitor"
    <3> DEFINE m == req[s].first
               r == [req[s] EXCEPT !.pc = "apply", !.at = m]
    <3>1. req' = [req EXCEPT ![s] = r]
      BY <2>4 DEF Mark, Continue
    <3>2. m \in 1 .. 5 /\ m = req[s].first
      BY <1>2 DEF Requests
    <3> HIDE DEF m
    <3>3. /\ r \in Requests /\ r.pc = "apply" /\ r.by = req[s].by /\ r.at = m
          /\ r.command = req[s].command /\ r.version = req[s].version
          /\ r.first = req[s].first /\ r.upto = req[s].upto /\ r.plan = req[s].plan
      BY <1>2, <3>2 DEF Requests, Points
    <3>4. req[s].at = req[s].upto
      BY <2>1, <2>4
    <3> HIDE DEF r
    <3> QED
      BY <2>4, <3>1, <3>2, <3>3, <3>4
  <2> QED
    BY <2>2, <2>3, <2>4
<1>8. r # Idle => \A i \in MineOf(r) : i \in MineOf(req[s])
  <2>1. /\ req[s].at \in 1 .. 5 /\ req[s].first \in 1 .. 5
        /\ MineOf(req[s]) = req[s].first .. req[s].at
    BY <1>1, <1>2 DEF MineOf, Requests
  <2>2. CASE r.pc = "record" /\ r # Idle
    <3>1. MineOf(r) = r.first .. r.at - 1 /\ r.at = req[s].at + 1 /\ r.first = req[s].first
      BY <1>7, <2>2, IdleFits DEF MineOf
    <3> QED
      BY <2>1, <3>1
  <2>3. CASE r.pc = "apply" /\ r # Idle
    <3>1. MineOf(r) = r.first .. r.upto /\ r.upto = req[s].at /\ r.first = req[s].first
      BY <1>7, <2>3, IdleFits DEF MineOf
    <3> QED
      BY <2>1, <3>1
  <2> QED
    BY <1>7, <2>2, <2>3
<1>9. Fits(r, command')
  <2>1. CASE r = Idle
    BY <2>1, IdleFits DEF EngineInv
  <2>2. CASE r # Idle
    <3>1. r.command = c /\ r.command \in Commands
      BY <1>2, <1>7, <2>2 DEF c
    <3>2. /\ r.pc \in {"record", "apply"} /\ command'[r.command].status # "NONE"
          /\ command'[r.command].on = k.on
      BY <1>3, <1>4, <1>6, <1>7, <2>2, <3>1
    <3>3. \A i \in MineOf(r) :
            i <= command'[r.command].events /\ r.plan[i] \in command'[r.command].types
      BY <1>2, <1>4, <1>6, <1>7, <1>8, <2>2, <3>1 DEF Fits, k, c
    <3>4. /\ r.by \in {"publish", "configure", "provision", "monitor"}
          /\ r.by = "publish" => k.on = "sequence"
          /\ r.by \in OnMailbox => k.on = "mailbox"
          /\ r.upto <= Len(r.plan) /\ r.plan \in Plans(k.on)
          /\ r.by = "publish" => r.upto = Len(r.plan)
          /\ r.pc = "apply" => r.by # "monitor"
      BY <1>1, <1>2, <1>7, <2>2 DEF Fits, k, c
    <3>5. r.first <= r.at /\ r.at <= r.upto
      BY <1>1, <1>2, <1>7, <2>2 DEF Fits, Requests
    <3> QED
      BY <3>1, <3>2, <3>3, <3>4, <3>5 DEF Fits
  <2> QED
    BY <2>1, <2>2
<1>10. CommandsTypeOK'
  BY <1>1, <1>6, <1>7 DEF rows, auxiliary, EngineInv, CommandsTypeOK
<1>11. \A i \in MineOf(r) : r.command = req[s].command /\ i \in MineOf(req[s])
  BY <1>7, <1>8, IdleFits
<1>12. EngineInv'
  BY <1>1, <1>6, <1>7, <1>9, <1>10, <1>11, EngineStep DEF rows
<1>13. \A d \in Commands : /\ command'[d].events = command[d].events
                           /\ command'[d].types = command[d].types
                           /\ command'[d].on = command[d].on
                           /\ command'[d].status = "NONE" <=> command[d].status = "NONE"
  BY <1>2, <1>3, <1>4, <1>6 DEF k
<1> QED
  BY <1>1, <1>2, <1>7, <1>12, <1>13 DEF c

\* A handler that applied an event goes on to the next one it recorded.
LEMMA Applying ==
    ASSUME EngineInv, NEW s \in Slots, ApplyToSequence(s) \/ ApplyToMailbox(s)
    PROVE  /\ EngineInv' /\ req[s].pc = "apply"
           /\ command' = command /\ last' = last /\ UNCHANGED auxiliary
           /\ \E r \in Requests :
                /\ req' = [req EXCEPT ![s] = r]
                /\ \/ r = Idle /\ req[s].at = req[s].upto
                   \/ /\ r.pc = "apply" /\ r.by = req[s].by /\ req[s].at < req[s].upto
                      /\ r.command = req[s].command /\ r.version = req[s].version
<1>1. /\ req[s].pc = "apply" /\ NextEvent(s) /\ command' = command /\ last' = last
      /\ UNCHANGED <<auxiliary, importStatus, rawRows, requests>>
  BY DEF ApplyToSequence, ApplyToMailbox, At
<1>2. /\ req[s] \in Requests /\ Fits(req[s], command) /\ Event(s) \in EventType
      /\ req[s].command \in Commands
  BY <1>1, AtAnEvent DEF EngineInv
<1>3. /\ req[s].at \in 1 .. 5 /\ req[s].upto \in 1 .. 5
      /\ req[s].first <= req[s].at /\ req[s].at <= req[s].upto
  BY <1>1, <1>2 DEF Fits, Requests
<1>4. PICK r \in Requests :
        /\ req' = [req EXCEPT ![s] = r]
        /\ \/ r = Idle /\ req[s].at = req[s].upto
           \/ /\ r.pc = "apply" /\ r.by = req[s].by /\ req[s].at < req[s].upto
              /\ r.command = req[s].command /\ r.version = req[s].version
              /\ r.first = req[s].first /\ r.upto = req[s].upto /\ r.plan = req[s].plan
              /\ r.at = req[s].at + 1
  <2>1. CASE req[s].at < req[s].upto
    <3> DEFINE m == req[s].at + 1
               r == [req[s] EXCEPT !.at = m]
    <3>1. req' = [req EXCEPT ![s] = r]
      BY <1>1, <2>1 DEF NextEvent, Continue
    <3>2. m \in 1 .. 5 /\ m = req[s].at + 1
      BY <1>3, <2>1
    <3> HIDE DEF m
    <3>3. /\ r \in Requests /\ r.pc = "apply" /\ r.by = req[s].by /\ r.at = m
          /\ r.command = req[s].command /\ r.version = req[s].version
          /\ r.first = req[s].first /\ r.upto = req[s].upto /\ r.plan = req[s].plan
      BY <1>1, <1>2, <3>2 DEF Requests
    <3> HIDE DEF r
    <3> QED
      BY <2>1, <3>1, <3>2, <3>3
  <2>2. CASE ~(req[s].at < req[s].upto)
    <3>1. req[s].at = req[s].upto
      BY <1>3, <2>2
    <3>2. req' = [req EXCEPT ![s] = Idle]
      BY <1>1, <2>2 DEF NextEvent, Continue
    <3> QED
      BY <3>1, <3>2, IdleFits
  <2> QED
    BY <2>1, <2>2
<1>6. ASSUME r # Idle
      PROVE  MineOf(r) = MineOf(req[s])
  BY <1>1, <1>4, <1>6 DEF MineOf
<1>7. Fits(r, command)
  <2>1. CASE r = Idle
    BY <2>1, IdleFits DEF EngineInv
  <2>2. CASE r # Idle
    <3>1. r.first <= r.at /\ r.at <= r.upto
      BY <1>3, <1>4, <2>2, <1>2 DEF Requests
    <3> QED
      BY <1>1, <1>2, <1>4, <1>6, <2>2, <3>1 DEF Fits
  <2> QED
    BY <2>1, <2>2
<1>8. /\ publishStatus' \in PublishStatus /\ sequenceVersion' \in Nat
      /\ provisioningStatus' \in ProvisioningStatus
  <2>1. CASE ApplyToSequence(s)
    <3>1. /\ Event(s) \in {"ACCEPTED", "COMPLETED", "FAILED"}
          /\ req[s].version \in Nat
      <4>1. req[s].plan \in Plans("sequence") /\ req[s].at \in 1 .. 2
        <5>1. req[s].plan \in Plans("sequence") /\ req[s].upto <= Len(req[s].plan)
          BY <1>1, <1>2, <2>1 DEF ApplyToSequence, Fits
        <5>2. Len(req[s].plan) = 2
          BY <5>1, SequencePlans
        <5> QED
          BY <1>3, <5>1, <5>2
      <4>2. req[s].at = 1 \/ req[s].at = 2
        BY <4>1
      <4> QED
        BY <1>2, <4>1, <4>2, SequencePlans DEF Event, Requests
    <3> QED
      BY <2>1, <3>1 DEF ApplyToSequence, PublishStatusAfter, VersionAfter, EngineInv,
                        CommandsTypeOK, PublishStatus, BLOCKED_PUBLISH_STATUSES
  <2>2. CASE ApplyToMailbox(s)
    BY <2>2 DEF ApplyToMailbox, ProvisioningStatusAfter, EngineInv, CommandsTypeOK,
                ProvisioningStatus
  <2> QED
    BY <2>1, <2>2
<1>9. CommandsTypeOK'
  BY <1>1, <1>4, <1>8 DEF auxiliary, EngineInv, CommandsTypeOK
<1>10. \A i \in MineOf(r) : r.command = req[s].command /\ i \in MineOf(req[s])
  BY <1>4, <1>6, IdleFits
<1>11. EngineInv'
  BY <1>1, <1>4, <1>7, <1>9, <1>10, QuietStep
<1> QED
  BY <1>1, <1>4, <1>11

\* A step of no handler: a command keeps all but its plan.
Replanned ==
    /\ command' \in [Commands -> CommandRows]
    /\ \A c \in Commands : /\ command'[c].plan \in Plans(command[c].on)
                           /\ command'[c].on = command[c].on
                           /\ command'[c].status = command[c].status
                           /\ command'[c].events = command[c].events
                           /\ command'[c].types = command[c].types

LEMMA Replanning ==
    ASSUME NEW k \in CommandRows, NEW p \in Plans(k.on)
    PROVE  /\ [k EXCEPT !.plan = p] \in CommandRows
           /\ [k EXCEPT !.plan = p].plan = p /\ [k EXCEPT !.plan = p].on = k.on
           /\ [k EXCEPT !.plan = p].status = k.status
           /\ [k EXCEPT !.plan = p].events = k.events /\ [k EXCEPT !.plan = p].types = k.types
<1>1. p \in AllPlans
  BY PlansOfAggregates DEF CommandRows
<1> QED
  BY <1>1 DEF CommandRows

LEMMA ReplannedFits ==
    ASSUME EngineInv, Replanned
    PROVE  /\ Grows
           /\ \A c \in Commands : CommandFits(command'[c])
           /\ LastFits(last, command')
<1>1. Grows
  BY DEF Replanned, Grows, EngineInv, CommandsTypeOK, CommandRows
<1>2. \A c \in Commands : CommandFits(command'[c])
  BY DEF Replanned, CommandFits, EngineInv
<1>3. LastFits(last, command')
  BY DEF Replanned, LastFits, EngineInv, CommandsTypeOK
<1> QED
  BY <1>1, <1>2, <1>3

LEMMA RestartKeepsInv ==
    ASSUME EngineInv, Restart
    PROVE  EngineInv' /\ Replanned
<1>1. Replanned
  <2>1. \A c \in Commands : command[c] \in CommandRows /\ command[c].on \in Aggregates
    BY DEF EngineInv, CommandsTypeOK, CommandRows
  <2>2. ASSUME NEW c \in Commands
        PROVE  /\ command'[c] = [command[c] EXCEPT !.plan = SuccessPlan(command[c].on)]
               /\ SuccessPlan(command[c].on) \in Plans(command[c].on)
    BY <2>1, PlansOfAggregates DEF Restart
  <2>3. command' = [c \in Commands |-> command'[c]]
    BY DEF Restart
  <2>4. \A c \in Commands :
          /\ command'[c] \in CommandRows
          /\ command'[c].plan \in Plans(command[c].on)
          /\ command'[c].on = command[c].on
          /\ command'[c].status = command[c].status
          /\ command'[c].events = command[c].events
          /\ command'[c].types = command[c].types
    <3> SUFFICES ASSUME NEW c \in Commands
                 PROVE  /\ command'[c] \in CommandRows
                        /\ command'[c].plan \in Plans(command[c].on)
                        /\ command'[c].on = command[c].on
                        /\ command'[c].status = command[c].status
                        /\ command'[c].events = command[c].events
                        /\ command'[c].types = command[c].types
      OBVIOUS
    <3> DEFINE k == command[c]
               p == SuccessPlan(k.on)
    <3>1. command'[c] = [k EXCEPT !.plan = p] /\ k \in CommandRows /\ p \in Plans(k.on)
      BY <2>1, <2>2
    <3> HIDE DEF p, k
    <3>2. /\ [k EXCEPT !.plan = p] \in CommandRows
          /\ [k EXCEPT !.plan = p].plan = p /\ [k EXCEPT !.plan = p].on = k.on
          /\ [k EXCEPT !.plan = p].status = k.status
          /\ [k EXCEPT !.plan = p].events = k.events
          /\ [k EXCEPT !.plan = p].types = k.types
      BY <3>1, Replanning
    <3>3. k = command[c]
      BY DEF k
    <3> QED
      BY <3>1, <3>2, <3>3
  <2> QED
    BY <2>3, <2>4 DEF Replanned
<1>2. req' = [s \in Slots |-> Idle] /\ last' = last
  BY DEF Restart
<1>3. requests' \in Nat /\ lost' \subseteq Commands /\ rawRows' \in BOOLEAN
      /\ UNCHANGED <<publishStatus, sequenceVersion, provisioningStatus, importStatus, last,
                     overlap, mappings>>
  <2>1. \A s \in Slots : Held(s) \subseteq Commands
    BY DEF Held, EngineInv, CommandsTypeOK, Requests
  <2>2. lost' = lost \cup UNION {Held(s) : s \in Slots}
    BY DEF Restart
  <2>3. lost' \subseteq Commands
    BY <2>1, <2>2 DEF EngineInv, CommandsTypeOK
  <2>4. requests' \in Nat
    BY DEF Restart, Admit, EngineInv, CommandsTypeOK
  <2>5. rawRows' = FALSE
    BY DEF Restart
  <2>6. UNCHANGED <<publishStatus, sequenceVersion, provisioningStatus, importStatus, last,
                    overlap, mappings>>
    BY DEF Restart
  <2> QED
    BY <2>3, <2>4, <2>5, <2>6
<1>4. CommandsTypeOK'
  BY <1>1, <1>2, <1>3, IdleFits DEF Replanned, EngineInv, CommandsTypeOK
<1>5. OneAppliesEachEvent'
  BY <1>2, IdleFits DEF OneAppliesEachEvent, Mine, At
<1>6. \A s \in Slots : Fits(req'[s], command')
  BY <1>2, IdleFits DEF EngineInv
<1> QED
  BY <1>1, <1>2, <1>4, <1>5, <1>6, ReplannedFits DEF EngineInv

LEMMA ScenarioKeepsInv ==
    ASSUME EngineInv, SetScenario
    PROVE  EngineInv' /\ Replanned
<1>1. PICK a \in {"mailbox", "import"} :
        /\ last[a] \in Commands
        /\ \E p \in Plans(a) : command' = [command EXCEPT ![last[a]].plan = p]
  BY DEF SetScenario
<1>2. PICK p \in Plans(a) : command' = [command EXCEPT ![last[a]].plan = p]
  BY <1>1
<1>3. /\ command[last[a]].on = a
      /\ \A c \in Commands : command[c] \in CommandRows /\ command[c].plan \in Plans(command[c].on)
      /\ command' = [command EXCEPT ![last[a]] = [command[last[a]] EXCEPT !.plan = p]]
  BY <1>1, <1>2 DEF EngineInv, LastFits, Aggregates, CommandsTypeOK, CommandFits
<1> DEFINE k == command[last[a]]
           new == [k EXCEPT !.plan = p]
<1>4. /\ new \in CommandRows /\ new.plan = p /\ new.on = k.on /\ new.status = k.status
      /\ new.events = k.events /\ new.types = k.types
  BY <1>1, <1>2, <1>3, Replanning
<1> HIDE DEF new
<1>5. command' = [command EXCEPT ![last[a]] = new]
  BY <1>3 DEF new
<1>6. Replanned
  BY <1>1, <1>3, <1>4, <1>5 DEF Replanned, EngineInv, CommandsTypeOK
<1>7. requests' \in Nat /\ UNCHANGED <<rows, req, auxiliary>>
  BY DEF SetScenario, Admit, EngineInv, CommandsTypeOK
<1>8. CommandsTypeOK'
  BY <1>6, <1>7 DEF Replanned, rows, auxiliary, EngineInv, CommandsTypeOK
<1>9. OneAppliesEachEvent'
  BY <1>7 DEF OneAppliesEachEvent, Mine, At, EngineInv
<1>10. ASSUME NEW s \in Slots
       PROVE  Fits(req'[s], command')
  BY <1>6, <1>7, ReplannedFits, FitsOn DEF Replanned, EngineInv, CommandsTypeOK
<1> QED
  BY <1>6, <1>7, <1>8, <1>9, <1>10, ReplannedFits DEF EngineInv, rows

LEMMA EngineInvInductive ==
    ASSUME EngineInv, [Next]_vars
    PROVE  EngineInv'
<1>1. CASE UNCHANGED vars
  BY <1>1 DEF vars, rows, auxiliary, EngineInv, CommandsTypeOK, OneAppliesEachEvent, Mine, At
<1>2. ASSUME NEW s \in Slots,
             HandlerFails(s) \/ Refused(s) \/ RecordTaken(s) \/ Map(s) \/ Beginning(s)
      PROVE  EngineInv'
  BY <1>2, FinishingKeepsInv, BeginningKeepsInv
<1>3. ASSUME NEW s \in Slots,
             \/ Publish(s) \/ Configure(s) \/ BeginRequest(s) \/ Confirm(s) \/ Request(s)
             \/ AdvanceRead(s) \/ Dispatch(s)
      PROVE  EngineInv'
  BY <1>3, CreationKeepsInv, RequestKeepsInv, ReadKeepsInv, DispatchKeepsInv DEF CreatesCommand
<1>4. ASSUME NEW s \in Slots,
             Record(s) \/ Mark(s) \/ ApplyToSequence(s) \/ ApplyToMailbox(s)
      PROVE  EngineInv'
  BY <1>4, Recording, Marking, Applying
<1> QED
  BY <1>1, <1>2, <1>3, <1>4, RestartKeepsInv, ScenarioKeepsInv DEF Next, Beginning

\* In every reachable state each handler holds an existing command of its own aggregate,
\* and the events that it recorded of it.
THEOREM EngineInvariant ==
    ASSUME None \notin Commands
    PROVE  Spec => []EngineInv
<1>1. ASSUME Init
      PROVE  EngineInv
  <2>1. SuccessPlan("sequence") \in Plans("sequence") /\ SuccessPlan("sequence") \in AllPlans
    BY PlansOfAggregates DEF Aggregates
  <2>2. NoCommand \in CommandRows /\ CommandFits(NoCommand)
    BY <2>1 DEF NoCommand, CommandRows, CommandStatus, CommandFits, Aggregates
  <2>3. CommandsTypeOK
    BY <1>1, <2>2, IdleFits
    DEF Init, CommandsTypeOK, PublishStatus, ProvisioningStatus, ImportStatus
  <2>4. \A s \in Slots : Fits(req[s], command)
    BY <1>1, IdleFits DEF Init
  <2>5. OneAppliesEachEvent
    BY <1>1, IdleFits DEF Init, OneAppliesEachEvent, Mine, At
  <2> QED
    BY <1>1, <2>2, <2>3, <2>4, <2>5 DEF Init, EngineInv, LastFits
<1>2. EngineInv /\ [Next]_vars => EngineInv'
  BY EngineInvInductive
<1> QED
  BY <1>1, <1>2, PTL DEF Spec

\* Every variable keeps the shape its table or handler gives it.
THEOREM CommandsTypeCorrect ==
    ASSUME None \notin Commands
    PROVE  Spec => []CommandsTypeOK
<1>1. EngineInv => CommandsTypeOK
  BY DEF EngineInv
<1> QED
  BY <1>1, EngineInvariant, PTL

\* An event of a command is in one handler's hands.
THEOREM OneApplies ==
    ASSUME None \notin Commands
    PROVE  Spec => []OneAppliesEachEvent
<1>1. EngineInv => OneAppliesEachEvent
  BY DEF EngineInv
<1> QED
  BY <1>1, EngineInvariant, PTL

\* A command is COMPLETED or FAILED only after the event that ends it.
THEOREM EndsByItsEvent ==
    ASSUME None \notin Commands
    PROVE  Spec => []EndedByItsEvent
<1>1. EngineInv => EndedByItsEvent
  BY DEF EngineInv, CommandFits, EndedByItsEvent
<1> QED
  BY <1>1, EngineInvariant, PTL

-----------------------------------------------------------------------------
(* The publication of the sequence.                                         *)

Publishing(r) == r.by = "publish" /\ r.command \in Commands

\* Of a publication that nobody cut short or advanced, nobody else has recorded events.
Unshared(r, commands, cut) ==
    Publishing(r) /\ r.command \notin cut =>
      /\ r.pc \in {"dispatch", "read"} => commands[r.command].events = 0
      /\ r.pc = "record" => commands[r.command].events + 1 = r.at
      /\ r.pc = "mark" => commands[r.command].events = r.at

PublicationInv ==
    /\ \A s \in Slots :
         Publishing(req[s]) => /\ publishStatus \in BLOCKED_PUBLISH_STATUSES
                               /\ last["sequence"] = req[s].command
    /\ \A s, t \in Slots : Publishing(req[s]) /\ Publishing(req[t]) => s = t
    /\ publishStatus # "NONE" => last["sequence"] \in Commands
    /\ publishStatus \in BLOCKED_PUBLISH_STATUSES /\ last["sequence"] \notin lost =>
         \E s \in Slots : Publishing(req[s])
    /\ \A s \in Slots : Unshared(req[s], command, lost)
    /\ PublishedIsReported

\* What was recorded of a command that a row names stays recorded.
LEMMA StaysRecorded ==
    ASSUME EngineInv, Grows, NEW a \in Aggregates, NEW event, last'[a] = last[a],
           Recorded(a, event)
    PROVE  Recorded(a, event)'
<1>1. last[a] # None /\ last[a] \in Commands
  BY DEF Recorded, EngineInv
<1>2. command[last[a]].status # "NONE"
  BY <1>1 DEF EngineInv, LastFits
<1> QED
  BY <1>1, <1>2 DEF Recorded, Grows

\* A handler's step that is not about the publication, or gives up one that is cut.
LEMMA PublicationStep ==
    ASSUME EngineInv, PublicationInv, NEW s \in Slots, NEW r \in Requests,
           req' = [req EXCEPT ![s] = r], Grows,
           publishStatus' = publishStatus, last'["sequence"] = last["sequence"],
           lost \subseteq lost',
           Publishing(r) => Publishing(req[s]) /\ r.command = req[s].command,
           Publishing(req[s]) => Publishing(r) \/ req[s].command \in lost',
           Unshared(r, command', lost'),
           \A t \in Slots \ {s} : Publishing(req[t]) =>
             \/ command'[req[t].command].events = command[req[t].command].events
             \/ req[t].command \in lost'
    PROVE  PublicationInv'
<1>1. /\ req'[s] = r
      /\ \A t \in Slots \ {s} : req'[t] = req[t]
  BY DEF EngineInv, CommandsTypeOK
<1>2. \A t \in Slots :
        Publishing(req'[t]) => Publishing(req[t]) /\ req'[t].command = req[t].command
  BY <1>1
<1>3. ASSUME publishStatus \in BLOCKED_PUBLISH_STATUSES, last["sequence"] \notin lost'
      PROVE  \E t \in Slots : Publishing(req'[t])
  <2>1. PICK t \in Slots : Publishing(req[t])
    BY <1>3 DEF PublicationInv
  <2>2. req[t].command = last["sequence"]
    BY <2>1 DEF PublicationInv
  <2> QED
    BY <1>1, <1>3, <2>1, <2>2
<1>4. ASSUME NEW t \in Slots
      PROVE  Unshared(req'[t], command', lost')
  <2>1. CASE t = s
    BY <2>1, <1>1
  <2>2. CASE t # s
    BY <2>2, <1>1 DEF PublicationInv, Unshared
  <2> QED
    BY <2>1, <2>2
<1>5. PublishedIsReported'
  BY StaysRecorded DEF PublicationInv, PublishedIsReported, Aggregates
<1> QED
  BY <1>2, <1>3, <1>4, <1>5 DEF PublicationInv

LEMMA IdleIsNotPublishing ==
    /\ ~Publishing(Idle)
    /\ \A commands, cut : Unshared(Idle, commands, cut)
<1>1. ~Publishing(Idle)
  BY IdleFits DEF Publishing
<1> QED
  BY <1>1 DEF Unshared

LEMMA QuietGrows ==
    ASSUME EngineInv, command' = command
    PROVE  Grows
BY DEF Grows, EngineInv, CommandsTypeOK, CommandRows

\* A handler that gives up leaves its publication cut short.
LEMMA PublicationOnFinishing ==
    ASSUME EngineInv, PublicationInv, NEW s \in Slots,
           HandlerFails(s) \/ Refused(s) \/ RecordTaken(s) \/ Map(s)
    PROVE  PublicationInv'
<1>1. req' = [req EXCEPT ![s] = Idle] /\ command' = command /\ last' = last /\ Grows
  BY FinishingKeepsInv, QuietGrows
<1>2. publishStatus' = publishStatus /\ lost \subseteq lost'
  BY DEF HandlerFails, Refused, RecordTaken, Map, rows, auxiliary
<1>3. ASSUME Publishing(req[s])
      PROVE  req[s].command \in lost'
  <2>1. CASE HandlerFails(s)
    BY <1>3, <2>1 DEF HandlerFails, Held, Publishing, EngineInv
  <2>2. CASE Refused(s) \/ Map(s)
    BY <1>3, <2>2 DEF Refused, Map, At, Publishing, EngineInv, Fits
  <2>3. CASE RecordTaken(s)
    BY <1>2, <1>3, <2>3 DEF RecordTaken, FreePosition, At, PublicationInv, Unshared
  <2> QED
    BY <2>1, <2>2, <2>3
<1> QED
  BY <1>1, <1>2, <1>3, IdleFits, IdleIsNotPublishing, PublicationStep

LEMMA PublicationOnBeginning ==
    ASSUME EngineInv, PublicationInv, NEW s \in Slots, Beginning(s)
    PROVE  PublicationInv'
<1>1. PICK r \in Requests : Begin(s, r) /\ Begun(r)
  BY Beginnings
<1>2. req' = [req EXCEPT ![s] = r] /\ command' = command
      /\ req[s].by = "nobody" /\ UNCHANGED <<rows, lost>>
  BY <1>1 DEF Begin, At, Continue, Beginning, BeginPublish, BeginProvision, BeginMapping,
              BeginConfirm, BeginMonitor, rows, EngineInv, Fits
<1>3. ~Publishing(r) /\ ~Publishing(req[s])
  BY <1>1, <1>2 DEF Begun, Publishing, EngineInv
<1> QED
  BY <1>2, <1>3, QuietGrows, PublicationStep DEF rows, Unshared

LEMMA PublicationOnOtherCreations ==
    ASSUME EngineInv, PublicationInv, NEW s \in Slots, CreatesCommand(s), ~Publish(s)
    PROVE  PublicationInv'
<1>1. PICK r \in Requests, c \in Commands, a \in Aggregates :
        Creating(s, r, c, a) /\ r.by # "publish" /\ a # "sequence"
  BY Creations
<1>2. /\ Grows /\ command[c].status = "NONE"
      /\ \A d \in Commands \ {c} : command'[d] = command[d]
  BY <1>1, Created DEF Creating
<1>3. /\ req' = [req EXCEPT ![s] = r] /\ last'["sequence"] = last["sequence"]
      /\ lost' = lost /\ publishStatus' = publishStatus
  BY <1>1 DEF Creating, CreatesCommand, Configure, BeginRequest, Confirm, rows, auxiliary,
              EngineInv, CommandsTypeOK, Aggregates
<1>4. req[s].by # "publish"
  BY DEF CreatesCommand, Configure, BeginRequest, Confirm, Begin, At, EngineInv, Fits
<1>5. \A t \in Slots : Publishing(req[t]) => req[t].command # c
  BY <1>2 DEF PublicationInv, Publishing, EngineInv, LastFits, Aggregates
<1>6. \A t \in Slots : Publishing(req[t]) => req[t].command \in Commands
  BY DEF Publishing
<1> QED
  BY <1>1, <1>2, <1>3, <1>4, <1>5, <1>6, PublicationStep DEF Publishing, Unshared

LEMMA PublicationOnCommandSteps ==
    ASSUME EngineInv, PublicationInv, NEW s \in Slots,
           \/ Request(s) \/ AdvanceRead(s) \/ Dispatch(s) \/ Record(s) \/ Mark(s)
           \/ ApplyToMailbox(s)
    PROVE  PublicationInv'
<1>1. CASE Request(s)
  <2>1. /\ req' = [req EXCEPT ![s] = Idle] /\ command' = command /\ lost' = lost
        /\ publishStatus' = publishStatus /\ last'["sequence"] = last["sequence"]
    BY <1>1 DEF Request, Finish, Continue, auxiliary, EngineInv, CommandsTypeOK, Aggregates
  <2>2. ~Publishing(req[s])
    BY <1>1 DEF Request, At, Publishing, EngineInv, Fits
  <2> QED
    BY <2>1, <2>2, QuietGrows, IdleFits, IdleIsNotPublishing, PublicationStep
<1>2. CASE AdvanceRead(s)
  <2>1. PICK r \in Requests :
          /\ req' = [req EXCEPT ![s] = r]
          /\ \/ r = Idle /\ command[req[s].command].events + 1
                              > Len(command[req[s].command].plan)
             \/ /\ r.pc = "record" /\ r.by = req[s].by /\ r.command = req[s].command
                /\ r.at = command[r.command].events + 1
    BY <1>2, ReadOutcomes
  <2>2. /\ UNCHANGED <<rows, command, lost>> /\ req[s].pc = "read"
        /\ req[s].command \in Commands
    BY <1>2, ReadOutcomes DEF auxiliary
  <2>3. ASSUME r = Idle, Publishing(req[s])
        PROVE  req[s].command \in lost
    <3>1. command[req[s].command].plan \in AllPlans
      BY <2>2 DEF EngineInv, CommandsTypeOK, CommandRows
    <3>2. Len(command[req[s].command].plan) \in 2 .. 5
      BY <3>1, EveryPlan
    <3>3. command[req[s].command].events + 1 > Len(command[req[s].command].plan)
      BY <2>1, <2>3, IdleFits
    <3>4. command[req[s].command].events # 0
      <4> DEFINE n == command[req[s].command].events
                 m == Len(command[req[s].command].plan)
      <4>1. m \in 2 .. 5 /\ n + 1 > m
        BY <3>2, <3>3
      <4> HIDE DEF n, m
      <4>2. n # 0
        BY <4>1
      <4> QED
        BY <4>2 DEF n
    <3> QED
      BY <2>2, <2>3, <3>4 DEF PublicationInv, Unshared
  <2>4. CASE r = Idle
    BY <2>1, <2>2, <2>3, <2>4, QuietGrows, IdleIsNotPublishing, PublicationStep DEF rows
  <2>5. CASE r # Idle
    BY <2>1, <2>2, <2>5, QuietGrows, PublicationStep DEF rows, Publishing, Unshared
  <2> QED
    BY <2>4, <2>5
<1>3. CASE Dispatch(s)
  <2>1. PICK r \in Requests :
          /\ req' = [req EXCEPT ![s] = r]
          /\ r = Idle \/ /\ r.by = req[s].by /\ r.command = req[s].command
                         /\ r.pc \in {"request", "read"}
          /\ r = Idle => req[s].by = "confirm"
    BY <1>3, DispatchKeepsInv
  <2>2. /\ \A c \in Commands : /\ command'[c].events = command[c].events
                               /\ command'[c].types = command[c].types
                               /\ command'[c].on = command[c].on
                               /\ command'[c].status = "NONE" <=> command[c].status = "NONE"
        /\ req[s].pc = "dispatch" /\ UNCHANGED <<rows, auxiliary>>
    BY <1>3, DispatchKeepsInv DEF Dispatch, At
  <2>3. Grows
    BY <2>2 DEF Grows, EngineInv, CommandsTypeOK, CommandRows
  <2>4. Unshared(r, command', lost)
    <3>1. CASE r = Idle
      BY <3>1, IdleIsNotPublishing
    <3>2. CASE r # Idle
      BY <2>1, <2>2, <3>2 DEF PublicationInv, Unshared, Publishing
    <3> QED
      BY <3>1, <3>2
  <2> QED
    BY <2>1, <2>2, <2>3, <2>4, IdleIsNotPublishing, PublicationStep
    DEF rows, auxiliary, Publishing
<1>4. CASE Record(s)
  <2>1. PICK r \in Requests :
          /\ req' = [req EXCEPT ![s] = r]
          /\ r.pc = "mark" /\ r.by = req[s].by /\ r.command = req[s].command
          /\ r.at = req[s].at
    BY <1>4, Recording
  <2>2. PICK k \in CommandRows :
          /\ command' = [command EXCEPT ![req[s].command] = k]
          /\ k.on = command[req[s].command].on /\ k.status = command[req[s].command].status
          /\ k.events = req[s].at
          /\ k.types = command[req[s].command].types \cup {Event(s)}
    BY <1>4, Recording
  <2>3. /\ req[s].pc = "record" /\ req[s].command \in Commands
        /\ req[s].at = command[req[s].command].events + 1
        /\ lost' = lost \cup (IF req[s].by = "monitor" THEN {req[s].command} ELSE {})
        /\ UNCHANGED rows
    BY <1>4, Recording DEF Record
  <2>4. command'[req[s].command] = k /\ \A d \in Commands \ {req[s].command} : command'[d] = command[d]
    BY <2>2, <2>3 DEF EngineInv, CommandsTypeOK
  <2>5. Grows
    BY <2>2, <2>3, <2>4 DEF Grows, EngineInv, CommandsTypeOK, CommandRows
  <2>6. ASSUME NEW t \in Slots \ {s}, Publishing(req[t]), req[t].command = req[s].command
        PROVE  req[s].command \in lost'
    <3>1. ~Publishing(req[s])
      BY <2>6 DEF PublicationInv
    <3>2. command[req[s].command].on = "sequence"
      BY <2>6 DEF Publishing, EngineInv, Fits
    <3>3. req[s].by \in {"publish", "configure", "provision", "monitor"}
      BY <2>3 DEF EngineInv, Fits
    <3>4. req[s].by \notin OnMailbox
      BY <2>3, <3>2 DEF EngineInv, Fits
    <3> QED
      BY <2>3, <3>1, <3>3, <3>4 DEF Publishing, OnMailbox
  <2>7. Unshared(r, command', lost')
    BY <2>1, <2>2, <2>4 DEF Unshared
  <2>8. \A t \in Slots : Publishing(req[t]) => req[t].command \in Commands
    BY DEF Publishing
  <2> QED
    BY <2>1, <2>3, <2>4, <2>5, <2>6, <2>7, <2>8, PublicationStep DEF rows, Publishing
<1>5. CASE Mark(s)
  <2>1. PICK r \in Requests :
          /\ req' = [req EXCEPT ![s] = r]
          /\ \/ r = Idle /\ req[s].by = "monitor"
             \/ /\ r.pc \in {"record", "apply"} /\ r.by = req[s].by
                /\ r.command = req[s].command
                /\ r.pc = "record" => r.at = req[s].at + 1
    BY <1>5, Marking
  <2>2. /\ \A d \in Commands : /\ command'[d].events = command[d].events
                               /\ command'[d].types = command[d].types
                               /\ command'[d].on = command[d].on
                               /\ command'[d].status = "NONE" <=> command[d].status = "NONE"
        /\ req[s].pc = "mark" /\ UNCHANGED <<rows, auxiliary>>
    BY <1>5, Marking DEF Mark
  <2>3. Grows
    BY <2>2 DEF Grows, EngineInv, CommandsTypeOK, CommandRows
  <2>4. Unshared(r, command', lost)
    <3>1. CASE r = Idle
      BY <3>1, IdleIsNotPublishing
    <3>2. CASE r # Idle
      BY <2>1, <2>2, <3>2 DEF PublicationInv, Unshared, Publishing
    <3> QED
      BY <3>1, <3>2
  <2> QED
    BY <2>1, <2>2, <2>3, <2>4, IdleIsNotPublishing, PublicationStep
    DEF rows, auxiliary, Publishing
<1>6. CASE ApplyToMailbox(s)
  <2>1. PICK r \in Requests :
          req' = [req EXCEPT ![s] = r] /\ (r = Idle \/ r.by = req[s].by)
    BY <1>6, Applying
  <2>2. command' = command /\ last' = last /\ lost' = lost /\ publishStatus' = publishStatus
    BY <1>6 DEF ApplyToMailbox, auxiliary
  <2>3. ~Publishing(req[s]) /\ ~Publishing(r)
    BY <1>6, <2>1, IdleIsNotPublishing DEF ApplyToMailbox, OnMailbox, Publishing
  <2> QED
    BY <2>1, <2>2, <2>3, QuietGrows, PublicationStep DEF Unshared
<1> QED
  BY <1>1, <1>2, <1>3, <1>4, <1>5, <1>6

\* The claim finds no publication in anybody's hands, and takes its own.
LEMMA PublicationOnPublish ==
    ASSUME EngineInv, PublicationInv, NEW s \in Slots, Publish(s)
    PROVE  PublicationInv'
<1>1. PICK r \in Requests, c \in Commands, a \in Aggregates :
        Creating(s, r, c, a) /\ r.by = "publish" /\ last' = [last EXCEPT !["sequence"] = c]
  BY Creations DEF CreatesCommand
<1>2. command'[c].events = 0
  BY <1>1, Created DEF Creating
<1>3. publishStatus' = "REQUESTED" /\ publishStatus \notin BLOCKED_PUBLISH_STATUSES
  BY DEF Publish, Claimable
<1>4. /\ req'[s] = r /\ r.pc = "dispatch" /\ r.command = c
      /\ \A t \in Slots \ {s} : req'[t] = req[t]
      /\ last'["sequence"] = c
  BY <1>1 DEF Creating, EngineInv, CommandsTypeOK, Aggregates
<1>5. \A t \in Slots : ~Publishing(req[t])
  BY <1>3 DEF PublicationInv
<1>6. \A t \in Slots : Publishing(req'[t]) <=> t = s
  BY <1>1, <1>4, <1>5 DEF Publishing
<1>7. \A t \in Slots : Unshared(req'[t], command', lost')
  BY <1>2, <1>4, <1>6 DEF Unshared
<1>8. PublishedIsReported'
  BY <1>3 DEF PublishedIsReported
<1> QED
  BY <1>3, <1>4, <1>6, <1>7, <1>8 DEF PublicationInv, BLOCKED_PUBLISH_STATUSES

\* The last event of a publication, which its handler applies, ends it.
LEMMA PublicationOnApply ==
    ASSUME EngineInv, PublicationInv, NEW s \in Slots, ApplyToSequence(s)
    PROVE  PublicationInv'
<1>1. PICK r \in Requests :
        /\ req' = [req EXCEPT ![s] = r]
        /\ \/ r = Idle /\ req[s].at = req[s].upto
           \/ /\ r.pc = "apply" /\ r.by = req[s].by /\ req[s].at < req[s].upto
              /\ r.command = req[s].command
  BY Applying
<1>2. /\ command' = command /\ last' = last /\ lost' = lost
      /\ req[s].pc = "apply" /\ req[s].by = "publish"
      /\ publishStatus' = PublishStatusAfter(Event(s))
  BY DEF ApplyToSequence, At, auxiliary
<1>3. /\ req[s].command \in Commands /\ command[req[s].command].on = "sequence"
      /\ req[s].plan \in Plans("sequence") /\ req[s].upto = Len(req[s].plan)
      /\ Event(s) \in command[req[s].command].types
      /\ req[s].first <= req[s].at /\ req[s].at <= req[s].upto /\ req[s] \in Requests
  BY <1>2, AtAnEvent DEF EngineInv, Fits
<1>4. last["sequence"] = req[s].command /\ publishStatus # "NONE"
  BY <1>2, <1>3 DEF PublicationInv, Publishing, BLOCKED_PUBLISH_STATUSES
<1>5. /\ Len(req[s].plan) = 2 /\ req[s].plan[1] = "ACCEPTED"
      /\ req[s].plan[2] \in {"COMPLETED", "FAILED"}
  BY <1>3, SequencePlans
<1>6. req[s].at \in {1, 2} /\ req[s].upto = 2
  BY <1>3, <1>5 DEF Requests
<1>7. /\ req'[s] = r
      /\ \A t \in Slots \ {s} : req'[t] = req[t] /\ ~Publishing(req[t])
  BY <1>1, <1>2, <1>3 DEF EngineInv, CommandsTypeOK, PublicationInv, Publishing
<1>8. CASE req[s].at = 1
  <2>1. publishStatus' = "ACCEPTED"
    BY <1>2, <1>5, <1>8 DEF Event, PublishStatusAfter
  <2>2. Publishing(r) /\ r.command = req[s].command /\ r.pc = "apply"
    BY <1>1, <1>2, <1>3, <1>6, <1>8 DEF Publishing
  <2>3. \A t \in Slots : Publishing(req'[t]) <=> t = s
    BY <1>7, <2>2
  <2>4. \A t \in Slots : Unshared(req'[t], command', lost')
    BY <1>7, <2>2, <2>3 DEF Unshared
  <2>5. PublishedIsReported'
    BY <2>1 DEF PublishedIsReported
  <2> QED
    BY <1>2, <1>3, <1>4, <1>7, <2>1, <2>2, <2>3, <2>4, <2>5
    DEF PublicationInv, BLOCKED_PUBLISH_STATUSES
<1>9. CASE req[s].at = 2
  <2>1. /\ Event(s) \in {"COMPLETED", "FAILED"}
        /\ publishStatus' = IF Event(s) = "COMPLETED" THEN "ACTIVE" ELSE "FAILED"
    BY <1>2, <1>5, <1>9 DEF Event, PublishStatusAfter
  <2>2. r = Idle
    BY <1>1, <1>6, <1>9
  <2>3. \A t \in Slots : ~Publishing(req'[t])
    BY <1>7, <2>2, IdleIsNotPublishing
  <2>4. \A t \in Slots : Unshared(req'[t], command', lost')
    BY <2>3 DEF Unshared
  <2>5. PublishedIsReported'
    BY <1>2, <1>3, <1>4, <2>1 DEF PublishedIsReported, Recorded
  <2> QED
    BY <1>2, <1>3, <1>4, <2>1, <2>3, <2>4, <2>5 DEF PublicationInv, BLOCKED_PUBLISH_STATUSES
<1> QED
  BY <1>6, <1>8, <1>9

LEMMA PublicationOnReplanning ==
    ASSUME EngineInv, PublicationInv, Restart \/ SetScenario
    PROVE  PublicationInv'
<1>1. Replanned
  BY RestartKeepsInv, ScenarioKeepsInv
<1>2. Grows /\ last' = last /\ publishStatus' = publishStatus
  BY <1>1, ReplannedFits DEF Restart, SetScenario, rows
<1>3. PublishedIsReported'
  BY <1>2, StaysRecorded DEF PublicationInv, PublishedIsReported, Aggregates
<1>4. CASE Restart
  <2>1. /\ \A s \in Slots : req'[s] = Idle
        /\ lost' = lost \cup UNION {Held(s) : s \in Slots}
    BY <1>4 DEF Restart
  <2>2. \A s \in Slots : Publishing(req[s]) => req[s].command \in lost'
    <3> SUFFICES ASSUME NEW s \in Slots, Publishing(req[s])
                 PROVE  req[s].command \in lost'
      OBVIOUS
    <3>1. req[s].command \in Held(s)
      BY DEF Held, Publishing, EngineInv
    <3> QED
      BY <2>1, <3>1
  <2>3. ASSUME publishStatus \in BLOCKED_PUBLISH_STATUSES
        PROVE  last["sequence"] \in lost'
    BY <2>1, <2>2, <2>3 DEF PublicationInv
  <2> QED
    BY <1>2, <1>3, <2>1, <2>3, IdleIsNotPublishing DEF PublicationInv
<1>5. CASE SetScenario
  <2>1. req' = req /\ lost' = lost
    BY <1>5 DEF SetScenario, auxiliary
  <2>2. \A s \in Slots : Unshared(req'[s], command', lost')
    BY <1>1, <2>1 DEF PublicationInv, Unshared, Replanned, Publishing
  <2> QED
    BY <1>2, <1>3, <2>1, <2>2 DEF PublicationInv
<1> QED
  BY <1>4, <1>5

LEMMA PublicationInvInductive ==
    ASSUME EngineInv, PublicationInv, [Next]_vars
    PROVE  PublicationInv'
<1>1. CASE UNCHANGED vars
  BY <1>1 DEF vars, rows, auxiliary, PublicationInv, PublishedIsReported, Recorded, Unshared,
              Publishing
<1>2. ASSUME NEW s \in Slots,
             HandlerFails(s) \/ Refused(s) \/ RecordTaken(s) \/ Map(s) \/ Beginning(s)
      PROVE  PublicationInv'
  BY <1>2, PublicationOnFinishing, PublicationOnBeginning
<1>3. ASSUME NEW s \in Slots,
             Publish(s) \/ Configure(s) \/ BeginRequest(s) \/ Confirm(s)
      PROVE  PublicationInv'
  BY <1>3, PublicationOnPublish, PublicationOnOtherCreations DEF CreatesCommand
<1>4. ASSUME NEW s \in Slots,
             \/ Request(s) \/ AdvanceRead(s) \/ Dispatch(s) \/ Record(s) \/ Mark(s)
             \/ ApplyToSequence(s) \/ ApplyToMailbox(s)
      PROVE  PublicationInv'
  BY <1>4, PublicationOnCommandSteps, PublicationOnApply
<1> QED
  BY <1>1, <1>2, <1>3, <1>4, PublicationOnReplanning DEF Next, Beginning

LEMMA PublicationInvariant ==
    ASSUME None \notin Commands
    PROVE  Spec => [](EngineInv /\ PublicationInv)
<1>1. ASSUME Init
      PROVE  PublicationInv
  BY <1>1, IdleIsNotPublishing
  DEF Init, PublicationInv, PublishedIsReported, BLOCKED_PUBLISH_STATUSES
<1>2. EngineInv /\ PublicationInv /\ [Next]_vars => PublicationInv'
  BY PublicationInvInductive
<1> QED
  BY <1>1, <1>2, EngineInvariant, PTL DEF Spec

\* A sequence shows ACTIVE or FAILED only if the engine reported that.
THEOREM PublishedWasReported ==
    ASSUME None \notin Commands
    PROVE  Spec => []PublishedIsReported
<1>1. PublicationInv => PublishedIsReported
  BY DEF PublicationInv
<1> QED
  BY <1>1, PublicationInvariant, PTL

\* A publication that blocks the next one is in a handler's hands, unless cut short.
THEOREM PublicationConcludes ==
    ASSUME None \notin Commands
    PROVE  Spec => []PublicationIsConcluded
<1>1. PublicationInv => PublicationIsConcluded
  BY DEF PublicationInv, Publishing, PublicationIsConcluded, InHand
<1> QED
  BY <1>1, PublicationInvariant, PTL

-----------------------------------------------------------------------------
(* What most steps have in common, for the rest of the properties.          *)

\* The handler goes on with the same command, or is done; the counts stay.
Ordinary(s, r) ==
    /\ req' = [req EXCEPT ![s] = r]
    /\ r = Idle \/ /\ r.by = req[s].by /\ r.command = req[s].command
                   /\ r.version = req[s].version
    /\ Grows /\ last' = last /\ overlap' = overlap
    /\ Confirmations' = Confirmations

\* Steps of a handler about its command.
Advancing(s) ==
    \/ HandlerFails(s) \/ Refused(s) \/ RecordTaken(s) \/ AdvanceRead(s) \/ Dispatch(s)
    \/ Record(s) \/ Mark(s)

LEMMA SameConfirmations ==
    ASSUME \A c \in Commands :
             /\ command'[c].on = command[c].on
             /\ command'[c].status = "NONE" <=> command[c].status = "NONE"
    PROVE  Confirmations' = Confirmations
BY DEF Confirmations

LEMMA OrdinarySteps ==
    ASSUME EngineInv, NEW s \in Slots,
           Advancing(s) \/ Map(s) \/ ApplyToSequence(s) \/ ApplyToMailbox(s)
    PROVE  \E r \in Requests : Ordinary(s, r)
<1>1. CASE HandlerFails(s) \/ Refused(s) \/ RecordTaken(s) \/ Map(s)
  <2>1. req' = [req EXCEPT ![s] = Idle] /\ command' = command /\ last' = last
    BY <1>1, FinishingKeepsInv
  <2>2. overlap' = overlap
    BY <1>1 DEF HandlerFails, Refused, RecordTaken, Map, auxiliary
  <2> QED
    BY <2>1, <2>2, QuietGrows, SameConfirmations, IdleFits DEF Ordinary
<1>2. CASE AdvanceRead(s)
  <2>1. PICK r \in Requests :
          /\ req' = [req EXCEPT ![s] = r]
          /\ r = Idle \/ /\ r.by = req[s].by /\ r.command = req[s].command
                         /\ r.version = req[s].version
    BY <1>2, ReadOutcomes
  <2>2. command' = command /\ last' = last /\ overlap' = overlap
    BY <1>2, ReadOutcomes DEF rows, auxiliary
  <2> QED
    BY <2>1, <2>2, QuietGrows, SameConfirmations DEF Ordinary
<1>3. CASE Dispatch(s)
  <2>1. PICK r \in Requests :
          /\ req' = [req EXCEPT ![s] = r]
          /\ r = Idle \/ /\ r.by = req[s].by /\ r.command = req[s].command
                         /\ r.version = req[s].version
    BY <1>3, DispatchKeepsInv
  <2>2. /\ \A c \in Commands : /\ command'[c].events = command[c].events
                               /\ command'[c].types = command[c].types
                               /\ command'[c].on = command[c].on
                               /\ command'[c].status = "NONE" <=> command[c].status = "NONE"
        /\ UNCHANGED <<rows, auxiliary>>
    BY <1>3, DispatchKeepsInv DEF Dispatch
  <2>3. Grows
    BY <2>2 DEF Grows, EngineInv, CommandsTypeOK, CommandRows
  <2> QED
    BY <2>1, <2>2, <2>3, SameConfirmations DEF Ordinary, rows, auxiliary
<1>4. CASE Mark(s)
  <2>1. PICK r \in Requests :
          /\ req' = [req EXCEPT ![s] = r]
          /\ r = Idle \/ /\ r.by = req[s].by /\ r.command = req[s].command
                         /\ r.version = req[s].version
    BY <1>4, Marking
  <2>2. /\ \A d \in Commands : /\ command'[d].events = command[d].events
                               /\ command'[d].types = command[d].types
                               /\ command'[d].on = command[d].on
                               /\ command'[d].status = "NONE" <=> command[d].status = "NONE"
        /\ UNCHANGED <<rows, auxiliary>>
    BY <1>4, Marking DEF Mark
  <2>3. Grows
    BY <2>2 DEF Grows, EngineInv, CommandsTypeOK, CommandRows
  <2> QED
    BY <2>1, <2>2, <2>3, SameConfirmations DEF Ordinary, rows, auxiliary
<1>5. CASE Record(s)
  <2>1. PICK r \in Requests :
          /\ req' = [req EXCEPT ![s] = r]
          /\ r.by = req[s].by /\ r.command = req[s].command /\ r.version = req[s].version
    BY <1>5, Recording
  <2>2. PICK k \in CommandRows :
          /\ command' = [command EXCEPT ![req[s].command] = k]
          /\ k.on = command[req[s].command].on /\ k.status = command[req[s].command].status
          /\ k.events = req[s].at
          /\ k.types = command[req[s].command].types \cup {Event(s)}
    BY <1>5, Recording
  <2>3. /\ req[s].command \in Commands
        /\ req[s].at = command[req[s].command].events + 1
        /\ last' = last /\ overlap' = overlap
    BY <1>5, Recording DEF Record, rows
  <2>4. /\ command'[req[s].command] = k
        /\ \A d \in Commands \ {req[s].command} : command'[d] = command[d]
    BY <2>2, <2>3 DEF EngineInv, CommandsTypeOK
  <2>5. Grows
    BY <2>2, <2>3, <2>4 DEF Grows, EngineInv, CommandsTypeOK, CommandRows
  <2>6. Confirmations' = Confirmations
    BY <2>2, <2>4, SameConfirmations
  <2> QED
    BY <2>1, <2>3, <2>5, <2>6 DEF Ordinary
<1>6. CASE ApplyToSequence(s) \/ ApplyToMailbox(s)
  <2>1. PICK r \in Requests :
          /\ req' = [req EXCEPT ![s] = r]
          /\ r = Idle \/ /\ r.by = req[s].by /\ r.command = req[s].command
                         /\ r.version = req[s].version
    BY <1>6, Applying
  <2>2. command' = command /\ last' = last /\ overlap' = overlap
    BY <1>6, Applying DEF auxiliary
  <2> QED
    BY <2>1, <2>2, QuietGrows, SameConfirmations DEF Ordinary
<1> QED
  BY <1>1, <1>2, <1>3, <1>4, <1>5, <1>6 DEF Advancing

\* What Advancing leaves alone.
LEMMA AdvancingFrame ==
    ASSUME NEW s \in Slots, Advancing(s)
    PROVE  UNCHANGED <<rows, mappings>>
BY DEF Advancing, HandlerFails, Refused, RecordTaken, AdvanceRead, Dispatch, Record, Mark,
       auxiliary

LEMMA BeginningFrame ==
    ASSUME EngineInv, NEW s \in Slots, Beginning(s)
    PROVE  /\ UNCHANGED <<rows, command, mappings>>
           /\ req[s].by = "nobody"
           /\ \E r \in Requests :
                Begin(s, r) /\ Begun(r) /\ req' = [req EXCEPT ![s] = r]
<1>1. PICK r \in Requests : Begin(s, r) /\ Begun(r)
  BY Beginnings
<1>2. UNCHANGED <<rows, command, mappings>>
  BY DEF Beginning, BeginPublish, BeginProvision, BeginMapping, BeginConfirm, BeginMonitor
<1> QED
  BY <1>1, <1>2 DEF Begin, Continue, At, EngineInv, Fits

LEMMA ReplanningFrame ==
    ASSUME EngineInv, Restart \/ SetScenario
    PROVE  /\ Grows /\ last' = last /\ overlap' = overlap /\ mappings' = mappings
           /\ UNCHANGED <<publishStatus, sequenceVersion, provisioningStatus, importStatus>>
           /\ Confirmations' = Confirmations
           /\ \A s \in Slots : req'[s] = req[s] \/ req'[s] = Idle
<1>1. Replanned
  BY RestartKeepsInv, ScenarioKeepsInv
<1>2. Confirmations' = Confirmations
  BY <1>1, SameConfirmations DEF Replanned
<1>3. CASE Restart
  BY <1>1, <1>2, <1>3, ReplannedFits DEF Restart
<1>4. CASE SetScenario
  BY <1>1, <1>2, <1>4, ReplannedFits DEF SetScenario, rows, auxiliary
<1> QED
  BY <1>3, <1>4

\* Every step is one of these.
LEMMA StepCases ==
    ASSUME [Next]_vars
    PROVE  \/ UNCHANGED vars
           \/ Restart \/ SetScenario
           \/ \E s \in Slots :
                \/ Advancing(s) \/ Beginning(s) \/ CreatesCommand(s) \/ Map(s) \/ Request(s)
                \/ ApplyToSequence(s) \/ ApplyToMailbox(s)
BY DEF Next, Advancing, Beginning, CreatesCommand

-----------------------------------------------------------------------------
(* The version of the sequence.                                             *)

LEMMA CompletedGrows ==
    ASSUME IsFiniteSet(Commands), EngineInv, Grows
    PROVE  /\ Completed \subseteq Completed'
           /\ IsFiniteSet(Completed) /\ IsFiniteSet(Completed')
           /\ None \notin Completed
<1>1. Completed \subseteq Commands /\ Completed' \subseteq Commands
  BY DEF Completed
<1>2. Completed \subseteq Completed'
  BY DEF Completed, Grows, EngineInv, CommandFits
<1> QED
  BY <1>1, <1>2, FS_Subset DEF EngineInv

VersionInv ==
    /\ VersionIsEarned
    /\ \A s \in Slots :
         req[s].by = "publish" => req[s].version <= Cardinality(Completed \ {req[s].command}) + 1

\* Publications completed meanwhile only make room for more.
LEMMA MoreRoom ==
    ASSUME IsFiniteSet(Commands), EngineInv, Grows, NEW c, NEW d,
           Completed \ {c} \subseteq Completed' \ {d}
    PROVE  /\ Cardinality(Completed \ {c}) \in Nat /\ Cardinality(Completed' \ {d}) \in Nat
           /\ Cardinality(Completed) \in Nat /\ Cardinality(Completed') \in Nat
           /\ Cardinality(Completed \ {c}) <= Cardinality(Completed' \ {d})
           /\ Cardinality(Completed) <= Cardinality(Completed')
<1>1. /\ Completed \subseteq Completed'
      /\ IsFiniteSet(Completed) /\ IsFiniteSet(Completed')
  BY CompletedGrows
<1>2. IsFiniteSet(Completed \ {c}) /\ IsFiniteSet(Completed' \ {d})
  BY <1>1, FS_Subset
<1> QED
  BY <1>1, <1>2, FS_Subset, FS_CardinalityType

\* A step that gives no number, and takes at most the right to one.
LEMMA VersionStep ==
    ASSUME IsFiniteSet(Commands), EngineInv, VersionInv, NEW s \in Slots, NEW r \in Requests,
           req' = [req EXCEPT ![s] = r], Grows, sequenceVersion' = sequenceVersion,
           r.by = "publish" =>
             /\ Completed \ {req[s].command} \subseteq Completed' \ {r.command}
             /\ \/ req[s].by = "publish" /\ r.version = req[s].version
                \/ r.version = sequenceVersion + 1 /\ req[s].command = None
    PROVE  VersionInv'
<1>1. /\ req'[s] = r
      /\ \A t \in Slots \ {s} : req'[t] = req[t]
      /\ sequenceVersion \in Nat /\ r.version \in Nat
      /\ \A t \in Slots : req[t].version \in Nat
  BY DEF EngineInv, CommandsTypeOK, Requests
<1>2. /\ Completed \subseteq Completed' /\ None \notin Completed
      /\ Cardinality(Completed) \in Nat /\ Cardinality(Completed') \in Nat
      /\ Cardinality(Completed) <= Cardinality(Completed')
  BY CompletedGrows, MoreRoom
<1>3. VersionIsEarned'
  BY <1>1, <1>2 DEF VersionInv, VersionIsEarned
<1>4. ASSUME NEW t \in Slots \ {s}, req[t].by = "publish"
      PROVE  req[t].version <= Cardinality(Completed' \ {req[t].command}) + 1
  <2>1. Completed \ {req[t].command} \subseteq Completed' \ {req[t].command}
    BY <1>2
  <2>2. /\ Cardinality(Completed \ {req[t].command}) \in Nat
        /\ Cardinality(Completed' \ {req[t].command}) \in Nat
        /\ Cardinality(Completed \ {req[t].command})
             <= Cardinality(Completed' \ {req[t].command})
    BY <2>1, MoreRoom
  <2>3. req[t].version <= Cardinality(Completed \ {req[t].command}) + 1
    BY <1>4 DEF VersionInv
  <2> QED
    BY <1>1, <2>2, <2>3
<1>5. ASSUME r.by = "publish"
      PROVE  r.version <= Cardinality(Completed' \ {r.command}) + 1
  <2>1. /\ Cardinality(Completed \ {req[s].command}) \in Nat
        /\ Cardinality(Completed' \ {r.command}) \in Nat
        /\ Cardinality(Completed \ {req[s].command}) <= Cardinality(Completed' \ {r.command})
    BY <1>5, MoreRoom
  <2>2. CASE req[s].by = "publish" /\ r.version = req[s].version
    <3>1. r.version <= Cardinality(Completed \ {req[s].command}) + 1
      BY <2>2 DEF VersionInv
    <3> QED
      BY <1>1, <2>1, <3>1
  <2>3. CASE r.version = sequenceVersion + 1 /\ req[s].command = None
    <3>1. Completed \ {req[s].command} = Completed
      BY <1>2, <2>3
    <3>2. sequenceVersion <= Cardinality(Completed \ {req[s].command})
      BY <3>1 DEF VersionInv, VersionIsEarned
    <3> QED
      BY <1>1, <2>1, <2>3, <3>2
  <2> QED
    BY <1>5, <2>2, <2>3
<1> QED
  BY <1>1, <1>3, <1>4, <1>5 DEF VersionInv

\* The rest of the steps that give no number.
LEMMA VersionOnOrdinarySteps ==
    ASSUME IsFiniteSet(Commands), EngineInv, VersionInv, NEW s \in Slots,
           Advancing(s) \/ Map(s) \/ ApplyToMailbox(s)
    PROVE  VersionInv'
<1>1. PICK r \in Requests : Ordinary(s, r)
  BY OrdinarySteps
<1>2. sequenceVersion' = sequenceVersion
  BY AdvancingFrame DEF Map, ApplyToMailbox, rows
<1>3. r.by = "publish" =>
        req[s].by = "publish" /\ r.version = req[s].version /\ r.command = req[s].command
  BY <1>1, IdleFits DEF Ordinary
<1>4. Completed \subseteq Completed'
  BY <1>1, CompletedGrows DEF Ordinary
<1> QED
  BY <1>1, <1>2, <1>3, <1>4, VersionStep DEF Ordinary

LEMMA VersionOnBeginning ==
    ASSUME IsFiniteSet(Commands), EngineInv, VersionInv, NEW s \in Slots, Beginning(s)
    PROVE  VersionInv'
<1>1. PICK r \in Requests : Begun(r) /\ req' = [req EXCEPT ![s] = r]
  BY BeginningFrame
<1>2. command' = command /\ sequenceVersion' = sequenceVersion /\ Grows
  BY BeginningFrame, QuietGrows DEF rows
<1>3. req[s].command = None
  BY DEF Beginning, BeginPublish, BeginProvision, BeginMapping, BeginConfirm, BeginMonitor,
         Begin, At, EngineInv, Fits
<1>4. r.by = "publish" => r.version = sequenceVersion + 1 /\ r.command = None
  BY <1>1 DEF Begun
<1>5. Completed \subseteq Completed'
  BY <1>2, CompletedGrows
<1> QED
  BY <1>1, <1>2, <1>3, <1>4, <1>5, VersionStep

LEMMA VersionOnCreation ==
    ASSUME IsFiniteSet(Commands), EngineInv, VersionInv, NEW s \in Slots,
           CreatesCommand(s) \/ Request(s)
    PROVE  VersionInv'
<1>1. CASE CreatesCommand(s)
  <2>1. PICK r \in Requests, c \in Commands, a \in Aggregates :
          /\ Creating(s, r, c, a)
          /\ Publish(s) => r.version = req[s].version
          /\ ~Publish(s) => r.by # "publish"
    BY <1>1, Creations
  <2>2. /\ Grows /\ command'[c].types = {} /\ r.command = c
        /\ req' = [req EXCEPT ![s] = r]
    BY <2>1, Created DEF Creating
  <2>3. sequenceVersion' = sequenceVersion
    BY <1>1 DEF CreatesCommand, Publish, Configure, BeginRequest, Confirm, rows
  <2>4. Completed \subseteq Completed' /\ c \notin Completed'
    BY <2>2, CompletedGrows DEF Completed
  <2>5. r.by = "publish" => req[s].by = "publish" /\ r.version = req[s].version
    BY <2>1 DEF Publish
  <2> QED
    BY <2>2, <2>3, <2>4, <2>5, VersionStep
<1>2. CASE Request(s)
  <2>1. /\ req' = [req EXCEPT ![s] = Idle] /\ command' = command
        /\ sequenceVersion' = sequenceVersion
    BY <1>2 DEF Request, Finish, Continue
  <2> QED
    BY <2>1, QuietGrows, IdleFits, VersionStep
<1> QED
  BY <1>1, <1>2

\* A publication takes its number once its command is completed.
LEMMA VersionOnApply ==
    ASSUME IsFiniteSet(Commands), EngineInv, VersionInv, NEW s \in Slots, ApplyToSequence(s)
    PROVE  VersionInv'
<1>1. PICK r \in Requests : Ordinary(s, r)
  BY OrdinarySteps
<1>2. /\ req[s].pc = "apply" /\ req[s].by = "publish" /\ command' = command
      /\ sequenceVersion' = VersionAfter(s)
  BY Applying DEF ApplyToSequence, At
<1>3. Completed' = Completed
  BY <1>2 DEF Completed
<1>4. /\ IsFiniteSet(Completed) /\ Cardinality(Completed) \in Nat /\ sequenceVersion \in Nat
      /\ req[s].version \in Nat
  BY <1>1, CompletedGrows, FS_CardinalityType DEF Ordinary, EngineInv, CommandsTypeOK, Requests
<1>5. VersionIsEarned'
  <2>1. CASE Event(s) = "COMPLETED"
    <3>1. req[s].command \in Completed
      BY <1>2, <2>1, AtAnEvent DEF Completed, EngineInv, Fits
    <3>2. Cardinality(Completed \ {req[s].command}) = Cardinality(Completed) - 1
      BY <1>4, <3>1, FS_RemoveElement
    <3>3. req[s].version <= Cardinality(Completed \ {req[s].command}) + 1
      BY <1>2 DEF VersionInv
    <3> QED
      BY <1>2, <1>3, <1>4, <2>1, <3>2, <3>3 DEF VersionAfter, VersionIsEarned
  <2>2. CASE Event(s) # "COMPLETED"
    BY <1>2, <1>3, <2>2 DEF VersionAfter, VersionInv, VersionIsEarned
  <2> QED
    BY <2>1, <2>2
<1>6. /\ req'[s] = r /\ \A t \in Slots \ {s} : req'[t] = req[t]
      /\ r.by = "publish" => r.version = req[s].version /\ r.command = req[s].command
  BY <1>1, IdleFits DEF Ordinary, EngineInv, CommandsTypeOK
<1> QED
  BY <1>2, <1>3, <1>5, <1>6 DEF VersionInv

LEMMA VersionInvInductive ==
    ASSUME IsFiniteSet(Commands), EngineInv, VersionInv, [Next]_vars
    PROVE  VersionInv'
<1>1. CASE UNCHANGED vars
  BY <1>1 DEF vars, rows, VersionInv, VersionIsEarned, Completed
<1>2. CASE Restart \/ SetScenario
  <2>1. /\ Grows /\ sequenceVersion' = sequenceVersion
        /\ \A s \in Slots : req'[s] = req[s] \/ req'[s] = Idle
    BY <1>2, ReplanningFrame
  <2>2. Completed' = Completed
    BY <1>2, RestartKeepsInv, ScenarioKeepsInv DEF Replanned, Completed
  <2> QED
    BY <2>1, <2>2, IdleFits DEF VersionInv, VersionIsEarned
<1>3. ASSUME NEW s \in Slots,
             \/ Advancing(s) \/ Beginning(s) \/ CreatesCommand(s) \/ Map(s) \/ Request(s)
             \/ ApplyToSequence(s) \/ ApplyToMailbox(s)
      PROVE  VersionInv'
  BY <1>3, VersionOnOrdinarySteps, VersionOnBeginning, VersionOnCreation, VersionOnApply
<1> QED
  BY <1>1, <1>2, <1>3, StepCases

\* The version never exceeds the number of completed publications, though each takes its
\* number from a version read before its claim.
THEOREM VersionEarned ==
    ASSUME None \notin Commands, IsFiniteSet(Commands)
    PROVE  Spec => []VersionIsEarned
<1>1. ASSUME Init
      PROVE  VersionInv
  <2>1. Completed = {}
    BY <1>1 DEF Init, Completed, NoCommand
  <2> QED
    BY <1>1, <2>1, IdleFits, FS_EmptySet DEF Init, VersionInv, VersionIsEarned
<1>2. EngineInv /\ VersionInv /\ [Next]_vars => VersionInv'
  BY VersionInvInductive
<1>3. VersionInv => VersionIsEarned
  BY DEF VersionInv
<1> QED
  BY <1>1, <1>2, <1>3, EngineInvariant, PTL DEF Spec

-----------------------------------------------------------------------------
(* The confirmation of the import.                                          *)

\* READY is a confirmation not yet made.
Unconfirmed == IF importStatus = "READY" THEN 1 ELSE 0

ConfirmationInv == Cardinality(Confirmations) + Unconfirmed <= mappings

LEMMA ConfirmationsCounted ==
    ASSUME IsFiniteSet(Commands)
    PROVE  IsFiniteSet(Confirmations) /\ Cardinality(Confirmations) \in Nat
<1>1. Confirmations \subseteq Commands
  BY DEF Confirmations
<1> QED
  BY <1>1, FS_Subset, FS_CardinalityType

LEMMA ConfirmationOnCreation ==
    ASSUME IsFiniteSet(Commands), EngineInv, ConfirmationInv, NEW s \in Slots,
           CreatesCommand(s)
    PROVE  ConfirmationInv'
<1>1. PICK r \in Requests, c \in Commands, a \in Aggregates :
        /\ Creating(s, r, c, a)
        /\ Confirm(s) => a = "import"
        /\ Publish(s) => a = "sequence"
        /\ Configure(s) => r.by = "configure"
        /\ BeginRequest(s) => r.by = "request"
  BY Creations
<1>2. /\ command[c].status = "NONE"
      /\ command'[c].status = "REQUESTED" /\ command'[c].on = a
      /\ \A d \in Commands \ {c} : command'[d] = command[d]
  BY <1>1, Created DEF Creating
<1>3. mappings' = mappings /\ mappings \in Nat
  BY DEF CreatesCommand, Publish, Configure, BeginRequest, Confirm, auxiliary, EngineInv,
         CommandsTypeOK
<1>4. CASE Confirm(s)
  <2>1. Confirmations' = Confirmations \cup {c} /\ c \notin Confirmations
    BY <1>1, <1>2, <1>4 DEF Confirmations
  <2>2. Cardinality(Confirmations') = Cardinality(Confirmations) + 1
    BY <2>1, ConfirmationsCounted, FS_AddElement
  <2>3. importStatus = "READY" /\ importStatus' = "COMPLETED"
    BY <1>4 DEF Confirm, Confirmable
  <2> QED
    BY <1>3, <2>2, <2>3, ConfirmationsCounted DEF ConfirmationInv, Unconfirmed
<1>5. CASE ~Confirm(s)
  <2>1. a # "import" /\ importStatus' = importStatus
    <3>1. CASE Publish(s)
      BY <1>1, <3>1 DEF Publish
    <3>2. CASE Configure(s) \/ BeginRequest(s)
      BY <1>1, <3>2 DEF Creating, OnMailbox, Configure, BeginRequest, rows
    <3> QED
      BY <1>5, <3>1, <3>2 DEF CreatesCommand
  <2>2. Confirmations' = Confirmations
    BY <1>2, <2>1 DEF Confirmations
  <2> QED
    BY <1>3, <2>1, <2>2 DEF ConfirmationInv, Unconfirmed
<1> QED
  BY <1>4, <1>5

LEMMA ConfirmationInvInductive ==
    ASSUME IsFiniteSet(Commands), EngineInv, ConfirmationInv, [Next]_vars
    PROVE  ConfirmationInv'
<1>1. CASE UNCHANGED vars
  BY <1>1 DEF vars, rows, auxiliary, ConfirmationInv, Unconfirmed, Confirmations
<1>2. CASE Restart \/ SetScenario
  BY <1>2, ReplanningFrame DEF ConfirmationInv, Unconfirmed
<1>3. ASSUME NEW s \in Slots,
             Advancing(s) \/ Map(s) \/ ApplyToSequence(s) \/ ApplyToMailbox(s)
      PROVE  ConfirmationInv'
  <2>1. Confirmations' = Confirmations
    BY <1>3, OrdinarySteps DEF Ordinary
  <2>2. CASE Map(s)
    <3>1. mappings' = mappings + 1 /\ mappings \in Nat
      BY <2>2 DEF Map, EngineInv, CommandsTypeOK
    <3> QED
      BY <2>1, <3>1, ConfirmationsCounted DEF ConfirmationInv, Unconfirmed
  <2>3. CASE ~Map(s)
    BY <1>3, <2>1, <2>3, AdvancingFrame
    DEF ApplyToSequence, ApplyToMailbox, rows, auxiliary, ConfirmationInv, Unconfirmed
  <2> QED
    BY <2>2, <2>3
<1>4. ASSUME NEW s \in Slots, Beginning(s) \/ Request(s)
      PROVE  ConfirmationInv'
  <2>1. command' = command /\ importStatus' = importStatus /\ mappings' = mappings
    BY <1>4, BeginningFrame DEF Request, rows, auxiliary
  <2>2. Confirmations' = Confirmations
    BY <2>1 DEF Confirmations
  <2> QED
    BY <2>1, <2>2 DEF ConfirmationInv, Unconfirmed
<1> QED
  BY <1>1, <1>2, <1>3, <1>4, ConfirmationOnCreation, StepCases

\* An import is confirmed no more often than it was mapped.
THEOREM ConfirmedOnce ==
    ASSUME None \notin Commands, IsFiniteSet(Commands)
    PROVE  Spec => []ConfirmedOncePerMapping
<1>1. ASSUME Init
      PROVE  ConfirmationInv
  <2>1. Confirmations = {}
    BY <1>1 DEF Init, Confirmations, NoCommand
  <2> QED
    BY <1>1, <2>1, FS_EmptySet DEF Init, ConfirmationInv, Unconfirmed
<1>2. EngineInv /\ ConfirmationInv /\ [Next]_vars => ConfirmationInv'
  BY ConfirmationInvInductive
<1>3. ConfirmationInv /\ EngineInv => ConfirmedOncePerMapping
  BY ConfirmationsCounted
  DEF ConfirmationInv, Unconfirmed, ConfirmedOncePerMapping, EngineInv, CommandsTypeOK
<1> QED
  BY <1>1, <1>2, <1>3, EngineInvariant, PTL DEF Spec

-----------------------------------------------------------------------------
(* The provisioning of the mailbox.                                         *)

\* While no two handlers have met: one is about the mailbox at most, and those that
\* apply events hold the command the mailbox names.
ProvisioningInv ==
    /\ ProvisioningOfLast
    /\ ~overlap =>
         /\ \A s, t \in Slots : req[s].by \in OnMailbox /\ req[t].by \in OnMailbox => s = t
         /\ \A s \in Slots :
              req[s].by \in {"configure", "provision"} => req[s].command = last["mailbox"]

\* A step that neither changes the mailbox nor brings another handler to it.
LEMMA ProvisioningStep ==
    ASSUME EngineInv, ProvisioningInv, Grows, last'["mailbox"] = last["mailbox"],
           provisioningStatus' = provisioningStatus, overlap => overlap', overlap' \in BOOLEAN,
           \A s \in Slots :
             \/ req'[s].by \notin OnMailbox
             \/ req'[s].by = req[s].by /\ req'[s].command = req[s].command
    PROVE  ProvisioningInv'
<1> SUFFICES ASSUME ~overlap'
             PROVE  ProvisioningInv'
  BY DEF ProvisioningInv, ProvisioningOfLast
<1>1. ~overlap
  OBVIOUS
<1>2. ProvisioningOfLast'
  BY <1>1, StaysRecorded DEF ProvisioningInv, ProvisioningOfLast, Aggregates
<1>3. \A s, t \in Slots : req'[s].by \in OnMailbox /\ req'[t].by \in OnMailbox => s = t
  BY <1>1 DEF ProvisioningInv
<1>4. \A s \in Slots :
        req'[s].by \in {"configure", "provision"} => req'[s].command = last'["mailbox"]
  BY <1>1 DEF ProvisioningInv, OnMailbox
<1> QED
  BY <1>2, <1>3, <1>4 DEF ProvisioningInv

\* A handler that begins about the mailbox, and meets no other.
LEMMA Alone ==
    ASSUME EngineInv, NEW s \in Slots, NEW r, Begin(s, r), r.by \in OnMailbox, ~overlap'
    PROVE  \A t \in Slots \ {s} : req[t].by \notin OnMailbox /\ req'[t] = req[t]
<1> DEFINE meets == \E t \in Slots \ {s} : req[t].by \in OnMailbox
<1>1. overlap' = (overlap \/ (r.by \in OnMailbox /\ meets))
  BY DEF Begin
<1>2. ~meets
  <2> HIDE DEF meets
  <2> QED
    BY <1>1, Zenon
<1> QED
  BY <1>2 DEF Begin, Continue, EngineInv, CommandsTypeOK

LEMMA ProvisioningOnOrdinarySteps ==
    ASSUME EngineInv, ProvisioningInv, NEW s \in Slots,
           Advancing(s) \/ Map(s) \/ ApplyToSequence(s)
    PROVE  ProvisioningInv'
<1>1. PICK r \in Requests : Ordinary(s, r)
  BY OrdinarySteps
<1>2. provisioningStatus' = provisioningStatus
  BY AdvancingFrame DEF Map, ApplyToSequence, rows
<1>3. \A t \in Slots :
        \/ req'[t].by \notin OnMailbox
        \/ req'[t].by = req[t].by /\ req'[t].command = req[t].command
  BY <1>1, IdleFits DEF Ordinary, OnMailbox, EngineInv, CommandsTypeOK
<1>4. overlap \in BOOLEAN
  BY DEF EngineInv, CommandsTypeOK
<1> QED
  BY <1>1, <1>2, <1>3, <1>4, ProvisioningStep DEF Ordinary

LEMMA ProvisioningOnBeginning ==
    ASSUME EngineInv, ProvisioningInv, NEW s \in Slots, Beginning(s)
    PROVE  ProvisioningInv'
<1>1. PICK r \in Requests : Begin(s, r) /\ Begun(r) /\ req' = [req EXCEPT ![s] = r]
  BY BeginningFrame
<1>2. Grows /\ last' = last /\ provisioningStatus' = provisioningStatus
      /\ overlap' \in BOOLEAN /\ (overlap => overlap')
  BY <1>1, BeginningFrame, QuietGrows, Starts DEF rows
<1>3. req'[s] = r /\ \A t \in Slots \ {s} : req'[t] = req[t]
  BY <1>1 DEF EngineInv, CommandsTypeOK
<1>4. CASE r.by \notin OnMailbox
  BY <1>2, <1>3, <1>4, ProvisioningStep
<1>5. CASE r.by \in OnMailbox
  <2>1. r.by = "provision" /\ r.command = last["mailbox"]
    BY <1>1, <1>5 DEF Begun, OnMailbox
  <2> SUFFICES ASSUME ~overlap'
               PROVE  ProvisioningInv'
    BY DEF ProvisioningInv, ProvisioningOfLast
  <2>2. \A t \in Slots \ {s} : req'[t].by \notin OnMailbox
    BY <1>1, <1>5, Alone
  <2>3. ProvisioningOfLast'
    BY <1>2, StaysRecorded DEF ProvisioningInv, ProvisioningOfLast, Aggregates
  <2>4. \A t, u \in Slots : req'[t].by \in OnMailbox /\ req'[u].by \in OnMailbox => t = u
    BY <2>2
  <2>5. \A t \in Slots :
          req'[t].by \in {"configure", "provision"} => req'[t].command = last'["mailbox"]
    BY <1>2, <1>3, <2>1, <2>2 DEF OnMailbox
  <2> QED
    BY <2>3, <2>4, <2>5 DEF ProvisioningInv
<1> QED
  BY <1>4, <1>5

LEMMA ProvisioningOnCreation ==
    ASSUME EngineInv, ProvisioningInv, NEW s \in Slots, CreatesCommand(s)
    PROVE  ProvisioningInv'
<1>1. PICK r \in Requests, c \in Commands, a \in Aggregates :
        /\ Creating(s, r, c, a)
        /\ Publish(s) => r.by = "publish" /\ last' = [last EXCEPT !["sequence"] = c]
        /\ Configure(s) => /\ r.by = "configure" /\ Begin(s, r)
                           /\ last' = [last EXCEPT !["mailbox"] = c]
        /\ BeginRequest(s) => r.by = "request" /\ Begin(s, r) /\ last' = last
        /\ Confirm(s) => r.by = "confirm" /\ a = "import"
  BY Creations
<1>2. /\ Grows /\ req' = [req EXCEPT ![s] = r] /\ r.command = c
      /\ req'[s] = r /\ \A t \in Slots \ {s} : req'[t] = req[t]
  BY <1>1, Created DEF Creating, EngineInv, CommandsTypeOK
<1>3. CASE Publish(s) \/ Confirm(s)
  <2>1. last'["mailbox"] = last["mailbox"]
    BY <1>1, <1>3 DEF Creating, EngineInv, CommandsTypeOK, Aggregates
  <2>2. provisioningStatus' = provisioningStatus /\ overlap' = overlap
    BY <1>3 DEF Publish, Confirm, auxiliary
  <2>3. r.by \notin OnMailbox
    BY <1>1, <1>3 DEF OnMailbox
  <2>4. overlap \in BOOLEAN
    BY DEF EngineInv, CommandsTypeOK
  <2> QED
    BY <1>2, <2>1, <2>2, <2>3, <2>4, ProvisioningStep
<1>4. CASE Configure(s) \/ BeginRequest(s)
  <2> SUFFICES ASSUME ~overlap'
               PROVE  ProvisioningInv'
    BY DEF ProvisioningInv, ProvisioningOfLast
  <2>1. Begin(s, r) /\ r.by \in OnMailbox
    BY <1>1, <1>4 DEF OnMailbox
  <2>2. /\ \A t \in Slots \ {s} : req'[t].by \notin OnMailbox
        /\ ~overlap
    BY <2>1, Alone, Starts
  <2>3. \A t, u \in Slots : req'[t].by \in OnMailbox /\ req'[u].by \in OnMailbox => t = u
    BY <2>2
  <2>4. \A t \in Slots :
          req'[t].by \in {"configure", "provision"} => req'[t].command = last'["mailbox"]
    BY <1>1, <1>2, <1>4, <2>2 DEF OnMailbox, EngineInv, CommandsTypeOK, Aggregates
  <2>5. ProvisioningOfLast'
    <3>1. CASE Configure(s)
      BY <3>1 DEF Configure, StatusOnceRequested, ProvisioningOfLast
    <3>2. CASE BeginRequest(s)
      BY <1>1, <1>2, <2>2, <3>2, StaysRecorded
      DEF BeginRequest, rows, ProvisioningInv, ProvisioningOfLast, Aggregates
    <3> QED
      BY <1>4, <3>1, <3>2
  <2> QED
    BY <2>3, <2>4, <2>5 DEF ProvisioningInv
<1> QED
  BY <1>3, <1>4 DEF CreatesCommand

LEMMA ProvisioningOnRequest ==
    ASSUME EngineInv, ProvisioningInv, NEW s \in Slots, Request(s)
    PROVE  ProvisioningInv'
<1>1. /\ req' = [req EXCEPT ![s] = Idle] /\ provisioningStatus' = "PROVISION_REQUESTED"
      /\ overlap' = overlap
  BY DEF Request, Finish, Continue, StatusOnceRequested, auxiliary
<1>2. req[s].by = "request"
  BY DEF Request, At, EngineInv, Fits
<1>3. /\ req'[s].by = "nobody"
      /\ \A t \in Slots \ {s} : req'[t] = req[t]
  BY <1>1, IdleFits DEF EngineInv, CommandsTypeOK
<1>4. ~overlap => \A t \in Slots \ {s} : req[t].by \notin OnMailbox
  BY <1>2 DEF ProvisioningInv, OnMailbox
<1>5. ~overlap' => \A t \in Slots : req'[t].by \notin OnMailbox
  BY <1>1, <1>3, <1>4 DEF OnMailbox
<1>6. ProvisioningOfLast'
  BY <1>1 DEF ProvisioningOfLast
<1> QED
  BY <1>5, <1>6 DEF ProvisioningInv, OnMailbox

\* The event that is applied was recorded of the command the mailbox names.
LEMMA ProvisioningOnApply ==
    ASSUME EngineInv, ProvisioningInv, NEW s \in Slots, ApplyToMailbox(s)
    PROVE  ProvisioningInv'
<1>1. PICK r \in Requests : Ordinary(s, r)
  BY OrdinarySteps
<1>2. /\ req[s].pc = "apply" /\ command' = command /\ last' = last /\ overlap' = overlap
      /\ req[s].by \in {"configure", "provision"}
      /\ provisioningStatus' = ProvisioningStatusAfter(Event(s))
  BY Applying DEF ApplyToMailbox, At, auxiliary, EngineInv, Fits, OnMailbox
<1>3. /\ req'[s] = r /\ \A t \in Slots \ {s} : req'[t] = req[t]
      /\ r.by = "nobody" \/ (r.by = req[s].by /\ r.command = req[s].command)
  BY <1>1, IdleFits DEF Ordinary, EngineInv, CommandsTypeOK
<1> SUFFICES ASSUME ~overlap
             PROVE  ProvisioningInv'
  BY <1>2 DEF ProvisioningInv, ProvisioningOfLast
<1>4. req[s].command = last["mailbox"]
  BY <1>2 DEF ProvisioningInv
<1>5. Recorded("mailbox", Event(s))
  BY <1>2, <1>4, AtAnEvent DEF Recorded, EngineInv, Fits, OnMailbox
<1>6. ProvisioningOfLast'
  BY <1>2, <1>5 DEF ProvisioningStatusAfter, ProvisioningInv, ProvisioningOfLast, Recorded
<1>7. \A t, u \in Slots : req'[t].by \in OnMailbox /\ req'[u].by \in OnMailbox => t = u
  BY <1>3 DEF ProvisioningInv, OnMailbox
<1>8. \A t \in Slots :
        req'[t].by \in {"configure", "provision"} => req'[t].command = last'["mailbox"]
  BY <1>2, <1>3 DEF ProvisioningInv
<1> QED
  BY <1>6, <1>7, <1>8 DEF ProvisioningInv

LEMMA ProvisioningInvInductive ==
    ASSUME EngineInv, ProvisioningInv, [Next]_vars
    PROVE  ProvisioningInv'
<1>1. CASE UNCHANGED vars
  BY <1>1 DEF vars, rows, auxiliary, ProvisioningInv, ProvisioningOfLast, Recorded
<1>2. CASE Restart \/ SetScenario
  <2>1. /\ Grows /\ last' = last /\ overlap' = overlap
        /\ provisioningStatus' = provisioningStatus
        /\ \A s \in Slots : req'[s] = req[s] \/ req'[s] = Idle
    BY <1>2, ReplanningFrame
  <2>2. overlap \in BOOLEAN
    BY DEF EngineInv, CommandsTypeOK
  <2>3. \A s \in Slots :
          \/ req'[s].by \notin OnMailbox
          \/ req'[s].by = req[s].by /\ req'[s].command = req[s].command
    BY <2>1, IdleFits DEF OnMailbox
  <2> QED
    BY <2>1, <2>2, <2>3, ProvisioningStep
<1>3. ASSUME NEW s \in Slots,
             \/ Advancing(s) \/ Beginning(s) \/ CreatesCommand(s) \/ Map(s) \/ Request(s)
             \/ ApplyToSequence(s) \/ ApplyToMailbox(s)
      PROVE  ProvisioningInv'
  BY <1>3, ProvisioningOnOrdinarySteps, ProvisioningOnBeginning, ProvisioningOnCreation,
     ProvisioningOnRequest, ProvisioningOnApply
<1> QED
  BY <1>1, <1>2, <1>3, StepCases

\* What a mailbox shows is about the command it names, unless two handlers were about
\* the mailbox at once.
THEOREM ProvisioningIsOfLast ==
    ASSUME None \notin Commands
    PROVE  Spec => []ProvisioningOfLast
<1>1. ASSUME Init
      PROVE  ProvisioningInv
  BY <1>1, IdleFits DEF Init, ProvisioningInv, ProvisioningOfLast, OnMailbox
<1>2. EngineInv /\ ProvisioningInv /\ [Next]_vars => ProvisioningInv'
  BY ProvisioningInvInductive
<1>3. ProvisioningInv => ProvisioningOfLast
  BY DEF ProvisioningInv
<1> QED
  BY <1>1, <1>2, <1>3, EngineInvariant, PTL DEF Spec
=============================================================================
