---------------------------- MODULE AtaDriveProofs ----------------------------
(***************************************************************************)
(* For any four places where a drive may be, any requests and any bound on *)
(* the polls: detection settles on a disk, commands go only to drives that *)
(* take them, and, with disks that show a command at the first poll, reads *)
(* are those of a block device.                                            *)
(***************************************************************************)
EXTENDS AtaDrive, SequenceTheorems, TLAPS

(***************************************************************************)
(* The invariant.                                                          *)
(***************************************************************************)
Searching == call.op \in {"select", "settle", "identify", "identifying", "identified"}

Moving == call.op \in {"wait", "command", "poll", "transfer"}

Replies == [op : {"none", "init", "read"}, ok : BOOLEAN]

Blocks == [from : Drives, what : Commands]

(* Where the driver may be, and with which locals.                         *)
CallShape ==
  /\ Searching \/ Moving \/ call.op \in {"idle", "done"}
  /\ call.op \in {"select", "identify", "identified"} =>
       call \in [op : {"select", "identify", "identified"}, at : 1 .. 4]
  /\ call.op \in {"settle", "identifying"} =>
       call \in [op : {"settle", "identifying"}, at : 1 .. 4, wait : 0 .. MAX_WAIT]
  /\ Moving \/ call.op = "done" =>
       call \in [op : {"wait", "command", "poll", "transfer", "done"}, request : Requests,
                 got : Seq(Blocks), wait : 0 .. MAX_WAIT]
  /\ call.op = "idle" => call = Idle
  /\ reply \in Replies

(* What a drive of its kind can show.                                      *)
DriveShape(d) ==
  /\ ~Present(d) => /\ drive[d].status \notin {"busy", "data"}
                    /\ machine[d].kind = "floating" <=> drive[d].status = "floating"
                    /\ drive[d].command = NoCommand /\ drive[d].unseen = NoCommand
  /\ Present(d) => drive[d].status # "floating"
  /\ drive[d].status = "data" => machine[d].kind = "ata" /\ drive[d].command # NoCommand
  /\ ~machine[d].lags => drive[d].unseen = NoCommand

Shape ==
  /\ machine \in Machines
  /\ drive \in [Drives -> [status : Statuses, command : Commands, unseen : Commands]]
  /\ selected \in [{1, 2} -> {0, 1}]
  /\ found \in [io : {0, 1, 2}, is_master : BOOLEAN, total : Nat]
  /\ CallShape
  /\ \A d \in Drives : DriveShape(d)

(* Until a drive is found, each has been given an IDENTIFY or nothing; the *)
(* ones not reached yet, nothing.                                          *)
Detecting ==
  found.io = 0 =>
    /\ ~Moving /\ call.op # "done"
    /\ \A d \in Drives :
         /\ drive[d].command \in {NoCommand, IDENTIFY} /\ drive[d].unseen \in {NoCommand, IDENTIFY}
         /\ drive[d].command = NoCommand \/ drive[d].unseen = NoCommand
    /\ Searching =>
         \A k \in 1 .. 4 :
           k > call.at \/ (k = call.at /\ call.op \in {"select", "settle", "identify"}) =>
             drive[Candidates[k]].command = NoCommand /\ drive[Candidates[k]].unseen = NoCommand

(* The candidate is selected, and idle when it is asked to identify itself. *)
AtCandidate ==
  Searching =>
    /\ found.io = 0
    /\ call.op # "select" => selected[Candidate[1]] = Candidate[2]
    /\ call.op = "identify" => drive[Candidate].status # "busy"
    /\ call.op = "identified" =>
         /\ drive[Candidate].status = "data" /\ drive[Candidate].unseen = NoCommand
         /\ drive[Candidate].command = IDENTIFY

(* The drive found is selected, and takes the command it is about to get.  *)
AtTarget ==
  found.io # 0 =>
    /\ Target \in Drives /\ selected[Target[1]] = Target[2]
    /\ call.op = "command" =>
         drive[Target].status # "busy" /\ drive[Target].unseen = NoCommand

AtaInv == Shape /\ Detecting /\ AtCandidate /\ AtTarget /\ FoundIsADisk

(* No read has ended before there is a drive; a read in progress asks for  *)
(* something, and has not had all of it.                                   *)
Pending ==
  /\ Searching => reply.op = "none"
  /\ Moving \/ call.op = "done" =>
       /\ call.request.lba < LBA_LIMIT /\ call.request.count # 0
       /\ Moving => Len(call.got) < call.request.count
       /\ call.op = "done" => Len(call.got) = call.request.count

(* With disks that do not lag: the drive works on the sector that is due,  *)
(* and the sectors that came are those asked for.                          *)
ReadsInOrder ==
  Moving \/ call.op = "done" =>
    LET r == call.request IN
    /\ call.op \in {"poll", "transfer"} =>
         drive[Target].command = READ(r.lba + Len(call.got)) /\ drive[Target].unseen = NoCommand
    /\ call.op = "transfer" => drive[Target].status = "data"
    /\ \A i \in 1 .. Len(call.got) : Sector(call.got[i]) = r.lba + i - 1

(***************************************************************************)
(* The drives.                                                             *)
(***************************************************************************)
DriveType == [status : Statuses, command : Commands, unseen : Commands]

LEMMA Places ==
  /\ DOMAIN Candidates = 1 .. 4 /\ Len(Candidates) = 4
  /\ \A k \in 1 .. 4 : /\ Candidates[k] \in Drives
                       /\ Candidates[k][1] \in {1, 2} /\ Candidates[k][2] \in {0, 1}
                       /\ Candidates[k] = <<Candidates[k][1], Candidates[k][2]>>
  /\ \A j, k \in 1 .. 4 : Candidates[j] = Candidates[k] => j = k
BY DEF Candidates, Drives

LEMMA MachineType ==
  ASSUME Shape, NEW d \in Drives
  PROVE  machine[d].kind \in Kinds /\ machine[d].lags \in BOOLEAN /\ machine[d].size \in Nat
BY AtaAssumption DEF Shape

LEMMA CommandsDiffer ==
  /\ NoCommand \in Commands /\ IDENTIFY \in Commands /\ NoCommand # IDENTIFY
  /\ \A n \in 0 .. LBA_LIMIT - 1 :
       READ(n) \in Commands /\ READ(n) # NoCommand /\ READ(n) # IDENTIFY
BY DEF Commands, NoCommand, IDENTIFY, READ

(* A command goes to one drive, which takes it unless it is busy or no     *)
(* drive at all.                                                           *)
LEMMA IssueShape ==
  ASSUME Shape, NEW d \in Drives, NEW c \in Commands \ {NoCommand}, Issue(d, c),
         UNCHANGED machine
  PROVE  /\ drive' \in [Drives -> DriveType]
         /\ \A e \in Drives : DriveShape(e)' /\ (e # d => drive'[e] = drive[e])
         /\ ~Present(d) => drive'[d] = drive[d]
         /\ Present(d) /\ drive[d].status # "busy" =>
              IF machine[d].lags
              THEN drive'[d].unseen = c /\ drive'[d].command = drive[d].command
              ELSE /\ drive'[d].status = "busy" /\ drive'[d].command = c
                   /\ drive'[d].unseen = NoCommand
         /\ drive[d].status = "busy" => drive'[d] = drive[d]
PROOF
<1>1. drive \in [Drives -> DriveType] /\ \A e \in Drives : DriveShape(e)
  BY DEF Shape, DriveType
<1>2. machine[d].lags \in BOOLEAN
  BY MachineType
<1>3. drive[d] \in DriveType /\ "busy" \in Statuses
  BY <1>1 DEF Statuses
<1>4. CASE ~Present(d) \/ BSY(drive[d].status)
  <2>1. drive' = drive
    BY <1>4 DEF Issue
  <2>2. \A e \in Drives : DriveShape(e)'
    BY <1>1, <2>1 DEF DriveShape, Present
  <2>3. Present(d) => drive[d].status = "busy"
    BY <1>1, <1>4 DEF BSY, DriveShape
  <2> QED
    BY <1>1, <2>1, <2>2, <2>3
<1>5. CASE Present(d) /\ ~BSY(drive[d].status) /\ machine[d].lags
  <2>1. drive' = [drive EXCEPT ![d].unseen = c]
    BY <1>5 DEF Issue
  <2>2. drive' \in [Drives -> DriveType] /\ \A e \in Drives : e # d => drive'[e] = drive[e]
    BY <1>1, <2>1 DEF DriveType
  <2>3. /\ drive'[d].unseen = c /\ drive'[d].command = drive[d].command
        /\ drive'[d].status = drive[d].status
    BY <1>1, <2>1 DEF DriveType
  <2>4. \A e \in Drives : DriveShape(e)'
    BY <1>1, <1>5, <2>2, <2>3 DEF DriveShape, Present
  <2> QED
    BY <1>5, <2>2, <2>3, <2>4 DEF BSY
<1>6. CASE Present(d) /\ ~BSY(drive[d].status) /\ ~machine[d].lags
  <2>1. drive' = [drive EXCEPT ![d].status = "busy", ![d].command = c]
    BY <1>6 DEF Issue
  <2>2. drive' \in [Drives -> DriveType] /\ \A e \in Drives : e # d => drive'[e] = drive[e]
    BY <1>1, <1>3, <2>1 DEF DriveType
  <2>3. /\ drive'[d].status = "busy" /\ drive'[d].command = c
        /\ drive'[d].unseen = drive[d].unseen
    BY <1>1, <2>1 DEF DriveType
  <2>4. drive[d].unseen = NoCommand
    BY <1>1, <1>6 DEF DriveShape
  <2>5. \A e \in Drives : DriveShape(e)'
    BY <1>1, <1>6, <2>2, <2>3, <2>4 DEF DriveShape, Present
  <2> QED
    BY <1>6, <2>2, <2>3, <2>4, <2>5 DEF BSY
<1> QED
  BY <1>2, <1>4, <1>5, <1>6

(* What a drive does by itself: it notices a command and becomes busy, or, *)
(* busy, it answers.                                                       *)
LEMMA DriveStepShape ==
  ASSUME Shape, NEW d \in Drives, Notice(d) \/ Answer(d)
  PROVE  /\ UNCHANGED <<machine, selected, found, call, reply>>
         /\ drive' \in [Drives -> DriveType]
         /\ \A e \in Drives : DriveShape(e)' /\ (e # d => drive'[e] = drive[e])
         /\ \/ /\ drive[d].unseen # NoCommand
               /\ drive'[d].command = drive[d].unseen /\ drive'[d].unseen = NoCommand
            \/ /\ drive[d].status = "busy" /\ drive'[d].status # "busy"
               /\ drive'[d].command = drive[d].command /\ drive'[d].unseen = drive[d].unseen
PROOF
<1>1. drive \in [Drives -> DriveType] /\ \A e \in Drives : DriveShape(e)
  BY DEF Shape, DriveType
<1>2. UNCHANGED <<machine, selected, found, call, reply>>
  BY DEF Notice, Answer
<1>3. {"busy", "ready", "error", "data"} \subseteq Statuses
  BY DEF Statuses
<1>4. CASE Notice(d)
  <2>1. /\ drive[d].unseen # NoCommand
        /\ drive' = [drive EXCEPT ![d] = [status |-> "busy", command |-> drive[d].unseen,
                                          unseen |-> NoCommand]]
    BY <1>4 DEF Notice
  <2>2. drive' \in [Drives -> DriveType] /\ \A e \in Drives : e # d => drive'[e] = drive[e]
    BY <1>1, <1>3, <2>1, CommandsDiffer DEF DriveType
  <2>3. /\ drive'[d].status = "busy" /\ drive'[d].command = drive[d].unseen
        /\ drive'[d].unseen = NoCommand
    BY <1>1, <2>1
  <2>4. Present(d)
    BY <1>1, <2>1 DEF DriveShape
  <2>5. \A e \in Drives : DriveShape(e)'
    BY <1>1, <1>2, <2>2, <2>3, <2>4 DEF DriveShape, Present
  <2> QED
    BY <1>2, <2>1, <2>2, <2>3, <2>5
<1>5. CASE Answer(d)
  <2>1. drive[d].status = "busy"
    BY <1>5 DEF Answer
  <2>2. PICK s \in Answers(d) : drive' = [drive EXCEPT ![d].status = s]
    BY <1>5 DEF Answer
  <2>3. Present(d)
    BY <1>1, <2>1 DEF DriveShape
  <2>4. /\ s \in {"ready", "error", "data"}
        /\ s = "data" => machine[d].kind = "ata" /\ drive[d].command # NoCommand
    <3>1. CASE drive[d].command = NoCommand
      BY <2>2, <3>1 DEF Answers
    <3>2. CASE drive[d].command # NoCommand /\ machine[d].kind = "packet"
      BY <2>2, <3>2 DEF Answers
    <3>3. CASE drive[d].command # NoCommand /\ machine[d].kind # "packet"
      BY <2>2, <2>3, <3>3 DEF Answers, Present
    <3> QED
      BY <3>1, <3>2, <3>3
  <2>5. drive' \in [Drives -> DriveType] /\ \A e \in Drives : e # d => drive'[e] = drive[e]
    BY <1>1, <1>3, <2>2, <2>4 DEF DriveType
  <2>6. /\ drive'[d].status = s /\ drive'[d].command = drive[d].command
        /\ drive'[d].unseen = drive[d].unseen
    BY <1>1, <2>2 DEF DriveType
  <2>7. \A e \in Drives : DriveShape(e)'
    BY <1>1, <1>2, <2>3, <2>4, <2>5, <2>6 DEF DriveShape, Present
  <2> QED
    BY <1>2, <2>1, <2>4, <2>5, <2>6, <2>7
<1> QED
  BY <1>4, <1>5

(* The end of a transfer leaves the drive ready.                           *)
LEMMA DrainedShape ==
  ASSUME Shape, NEW d \in Drives, drive' = Drained(d), UNCHANGED machine
  PROVE  /\ drive' \in [Drives -> DriveType]
         /\ \A e \in Drives : DriveShape(e)' /\ (e # d => drive'[e] = drive[e])
         /\ drive'[d].command = drive[d].command /\ drive'[d].unseen = drive[d].unseen
         /\ drive[d].status = "data" => drive'[d].status = "ready"
PROOF
<1>1. drive \in [Drives -> DriveType] /\ \A e \in Drives : DriveShape(e)
  BY DEF Shape, DriveType
<1>2. CASE drive[d].status = "data"
  <2>1. drive' = [drive EXCEPT ![d].status = "ready"]
    BY <1>2 DEF Drained
  <2>2. drive' \in [Drives -> DriveType] /\ \A e \in Drives : e # d => drive'[e] = drive[e]
    BY <1>1, <2>1 DEF DriveType, Statuses
  <2>3. /\ drive'[d].status = "ready" /\ drive'[d].command = drive[d].command
        /\ drive'[d].unseen = drive[d].unseen
    BY <1>1, <2>1 DEF DriveType
  <2>4. \A e \in Drives : DriveShape(e)'
    BY <1>1, <1>2, <2>2, <2>3 DEF DriveShape, Present
  <2> QED
    BY <2>2, <2>3, <2>4
<1>3. CASE drive[d].status # "data"
  <2>1. drive' = drive
    BY <1>3 DEF Drained
  <2>2. \A e \in Drives : DriveShape(e)'
    BY <1>1, <2>1 DEF DriveShape, Present
  <2> QED
    BY <1>1, <1>3, <2>1, <2>2
<1> QED
  BY <1>2, <1>3

(***************************************************************************)
(* The steps.                                                              *)
(***************************************************************************)
(* The parts of the invariant that say nothing of the call survive a step  *)
(* of the driver that leaves the drives alone.                             *)
LEMMA SameDrives ==
  ASSUME AtaInv, UNCHANGED <<machine, drive, selected, found>>
  PROVE  /\ machine' \in Machines /\ drive' \in [Drives -> DriveType]
         /\ selected' \in [{1, 2} -> {0, 1}]
         /\ found' \in [io : {0, 1, 2}, is_master : BOOLEAN, total : Nat]
         /\ \A d \in Drives : DriveShape(d)'
         /\ FoundIsADisk' /\ Target' = Target
BY DEF AtaInv, Shape, DriveShape, DriveType, Present, FoundIsADisk, Target

LEMMA AtaInvInit == Init => AtaInv
PROOF
<1> SUFFICES ASSUME Init PROVE AtaInv
  OBVIOUS
<1>1. machine \in Machines /\ found = Unfound /\ found.io = 0
  BY DEF Init, Unfound
<1>2. call = [op |-> "select", at |-> 1]
  BY Places DEF Init, Try
<1>3. drive \in [Drives -> DriveType]
      /\ \A d \in Drives : drive[d].command = NoCommand /\ drive[d].unseen = NoCommand
  BY CommandsDiffer DEF Init, DriveType, Statuses
<1>4. ASSUME NEW d \in Drives PROVE DriveShape(d)
  <2>1. machine[d].kind \in Kinds /\ drive[d].status \in LeftByBios(machine, d)
    BY <1>1, AtaAssumption DEF Init
  <2> QED
    BY <1>3, <2>1 DEF DriveShape, Present, LeftByBios, Kinds
<1>5. reply \in Replies
  BY DEF Init, Replies
<1>6. CallShape
  BY <1>2, <1>5 DEF CallShape, Searching, Moving
<1>7. selected \in [{1, 2} -> {0, 1}] /\ found \in [io : {0, 1, 2}, is_master : BOOLEAN, total : Nat]
  BY <1>1 DEF Init, Unfound
<1>8. Shape
  BY <1>1, <1>3, <1>4, <1>6, <1>7 DEF Shape, DriveType
<1>9. Detecting
  BY <1>2, <1>3, Places DEF Detecting, Moving
<1>10. AtCandidate /\ AtTarget /\ FoundIsADisk
  BY <1>1, <1>2 DEF AtCandidate, AtTarget, FoundIsADisk
<1> QED
  BY <1>8, <1>9, <1>10 DEF AtaInv

LEMMA DriveStepKeeps ==
  ASSUME AtaInv, NEW d \in Drives, Notice(d) \/ Answer(d)
  PROVE  AtaInv'
PROOF
<1>1. Shape /\ UNCHANGED <<machine, selected, found, call, reply>>
  BY DriveStepShape DEF AtaInv
<1>2. /\ drive' \in [Drives -> DriveType]
      /\ \A e \in Drives : DriveShape(e)' /\ (e # d => drive'[e] = drive[e])
  BY <1>1, DriveStepShape
<1>3. \/ /\ drive[d].unseen # NoCommand
         /\ drive'[d].command = drive[d].unseen /\ drive'[d].unseen = NoCommand
      \/ /\ drive[d].status = "busy" /\ drive'[d].status # "busy"
         /\ drive'[d].command = drive[d].command /\ drive'[d].unseen = drive[d].unseen
  BY <1>1, DriveStepShape
<1>4. Shape'
  BY <1>1, <1>2 DEF Shape, DriveType, CallShape, Searching, Moving
<1>5. Detecting'
  <2>1. ASSUME found.io = 0
        PROVE  /\ \A e \in Drives :
                    /\ drive'[e].command \in {NoCommand, IDENTIFY}
                    /\ drive'[e].unseen \in {NoCommand, IDENTIFY}
                    /\ drive'[e].command = NoCommand \/ drive'[e].unseen = NoCommand
    BY <1>2, <1>3, <2>1 DEF AtaInv, Detecting
  <2>2. ASSUME NEW k \in 1 .. 4, drive[Candidates[k]].command = NoCommand,
               drive[Candidates[k]].unseen = NoCommand
        PROVE  drive'[Candidates[k]].command = NoCommand /\ drive'[Candidates[k]].unseen = NoCommand
    BY <1>2, <1>3, <2>2, Places
  <2> QED
    BY <1>1, <2>1, <2>2 DEF AtaInv, Detecting, Searching, Moving
<1>6. ASSUME Searching PROVE Candidate \in Drives
  <2>1. call.at \in 1 .. 4
    BY <1>1, <1>6 DEF Shape, CallShape, Searching
  <2> QED
    BY <2>1, Places DEF Candidate
<1>7. AtCandidate'
  <2>1. Candidate' = Candidate /\ (Searching' <=> Searching)
    BY <1>1 DEF Candidate, Searching
  <2>2. ASSUME call.op = "identify" PROVE drive'[Candidate].status # "busy"
    <3>1. /\ Searching /\ found.io = 0 /\ drive[Candidate].status # "busy"
          /\ call.at \in 1 .. 4
      BY <1>1, <2>2 DEF AtaInv, AtCandidate, Searching, Shape, CallShape
    <3>2. drive[Candidate].unseen = NoCommand
      BY <2>2, <3>1 DEF AtaInv, Detecting, Candidate
    <3> QED
      BY <1>2, <1>3, <1>6, <3>1, <3>2
  <2>3. ASSUME call.op = "identified"
        PROVE  drive'[Candidate] = drive[Candidate]
    <3>1. Searching /\ drive[Candidate].status = "data" /\ drive[Candidate].unseen = NoCommand
      BY <2>3 DEF AtaInv, AtCandidate, Searching
    <3> QED
      BY <1>2, <1>3, <1>6, <3>1
  <2> QED
    BY <1>1, <2>1, <2>2, <2>3 DEF AtaInv, AtCandidate
<1>8. AtTarget' /\ FoundIsADisk'
  <2>1. Target' = Target
    BY <1>1 DEF Target
  <2>2. ASSUME found.io # 0, call.op = "command"
        PROVE  drive'[Target].status # "busy" /\ drive'[Target].unseen = NoCommand
    BY <1>2, <1>3, <2>2 DEF AtaInv, AtTarget
  <2> QED
    BY <1>1, <2>1, <2>2 DEF AtaInv, AtTarget, FoundIsADisk
<1> QED
  BY <1>4, <1>5, <1>7, <1>8 DEF AtaInv

LEMMA SelectKeeps == AtaInv /\ Select => AtaInv'
PROOF
<1> SUFFICES ASSUME AtaInv, Select PROVE AtaInv'
  OBVIOUS
<1>1. /\ call.op = "select" /\ Searching /\ call.at \in 1 .. 4 /\ found.io = 0
      /\ UNCHANGED <<machine, drive, found, reply>>
  BY DEF AtaInv, Shape, CallShape, Select, AtCandidate, Searching
<1>2. /\ call' = [op |-> "settle", at |-> call.at, wait |-> 0]
      /\ selected' = [selected EXCEPT ![Candidate[1]] = Candidate[2]]
  BY DEF Select
<1>3. Candidate[1] \in {1, 2} /\ Candidate[2] \in {0, 1} /\ Candidate' = Candidate
  BY <1>1, <1>2, Places DEF Candidate
<1>4. selected' \in [{1, 2} -> {0, 1}] /\ selected'[Candidate[1]] = Candidate[2]
  BY <1>2, <1>3 DEF AtaInv, Shape
<1>5. \A d \in Drives : DriveShape(d)'
  BY <1>1 DEF AtaInv, Shape, DriveShape, Present
<1>6. CallShape'
  BY <1>1, <1>2, AtaAssumption DEF AtaInv, Shape, CallShape, Searching, Moving
<1>7. Shape'
  BY <1>1, <1>4, <1>5, <1>6 DEF AtaInv, Shape
<1>8. Detecting'
  BY <1>1, <1>2 DEF AtaInv, Detecting, Searching, Moving
<1>9. AtCandidate' /\ AtTarget' /\ FoundIsADisk'
  BY <1>1, <1>2, <1>3, <1>4 DEF AtCandidate, AtTarget, FoundIsADisk
<1> QED
  BY <1>7, <1>8, <1>9 DEF AtaInv

(* The driver goes on to the next place, or gives up.                      *)
LEMMA NextDriveKeeps ==
  ASSUME AtaInv, Searching, NextDrive, UNCHANGED <<machine, drive, selected, found>>
  PROVE  AtaInv'
PROOF
<1>1. call.at \in 1 .. 4 /\ found.io = 0 /\ reply \in Replies
  BY DEF AtaInv, Shape, CallShape, AtCandidate, Searching
<1>2. /\ call' = [op |-> "select", at |-> call.at + 1] /\ call.at + 1 \in 1 .. 4
      \/ call' = Idle
  BY <1>1, Places DEF NextDrive, Try, Idle
<1>3. reply' \in Replies
  BY <1>1 DEF NextDrive, Replies
<1>4. CallShape'
  BY <1>2, <1>3 DEF CallShape, Searching, Moving, Idle
<1>5. Shape'
  BY <1>4, SameDrives DEF Shape, DriveType
<1>6. Detecting'
  BY <1>1, <1>2 DEF AtaInv, Detecting, Searching, Moving, Idle
<1>7. AtCandidate' /\ AtTarget' /\ FoundIsADisk'
  BY <1>1, <1>2 DEF AtCandidate, AtTarget, FoundIsADisk, Searching, Idle
<1> QED
  BY <1>5, <1>6, <1>7 DEF AtaInv

LEMMA CurrentIs ==
  /\ AtaInv /\ Searching /\ call.op # "select" =>
       Candidate \in Drives /\ call.at \in 1 .. 4 /\ Current(Candidate) = drive[Candidate].status
  /\ AtaInv /\ found.io # 0 =>
       Target \in Drives /\ Current(Target) = drive[Target].status
PROOF
<1>1. ASSUME AtaInv, Searching, call.op # "select"
      PROVE  /\ Candidate \in Drives /\ call.at \in 1 .. 4
             /\ Current(Candidate) = drive[Candidate].status
  <2>1. call.at \in 1 .. 4 /\ selected[Candidate[1]] = Candidate[2]
    BY <1>1 DEF AtaInv, Shape, CallShape, Searching, AtCandidate
  <2>2. Candidate = <<Candidate[1], Candidate[2]>> /\ Candidate \in Drives
    BY <2>1, Places DEF Candidate
  <2> QED
    BY <2>1, <2>2 DEF Current
<1>2. ASSUME AtaInv, found.io # 0
      PROVE  Target \in Drives /\ Current(Target) = drive[Target].status
  <2>1. Target \in Drives /\ selected[Target[1]] = Target[2]
    BY <1>2 DEF AtaInv, AtTarget
  <2>2. Target = <<Target[1], Target[2]>>
    BY DEF Target
  <2> QED
    BY <2>1, <2>2 DEF Current
<1> QED
  BY <1>1, <1>2

LEMMA SettleKeeps == AtaInv /\ Settle => AtaInv'
PROOF
<1> SUFFICES ASSUME AtaInv, Settle PROVE AtaInv'
  OBVIOUS
<1>1. /\ call.op = "settle" /\ Searching /\ found.io = 0 /\ reply \in Replies
      /\ call \in [op : {"settle", "identifying"}, at : 1 .. 4, wait : 0 .. MAX_WAIT]
      /\ UNCHANGED <<machine, drive, selected, found>>
  BY DEF AtaInv, Shape, CallShape, Settle, AtCandidate, Searching
<1>2. CASE NextDrive
  BY <1>1, <1>2, NextDriveKeeps
<1>3. CASE /\ call.wait + 1 <= MAX_WAIT
           /\ call' = IF BSY(Current(Candidate)) THEN [call EXCEPT !.wait = @ + 1]
                      ELSE [op |-> "identify", at |-> call.at]
           /\ UNCHANGED reply
  <2>1. \/ call' \in [op : {"settle"}, at : {call.at}, wait : 0 .. MAX_WAIT]
        \/ /\ ~BSY(Current(Candidate))
           /\ call' = [op |-> "identify", at |-> call.at]
    BY <1>1, <1>3, AtaAssumption
  <2>2. CallShape'
    BY <1>1, <1>3, <2>1 DEF CallShape, Searching, Moving, Replies
  <2>3. Shape'
    BY <1>1, <2>2, SameDrives DEF Shape, DriveType
  <2>4. Detecting'
    BY <1>1, <2>1 DEF AtaInv, Detecting, Searching, Moving
  <2>5. AtCandidate'
    <3>1. Candidate' = Candidate
      BY <2>1 DEF Candidate
    <3>2. call'.op = "identify" => drive[Candidate].status # "busy"
      BY <1>1, <2>1, CurrentIs DEF BSY
    <3> QED
      BY <1>1, <2>1, <3>1, <3>2 DEF AtaInv, AtCandidate
  <2>6. AtTarget' /\ FoundIsADisk'
    BY <1>1 DEF AtTarget, FoundIsADisk
  <2> QED
    BY <2>3, <2>4, <2>5, <2>6 DEF AtaInv
<1> QED
  BY <1>2, <1>3 DEF Settle

LEMMA IdentifyKeeps == AtaInv /\ Identify => AtaInv'
PROOF
<1> SUFFICES ASSUME AtaInv, Identify PROVE AtaInv'
  OBVIOUS
<1>1. /\ call.op = "identify" /\ Searching /\ found.io = 0 /\ reply \in Replies
      /\ call.at \in 1 .. 4 /\ Issue(Candidate, IDENTIFY)
      /\ call' = [op |-> "identifying", at |-> call.at, wait |-> 0]
      /\ UNCHANGED <<machine, selected, found, reply>>
  BY DEF AtaInv, Shape, CallShape, Identify, AtCandidate, Searching
<1>2. Candidate \in Drives /\ Candidate' = Candidate /\ IDENTIFY \in Commands \ {NoCommand}
  BY <1>1, CurrentIs, CommandsDiffer DEF Candidate
<1>3. /\ drive[Candidate].status # "busy"
      /\ drive[Candidate].command = NoCommand /\ drive[Candidate].unseen = NoCommand
  BY <1>1 DEF AtaInv, AtCandidate, Detecting, Candidate
<1>4. /\ drive' \in [Drives -> DriveType]
      /\ \A e \in Drives : DriveShape(e)' /\ (e # Candidate => drive'[e] = drive[e])
      /\ drive'[Candidate].command \in {NoCommand, IDENTIFY}
      /\ drive'[Candidate].unseen \in {NoCommand, IDENTIFY}
      /\ drive'[Candidate].command = NoCommand \/ drive'[Candidate].unseen = NoCommand
  <2>1. Shape
    BY DEF AtaInv
  <2> QED
    BY <1>1, <1>2, <1>3, <2>1, IssueShape, MachineType
<1>5. CallShape'
  BY <1>1, AtaAssumption DEF CallShape, Searching, Moving, Replies
<1>6. Shape'
  BY <1>1, <1>4, <1>5 DEF AtaInv, Shape, DriveType
<1>7. Detecting'
  <2>1. ASSUME NEW k \in 1 .. 4, k > call.at
        PROVE  /\ drive'[Candidates[k]].command = NoCommand
               /\ drive'[Candidates[k]].unseen = NoCommand
    <3>1. Candidates[k] # Candidate /\ Candidates[k] \in Drives
      BY <1>1, <2>1, Places DEF Candidate
    <3> QED
      BY <1>1, <1>4, <2>1, <3>1 DEF AtaInv, Detecting
  <2>2. \A e \in Drives : /\ drive'[e].command \in {NoCommand, IDENTIFY}
                          /\ drive'[e].unseen \in {NoCommand, IDENTIFY}
                          /\ drive'[e].command = NoCommand \/ drive'[e].unseen = NoCommand
    BY <1>1, <1>4 DEF AtaInv, Detecting
  <2> QED
    BY <1>1, <2>1, <2>2 DEF Detecting, Moving
<1>8. AtCandidate' /\ AtTarget' /\ FoundIsADisk'
  BY <1>1, <1>2 DEF AtaInv, AtCandidate, AtTarget, FoundIsADisk
<1> QED
  BY <1>6, <1>7, <1>8 DEF AtaInv

LEMMA IdentifyingKeeps == AtaInv /\ Identifying => AtaInv'
PROOF
<1> SUFFICES ASSUME AtaInv, Identifying PROVE AtaInv'
  OBVIOUS
<1> DEFINE st == Current(Candidate)
<1>1. /\ call.op = "identifying" /\ Searching /\ found.io = 0 /\ reply \in Replies
      /\ call \in [op : {"settle", "identifying"}, at : 1 .. 4, wait : 0 .. MAX_WAIT]
      /\ UNCHANGED <<machine, drive, selected, found>>
  BY DEF AtaInv, Shape, CallShape, Identifying, AtCandidate, Searching
<1>2. CASE NextDrive
  BY <1>1, <1>2, NextDriveKeeps
<1>3. CASE \/ /\ ~ERR(st) /\ DRQ(st)
              /\ call' = [op |-> "identified", at |-> call.at]
              /\ UNCHANGED reply
           \/ call.wait + 1 <= MAX_WAIT /\ call' = [call EXCEPT !.wait = @ + 1] /\ UNCHANGED reply
  <2>1. /\ \/ call' \in [op : {"identifying"}, at : {call.at}, wait : 0 .. MAX_WAIT]
           \/ st = "data" /\ call' = [op |-> "identified", at |-> call.at]
        /\ UNCHANGED reply
    BY <1>1, <1>3, AtaAssumption DEF ERR, DRQ
  <2>2. CallShape'
    BY <1>1, <2>1 DEF CallShape, Searching, Moving, Replies
  <2>3. Shape'
    BY <1>1, <2>2, SameDrives DEF Shape, DriveType
  <2>4. Detecting'
    BY <1>1, <2>1 DEF AtaInv, Detecting, Searching, Moving
  <2>5. AtCandidate'
    <3>1. Candidate' = Candidate /\ Candidate \in Drives /\ st = drive[Candidate].status
      BY <1>1, <2>1, CurrentIs DEF Candidate
    <3>2. ASSUME st = "data"
          PROVE  drive[Candidate].unseen = NoCommand /\ drive[Candidate].command = IDENTIFY
      <4>1. drive[Candidate].command # NoCommand
        BY <3>1, <3>2 DEF AtaInv, Shape, DriveShape
      <4> QED
        BY <1>1, <3>1, <4>1 DEF AtaInv, Detecting
    <3> QED
      BY <1>1, <2>1, <3>1, <3>2 DEF AtaInv, AtCandidate
  <2>6. AtTarget' /\ FoundIsADisk'
    BY <1>1 DEF AtTarget, FoundIsADisk
  <2> QED
    BY <2>3, <2>4, <2>5, <2>6 DEF AtaInv
<1>4. \/ NextDrive
      \/ /\ ~ERR(st) /\ DRQ(st)
         /\ call' = [op |-> "identified", at |-> call.at]
         /\ UNCHANGED reply
      \/ call.wait + 1 <= MAX_WAIT /\ call' = [call EXCEPT !.wait = @ + 1] /\ UNCHANGED reply
  <2>1. call.wait + 1 > MAX_WAIT \/ call.wait + 1 <= MAX_WAIT
    BY <1>1, AtaAssumption
  <2> QED
    BY <2>1 DEF Identifying
<1> QED
  BY <1>2, <1>3, <1>4

LEMMA IdentifiedKeeps == AtaInv /\ Identified => AtaInv'
PROOF
<1> SUFFICES ASSUME AtaInv, Identified PROVE AtaInv'
  OBVIOUS
<1> DEFINE d == Candidate
<1>1. /\ call.op = "identified" /\ Searching /\ found.io = 0
      /\ found' = Found(d, Words(d)) /\ drive' = Drained(d) /\ call' = Idle
      /\ reply' = [op |-> "init", ok |-> TRUE] /\ UNCHANGED <<machine, selected>>
  BY DEF AtaInv, Shape, CallShape, Identified, AtCandidate, Searching
<1>2. /\ d \in Drives /\ d[1] \in {1, 2} /\ d[2] \in {0, 1} /\ d = <<d[1], d[2]>>
  BY <1>1, CurrentIs, Places DEF Candidate
<1>3. /\ selected[d[1]] = d[2] /\ drive[d].status = "data" /\ drive[d].command = IDENTIFY
  BY <1>1 DEF AtaInv, AtCandidate
<1>4. machine[d].kind = "ata"
  BY <1>2, <1>3 DEF AtaInv, Shape, DriveShape
<1>5. found' = [io |-> d[1], is_master |-> d[2] = 0, total |-> machine[d].size]
  BY <1>1, <1>3 DEF Found, Words, DRQ
<1>6. machine[d].size \in Nat
  BY <1>2, MachineType DEF AtaInv
<1>7. /\ drive' \in [Drives -> DriveType]
      /\ \A e \in Drives : DriveShape(e)' /\ (e # d => drive'[e] = drive[e])
  BY <1>1, <1>2, DrainedShape DEF AtaInv
<1>8. Target' = d
  BY <1>2, <1>5 DEF Target
<1>9. CallShape'
  BY <1>1 DEF CallShape, Searching, Moving, Replies, Idle
<1>10. Shape'
  BY <1>1, <1>2, <1>5, <1>6, <1>7, <1>9 DEF AtaInv, Shape, DriveType
<1>11. found'.io # 0 /\ found'.total = machine[d].size
  BY <1>2, <1>5
<1>12. Detecting' /\ AtCandidate'
  BY <1>1, <1>11 DEF Detecting, AtCandidate, Searching, Idle
<1>13. AtTarget' /\ FoundIsADisk'
  BY <1>1, <1>2, <1>3, <1>4, <1>8, <1>11 DEF AtTarget, FoundIsADisk, Idle
<1> QED
  BY <1>10, <1>12, <1>13 DEF AtaInv

(* The call in progress, once a drive is found.                            *)
ReadCall ==
  [op : {"wait", "command", "poll", "transfer", "done"}, request : Requests,
   got : Seq(Blocks), wait : 0 .. MAX_WAIT]

(* A step that leaves the drives alone and ends the call or goes on in it. *)
LEMMA ReadingKeeps ==
  ASSUME AtaInv, found.io # 0, UNCHANGED <<machine, drive, selected, found>>, reply' \in Replies,
         call' = Idle \/ call' \in ReadCall,
         call'.op = "command" => drive[Target].status # "busy" /\ drive[Target].unseen = NoCommand
  PROVE  AtaInv'
PROOF
<1>1. CallShape' /\ ~Searching'
  BY DEF CallShape, Searching, Moving, ReadCall, Idle
<1>2. Shape'
  BY <1>1, SameDrives DEF Shape, DriveType
<1>3. Detecting' /\ AtCandidate' /\ FoundIsADisk'
  BY <1>1, SameDrives DEF Detecting, AtCandidate
<1>4. AtTarget'
  BY SameDrives DEF AtaInv, AtTarget
<1> QED
  BY <1>2, <1>3, <1>4 DEF AtaInv

LEMMA ReadSectorsKeeps ==
  ASSUME AtaInv, NEW r \in Requests, ReadSectors(r)
  PROVE  AtaInv'
PROOF
<1>1. call.op = "idle" /\ UNCHANGED <<machine, drive, selected, found>> /\ ~Searching
  BY DEF ReadSectors, Searching
<1>2. CASE Refused(r) /\ Answered(FALSE)
  <2>1. call' = Idle /\ reply' \in Replies
    BY <1>2 DEF Answered, Replies
  <2>2. CallShape' /\ ~Searching'
    BY <2>1 DEF CallShape, Searching, Moving, Idle
  <2>3. Shape'
    BY <1>1, <2>2, SameDrives DEF Shape, DriveType
  <2>4. Detecting' /\ AtCandidate' /\ AtTarget' /\ FoundIsADisk'
    BY <1>1, <2>1, <2>2, SameDrives DEF AtaInv, Detecting, AtCandidate, AtTarget, Moving, Idle
  <2> QED
    BY <2>3, <2>4 DEF AtaInv
<1>3. CASE /\ ~Refused(r)
           /\ call' = [op |-> "wait", request |-> r, got |-> << >>, wait |-> 0]
           /\ UNCHANGED reply
  <2>1. found.io # 0
    BY <1>3 DEF Refused
  <2>2. call' \in ReadCall /\ call'.op = "wait"
    BY <1>3, AtaAssumption DEF ReadCall
  <2>3. reply' \in Replies
    BY <1>3 DEF AtaInv, Shape, CallShape
  <2> QED
    BY <1>1, <2>1, <2>2, <2>3, ReadingKeeps
<1> QED
  BY <1>2, <1>3 DEF ReadSectors

LEMMA ReadCallIs ==
  ASSUME AtaInv, Moving \/ call.op = "done"
  PROVE  call \in ReadCall /\ found.io # 0 /\ reply \in Replies
BY DEF AtaInv, Shape, CallShape, ReadCall, Detecting

LEMMA WaitKeeps == AtaInv /\ Wait => AtaInv'
PROOF
<1> SUFFICES ASSUME AtaInv, Wait PROVE AtaInv'
  OBVIOUS
<1>1. /\ call.op = "wait" /\ call \in ReadCall /\ found.io # 0 /\ reply \in Replies
      /\ Polled(Target, 1) /\ UNCHANGED <<machine, drive, selected, found>>
  BY ReadCallIs DEF Wait, Moving
<1>2. CASE Answered(FALSE)
  BY <1>1, <1>2, ReadingKeeps DEF Answered, Replies, Idle
<1>3. CASE call.wait + 1 <= MAX_WAIT /\ call' = [call EXCEPT !.wait = @ + 1] /\ UNCHANGED reply
  <2>1. call.wait + 1 \in 0 .. MAX_WAIT
    BY <1>1, <1>3, AtaAssumption DEF ReadCall
  <2>2. call' = [call EXCEPT !.wait = call.wait + 1]
    BY <1>3
  <2>3. call' \in ReadCall /\ call'.op = "wait"
    BY <1>1, <2>1, <2>2 DEF ReadCall
  <2> QED
    BY <1>1, <1>3, <2>3, ReadingKeeps
<1>4. CASE ~BSY(Current(Target)) /\ call' = [call EXCEPT !.op = "command"] /\ UNCHANGED reply
  <2>1. call' \in ReadCall
    BY <1>1, <1>4 DEF ReadCall
  <2>2. drive[Target].status # "busy" /\ drive[Target].unseen = NoCommand
    BY <1>1, <1>4, CurrentIs DEF BSY, Polled
  <2> QED
    BY <1>1, <1>4, <2>1, <2>2, ReadingKeeps
<1>5. call.wait + 1 > MAX_WAIT \/ call.wait + 1 <= MAX_WAIT
  BY <1>1, AtaAssumption DEF ReadCall
<1> QED
  BY <1>2, <1>3, <1>4, <1>5 DEF Wait

LEMMA PollKeeps == AtaInv /\ Poll => AtaInv'
PROOF
<1> SUFFICES ASSUME AtaInv, Poll PROVE AtaInv'
  OBVIOUS
<1>1. /\ call.op = "poll" /\ call \in ReadCall /\ found.io # 0 /\ reply \in Replies
      /\ UNCHANGED <<machine, drive, selected, found>>
  BY ReadCallIs DEF Poll, Moving
<1>2. CASE Answered(FALSE)
  BY <1>1, <1>2, ReadingKeeps DEF Answered, Replies, Idle
<1>3. CASE call.wait + 1 <= MAX_WAIT /\ call' = [call EXCEPT !.wait = @ + 1] /\ UNCHANGED reply
  <2>1. call.wait + 1 \in 0 .. MAX_WAIT
    BY <1>1, <1>3, AtaAssumption DEF ReadCall
  <2>2. call' = [call EXCEPT !.wait = call.wait + 1]
    BY <1>3
  <2>3. call' \in ReadCall /\ call'.op = "poll"
    BY <1>1, <2>1, <2>2 DEF ReadCall
  <2> QED
    BY <1>1, <1>3, <2>3, ReadingKeeps
<1>4. CASE call' = [call EXCEPT !.op = "transfer"] /\ UNCHANGED reply
  <2>1. call' \in ReadCall /\ call'.op = "transfer"
    BY <1>1, <1>4 DEF ReadCall
  <2> QED
    BY <1>1, <1>4, <2>1, ReadingKeeps
<1>5. call.wait + 1 > MAX_WAIT \/ call.wait + 1 <= MAX_WAIT
  BY <1>1, AtaAssumption DEF ReadCall
<1> QED
  BY <1>2, <1>3, <1>4, <1>5 DEF Poll

LEMMA DoneKeeps == AtaInv /\ Done => AtaInv'
BY ReadCallIs, ReadingKeeps DEF Done, Answered, Replies, Idle

LEMMA SmallMod ==
  ASSUME NEW n \in Nat \ {0}, NEW x \in 0 .. n - 1
  PROVE  x % n = x
PROOF
<1> DEFINE q == x \div n
<1>1. x = n * q + (x % n) /\ x % n \in 0 .. n - 1 /\ q \in Nat
  OBVIOUS
<1>2. q >= 1 => n * q >= n
  BY <1>1
<1>3. q = 0
  BY <1>1, <1>2
<1> QED
  BY <1>1, <1>3

(* The address of the next sector of a read.                               *)
LEMMA CurLbaIs ==
  ASSUME call \in ReadCall
  PROVE  /\ CurLba \in 0 .. LBA_LIMIT - 1
         /\ Pending /\ Moving => CurLba = call.request.lba + Len(call.got)
PROOF
<1>1. /\ call.request \in Requests /\ call.request.lba \in Nat /\ call.request.count \in Nat
      /\ Len(call.got) \in Nat /\ LBA_LIMIT \in Nat \ {0}
  BY AtaAssumption DEF ReadCall
<1>2. CurLba \in 0 .. LBA_LIMIT - 1
  BY <1>1 DEF CurLba
<1>3. ASSUME Pending, Moving PROVE CurLba = call.request.lba + Len(call.got)
  <2>1. call.request.lba < LBA_LIMIT /\ Len(call.got) < call.request.count
    BY <1>3 DEF Pending
  <2>2. call.request.lba + call.request.count <= LBA_LIMIT
    BY <1>1, <2>1, AtaAssumption
  <2>3. call.request.lba + Len(call.got) \in 0 .. LBA_LIMIT - 1
    BY <1>1, <2>1, <2>2
  <2> QED
    BY <1>1, <2>3, SmallMod DEF CurLba
<1> QED
  BY <1>2, <1>3

LEMMA CommandKeeps == AtaInv /\ Command => AtaInv'
PROOF
<1> SUFFICES ASSUME AtaInv, Command PROVE AtaInv'
  OBVIOUS
<1>1. /\ call.op = "command" /\ call \in ReadCall /\ found.io # 0 /\ reply \in Replies
      /\ Issue(Target, READ(CurLba)) /\ call' = [call EXCEPT !.op = "poll", !.wait = 0]
      /\ selected' = [selected EXCEPT ![Target[1]] = Target[2]]
      /\ UNCHANGED <<machine, found, reply>>
  BY ReadCallIs DEF Command, Moving
<1>2. Target \in Drives /\ Target' = Target /\ selected' = selected
  BY <1>1 DEF AtaInv, AtTarget, Shape, Target
<1>3. READ(CurLba) \in Commands \ {NoCommand}
  BY CurLbaIs, CommandsDiffer, <1>1
<1>4. /\ drive' \in [Drives -> DriveType]
      /\ \A e \in Drives : DriveShape(e)'
  BY <1>1, <1>2, <1>3, IssueShape DEF AtaInv
<1>5. call' \in ReadCall /\ call'.op = "poll"
  <2>1. call' = [op |-> "poll", request |-> call.request, got |-> call.got, wait |-> 0]
    BY <1>1 DEF ReadCall
  <2> QED
    BY <1>1, <2>1, AtaAssumption DEF ReadCall
<1>6. CallShape' /\ ~Searching'
  BY <1>1, <1>5 DEF CallShape, Searching, Moving, ReadCall
<1>7. Shape'
  BY <1>1, <1>2, <1>4, <1>6 DEF AtaInv, Shape, DriveType
<1>8. Detecting' /\ AtCandidate' /\ FoundIsADisk'
  BY <1>1, <1>2, <1>6 DEF AtaInv, Detecting, AtCandidate, FoundIsADisk
<1>9. AtTarget'
  BY <1>1, <1>2, <1>5 DEF AtaInv, AtTarget
<1> QED
  BY <1>7, <1>8, <1>9 DEF AtaInv

LEMMA TransferKeeps == AtaInv /\ Transfer => AtaInv'
PROOF
<1> SUFFICES ASSUME AtaInv, Transfer PROVE AtaInv'
  OBVIOUS
<1> DEFINE op == IF Len(call.got) + 1 = call.request.count THEN "done" ELSE "wait"
<1>1. /\ call.op = "transfer" /\ call \in ReadCall /\ found.io # 0 /\ reply \in Replies
      /\ drive' = Drained(Target) /\ UNCHANGED <<machine, selected, found, reply>>
      /\ call' = [call EXCEPT !.op = op, !.got = Append(call.got, Words(Target)), !.wait = 0]
  BY ReadCallIs DEF Transfer, Moving
<1>2. Target \in Drives /\ Target' = Target
  BY <1>1 DEF AtaInv, AtTarget, Target
<1>3. /\ drive' \in [Drives -> DriveType]
      /\ \A e \in Drives : DriveShape(e)'
  BY <1>1, <1>2, DrainedShape DEF AtaInv
<1>4. Words(Target) \in Blocks
  BY <1>2, CommandsDiffer DEF Words, Blocks, AtaInv, Shape
<1>5. Append(call.got, Words(Target)) \in Seq(Blocks) /\ op \in {"wait", "done"}
  BY <1>1, <1>4 DEF ReadCall
<1>6. call' \in ReadCall /\ call'.op = op
  <2> DEFINE got == Append(call.got, Words(Target))
  <2>1. call' = [op |-> op, request |-> call.request, got |-> got, wait |-> 0]
    BY <1>1 DEF ReadCall
  <2> HIDE DEF op, got
  <2>2. op \in {"wait", "done"} /\ got \in Seq(Blocks)
    BY <1>5 DEF op, got
  <2> QED
    BY <1>1, <2>1, <2>2, AtaAssumption DEF ReadCall
<1>7. CallShape' /\ ~Searching'
  BY <1>1, <1>5, <1>6 DEF CallShape, Searching, Moving, ReadCall
<1>8. Shape'
  <2>1. UNCHANGED <<machine, selected, found>>
    BY <1>1
  <2> QED
    BY <2>1, <1>3, <1>7 DEF AtaInv, Shape, DriveType
<1>9. Detecting' /\ AtCandidate' /\ FoundIsADisk'
  BY <1>1, <1>2, <1>7 DEF AtaInv, Detecting, AtCandidate, FoundIsADisk
<1>10. AtTarget'
  BY <1>1, <1>2, <1>5, <1>6 DEF AtaInv, AtTarget
<1> QED
  BY <1>8, <1>9, <1>10 DEF AtaInv

LEMMA AtaInvStutter == AtaInv /\ UNCHANGED vars => AtaInv'
PROOF
<1> SUFFICES ASSUME AtaInv, UNCHANGED vars PROVE AtaInv'
  OBVIOUS
<1>1. UNCHANGED <<machine, drive, selected, found>> /\ call' = call /\ reply' = reply
  BY DEF vars
<1>2. CallShape'
  BY <1>1 DEF AtaInv, Shape, CallShape, Searching, Moving
<1>3. Shape'
  BY <1>1, <1>2, SameDrives DEF Shape, DriveType
<1>4. Detecting' /\ AtCandidate' /\ AtTarget' /\ FoundIsADisk'
  BY <1>1, SameDrives
     DEF AtaInv, Detecting, AtCandidate, AtTarget, Searching, Moving, Candidate
<1> QED
  BY <1>3, <1>4 DEF AtaInv

LEMMA AtaInvStep == AtaInv /\ [Next]_vars => AtaInv'
PROOF
<1> SUFFICES ASSUME AtaInv, [Next]_vars PROVE AtaInv'
  OBVIOUS
<1>1. CASE DriverStep
  BY <1>1, SelectKeeps, SettleKeeps, IdentifyKeeps, IdentifyingKeeps, IdentifiedKeeps,
     WaitKeeps, CommandKeeps, PollKeeps, TransferKeeps, DoneKeeps DEF DriverStep
<1>2. CASE DriveStep
  BY <1>2, DriveStepKeeps DEF DriveStep
<1>3. CASE \E r \in Requests : ReadSectors(r)
  BY <1>3, ReadSectorsKeeps
<1>4. CASE UNCHANGED vars
  BY <1>4, AtaInvStutter
<1> QED
  BY <1>1, <1>2, <1>3, <1>4 DEF Next

(* The invariant holds.                                                    *)
LEMMA AtaInvHolds == Spec => []AtaInv
PROOF
<1>1. Init => AtaInv
  BY AtaInvInit
<1>2. AtaInv /\ [Next]_vars => AtaInv'
  BY AtaInvStep
<1> QED
  BY <1>1, <1>2, PTL DEF Spec

(***************************************************************************)
(* What a step does to the call.                                           *)
(***************************************************************************)
LEMMA SearchStep ==
  ASSUME AtaInv, Select \/ Settle \/ Identify \/ Identifying \/ Identified
  PROVE  /\ Searching /\ found.io = 0
         /\ (Searching' /\ reply' = reply) \/ (call' = Idle /\ reply'.op = "init")
PROOF
<1>1. Searching /\ found.io = 0
  BY DEF AtaInv, AtCandidate, Searching, Select, Settle, Identify, Identifying, Identified
<1>2. ASSUME NextDrive
      PROVE  (Searching' /\ reply' = reply) \/ (call' = Idle /\ reply'.op = "init")
  <2>1. call.at \in 1 .. 4
    BY <1>1 DEF AtaInv, Shape, CallShape, Searching
  <2> QED
    BY <1>2, <2>1, Places DEF NextDrive, Try, Idle, Searching
<1>3. CASE Select
  BY <1>1, <1>3 DEF Select, Searching
<1>4. CASE Settle
  <2>1. call.op = "settle" /\ call \in [op : {"settle", "identifying"}, at : 1 .. 4, wait : 0 .. MAX_WAIT]
    BY <1>4 DEF AtaInv, Shape, CallShape, Settle
  <2> QED
    BY <1>1, <1>2, <1>4, <2>1 DEF Settle, Searching
<1>5. CASE Identify
  BY <1>1, <1>5 DEF Identify, Searching
<1>6. CASE Identifying
  <2>1. call.op = "identifying"
        /\ call \in [op : {"settle", "identifying"}, at : 1 .. 4, wait : 0 .. MAX_WAIT]
    BY <1>6 DEF AtaInv, Shape, CallShape, Identifying
  <2> QED
    BY <1>1, <1>2, <1>6, <2>1 DEF Identifying, Searching
<1>7. CASE Identified
  BY <1>1, <1>7 DEF Identified
<1> QED
  BY <1>1, <1>3, <1>4, <1>5, <1>6, <1>7

(* A step of a read ends it, goes on with it, or brings a sector.          *)
Ends ==
  /\ call' = Idle /\ reply' \in [op : {"read"}, ok : BOOLEAN]
  /\ reply'.ok <=> call.op = "done"

GoesOn ==
  /\ Moving /\ Moving' /\ call' \in ReadCall /\ reply' = reply
  /\ call'.request = call.request /\ call'.got = call.got

Fills ==
  /\ Transfer /\ Moving /\ call' \in ReadCall /\ reply' = reply
  /\ call'.request = call.request /\ call'.got = Append(call.got, Words(Target))
  /\ call'.op = IF Len(call.got) + 1 = call.request.count THEN "done" ELSE "wait"

LEMMA GoesOnBy ==
  ASSUME call \in ReadCall, Moving, reply' = reply,
         NEW op \in {"wait", "poll", "command", "transfer"}, NEW wait \in 0 .. MAX_WAIT,
         call' = [op |-> op, request |-> call.request, got |-> call.got, wait |-> wait]
  PROVE  GoesOn
BY DEF GoesOn, Moving, ReadCall

LEMMA WaitStep ==
  ASSUME AtaInv, Wait
  PROVE  Ends \/ GoesOn
PROOF
<1>1. call \in ReadCall /\ call.op = "wait" /\ Moving
  BY ReadCallIs DEF Wait, Moving
<1>2. CASE Answered(FALSE)
  BY <1>1, <1>2 DEF Answered, Ends
<1>3. CASE call.wait + 1 <= MAX_WAIT /\ call' = [call EXCEPT !.wait = @ + 1] /\ UNCHANGED reply
  <2>1. call.wait + 1 \in 0 .. MAX_WAIT
    BY <1>1, <1>3, AtaAssumption DEF ReadCall
  <2>2. call' = [op |-> "wait", request |-> call.request, got |-> call.got, wait |-> call.wait + 1]
    BY <1>1, <1>3 DEF ReadCall
  <2> QED
    BY <1>1, <1>3, <2>1, <2>2, GoesOnBy
<1>4. CASE call' = [call EXCEPT !.op = "command"] /\ UNCHANGED reply
  <2>1. call' = [op |-> "command", request |-> call.request, got |-> call.got, wait |-> call.wait]
        /\ call.wait \in 0 .. MAX_WAIT
    BY <1>1, <1>4 DEF ReadCall
  <2> QED
    BY <1>1, <1>4, <2>1, GoesOnBy
<1>5. call.wait + 1 > MAX_WAIT \/ call.wait + 1 <= MAX_WAIT
  BY <1>1, AtaAssumption DEF ReadCall
<1> QED
  BY <1>2, <1>3, <1>4, <1>5 DEF Wait

LEMMA PollStep ==
  ASSUME AtaInv, Poll
  PROVE  \/ Ends
         \/ GoesOn /\ call'.op = "poll"
         \/ GoesOn /\ call'.op = "transfer" /\ DRQ(Current(Target)) /\ ~ERR(Current(Target))
PROOF
<1>1. call \in ReadCall /\ call.op = "poll" /\ Moving
  BY ReadCallIs DEF Poll, Moving
<1>2. CASE Answered(FALSE)
  BY <1>1, <1>2 DEF Answered, Ends
<1>3. CASE call.wait + 1 <= MAX_WAIT /\ call' = [call EXCEPT !.wait = @ + 1] /\ UNCHANGED reply
  <2>1. call.wait + 1 \in 0 .. MAX_WAIT
    BY <1>1, <1>3, AtaAssumption DEF ReadCall
  <2>2. call' = [op |-> "poll", request |-> call.request, got |-> call.got, wait |-> call.wait + 1]
    BY <1>1, <1>3 DEF ReadCall
  <2> QED
    BY <1>1, <1>3, <2>1, <2>2, GoesOnBy
<1>4. CASE /\ ~ERR(Current(Target)) /\ DRQ(Current(Target))
           /\ call' = [call EXCEPT !.op = "transfer"] /\ UNCHANGED reply
  <2>1. call' = [op |-> "transfer", request |-> call.request, got |-> call.got, wait |-> call.wait]
        /\ call.wait \in 0 .. MAX_WAIT
    BY <1>1, <1>4 DEF ReadCall
  <2> QED
    BY <1>1, <1>4, <2>1, GoesOnBy
<1>5. call.wait + 1 > MAX_WAIT \/ call.wait + 1 <= MAX_WAIT
  BY <1>1, AtaAssumption DEF ReadCall
<1> QED
  BY <1>2, <1>3, <1>4, <1>5 DEF Poll

LEMMA CommandStep ==
  ASSUME AtaInv, Command
  PROVE  GoesOn /\ call'.op = "poll"
PROOF
<1>1. call \in ReadCall /\ Moving /\ reply' = reply
  BY ReadCallIs DEF Command, Moving
<1>2. call' = [op |-> "poll", request |-> call.request, got |-> call.got, wait |-> 0]
  BY <1>1 DEF ReadCall, Command
<1> QED
  BY <1>1, <1>2, GoesOnBy, AtaAssumption

LEMMA TransferStep ==
  ASSUME AtaInv, Transfer
  PROVE  Fills
PROOF
<1> DEFINE op == IF Len(call.got) + 1 = call.request.count THEN "done" ELSE "wait"
           got == Append(call.got, Words(Target))
<1>1. call \in ReadCall /\ Moving /\ reply' = reply /\ found.io # 0
  BY ReadCallIs DEF Transfer, Moving
<1>2. call' = [op |-> op, request |-> call.request, got |-> got, wait |-> 0]
  BY <1>1 DEF ReadCall, Transfer
<1>3. Words(Target) \in Blocks
  BY <1>1, CommandsDiffer DEF Words, Blocks, AtaInv, Shape, AtTarget
<1>4. op \in {"wait", "done"} /\ got \in Seq(Blocks)
  BY <1>1, <1>3 DEF ReadCall
<1>5. call'.op = op /\ call'.request = call.request /\ call'.got = got
  BY <1>2
<1> HIDE DEF op, got
<1>6. call' \in ReadCall
  BY <1>1, <1>2, <1>4, AtaAssumption DEF ReadCall
<1> QED
  BY <1>1, <1>5, <1>6 DEF Fills, op, got

(* All the steps of a read.                                                *)
LEMMA ReadStep ==
  ASSUME AtaInv, Wait \/ Command \/ Poll \/ Transfer \/ Done
  PROVE  /\ call \in ReadCall /\ (Moving \/ call.op = "done")
         /\ found.io # 0 /\ UNCHANGED <<machine, found>> /\ Target' = Target
         /\ Ends \/ GoesOn \/ Fills
PROOF
<1>1. /\ call \in ReadCall /\ (Moving \/ call.op = "done")
      /\ found.io # 0 /\ UNCHANGED <<machine, found>> /\ Target' = Target
  BY ReadCallIs DEF Wait, Command, Poll, Transfer, Done, Moving, Target
<1>2. Done => Ends
  BY DEF Done, Ends, Answered
<1> QED
  BY <1>1, <1>2, WaitStep, CommandStep, PollStep, TransferStep

(***************************************************************************)
(* How much of a read is done.                                             *)
(***************************************************************************)
LEMMA PendingStep == AtaInv /\ Pending /\ [Next]_vars => Pending'
PROOF
<1> SUFFICES ASSUME AtaInv, Pending, [Next]_vars PROVE Pending'
  OBVIOUS
<1>1. CASE Select \/ Settle \/ Identify \/ Identifying \/ Identified
  BY <1>1, SearchStep DEF Pending, Searching, Moving, Idle
<1>2. CASE Wait \/ Command \/ Poll \/ Transfer \/ Done
  <2>1. /\ call \in ReadCall /\ (Moving \/ call.op = "done")
        /\ Ends \/ GoesOn \/ Fills
    BY <1>2, ReadStep
  <2>2. CASE Ends
    BY <2>2 DEF Ends, Pending, Searching, Moving, Idle
  <2>3. CASE GoesOn
    BY <2>3 DEF GoesOn, Pending, Searching, Moving
  <2>4. CASE Fills
    <3>1. /\ Len(call'.got) = Len(call.got) + 1 /\ Len(call.got) \in Nat
          /\ call.request.count \in Nat
      BY <2>1, <2>4, AtaAssumption DEF Fills, ReadCall
    <3>2. call.request.lba < LBA_LIMIT /\ call.request.count # 0
          /\ Len(call.got) < call.request.count
      BY <2>4 DEF Fills, Pending
    <3>3. /\ call'.op \in {"wait", "done"} /\ call'.request = call.request
          /\ call'.op = "done" <=> Len(call.got) + 1 = call.request.count
      BY <2>4 DEF Fills
    <3> QED
      BY <3>1, <3>2, <3>3 DEF Pending, Searching, Moving
  <2> QED
    BY <2>1, <2>2, <2>3, <2>4
<1>3. CASE DriveStep
  <2>1. UNCHANGED <<call, reply>>
    BY <1>3 DEF DriveStep, Notice, Answer
  <2> QED
    BY <2>1 DEF Pending, Searching, Moving
<1>4. ASSUME NEW r \in Requests, ReadSectors(r)
      PROVE  Pending'
  <2>1. CASE Answered(FALSE)
    BY <2>1 DEF Answered, Pending, Searching, Moving, Idle
  <2>2. CASE ~Refused(r) /\ call' = [op |-> "wait", request |-> r, got |-> << >>, wait |-> 0]
    <3>1. r.count \in Nat \ {0} /\ r.lba < LBA_LIMIT
      BY <2>2, AtaAssumption DEF Refused
    <3> QED
      BY <2>2, <3>1 DEF Pending, Searching, Moving
  <2> QED
    BY <1>4, <2>1, <2>2 DEF ReadSectors
<1>5. CASE UNCHANGED vars
  BY <1>5 DEF vars, Pending, Searching, Moving
<1> QED
  BY <1>1, <1>2, <1>3, <1>4, <1>5 DEF Next, DriverStep

LEMMA PendingInit == Init => Pending
BY Places DEF Init, Pending, Try, Searching, Moving

LEMMA InvariantsHold == Spec => [](AtaInv /\ Pending)
PROOF
<1>1. Init => AtaInv /\ Pending
  BY AtaInvInit, PendingInit
<1>2. AtaInv /\ Pending /\ [Next]_vars => AtaInv' /\ Pending'
  BY AtaInvStep, PendingStep
<1> QED
  BY <1>1, <1>2, PTL DEF Spec

(***************************************************************************)
(* The theorems.                                                           *)
(***************************************************************************)
(* Type correctness: no poll count passes MAX_WAIT, and a read never has   *)
(* more sectors than it was asked for.                                     *)
THEOREM TypeCorrect == Spec => []TypeOK
PROOF
<1>1. AtaInv /\ Pending => TypeOK
  <2> SUFFICES ASSUME AtaInv, Pending PROVE TypeOK
    OBVIOUS
  <2>1. CASE Searching
    BY <2>1 DEF AtaInv, Shape, CallShape, Searching, TypeOK
  <2>2. CASE call.op = "idle"
    BY <2>2 DEF AtaInv, Shape, CallShape, TypeOK, Idle
  <2>3. CASE Moving \/ call.op = "done"
    <3>1. /\ call \in ReadCall /\ call.request.count \in Nat /\ Len(call.got) \in Nat
      BY <2>3, ReadCallIs, AtaAssumption DEF ReadCall
    <3>2. Len(call.got) <= call.request.count
      BY <2>3, <3>1 DEF Pending
    <3> QED
      BY <3>1, <3>2 DEF AtaInv, Shape, TypeOK, ReadCall
  <2> QED
    BY <2>1, <2>2, <2>3 DEF AtaInv, Shape, CallShape
<1> QED
  BY <1>1, InvariantsHold, PTL

(* initialize() settles on a disk that answered for itself, with its own   *)
(* size, whatever is plugged in, whatever the BIOS left and whichever      *)
(* answer came after its time-out.                                         *)
THEOREM DetectionIsRight == Spec => []FoundIsADisk
PROOF
<1>1. AtaInv => FoundIsADisk
  BY DEF AtaInv
<1> QED
  BY <1>1, AtaInvHolds, PTL

(* No command is written to a drive that is still busy with an earlier     *)
(* one, a command the driver gave up waiting for included.                 *)
THEOREM NoCommandIsLost == Spec => CommandsAreTaken
PROOF
<1>1. AtaInv => /\ Identify => drive[Candidate].status # "busy"
                /\ Command => drive[Target].status # "busy"
  <2> SUFFICES ASSUME AtaInv
               PROVE  /\ Identify => drive[Candidate].status # "busy"
                      /\ Command => drive[Target].status # "busy"
    OBVIOUS
  <2>1. Identify => drive[Candidate].status # "busy"
    BY DEF AtaInv, AtCandidate, Identify, Searching
  <2>2. Command => drive[Target].status # "busy"
    BY DEF AtaInv, AtTarget, Detecting, Command, Moving
  <2> QED
    BY <2>1, <2>2
<1>2. AtaInv => [/\ Identify => drive[Candidate].status # "busy"
                 /\ Command => drive[Target].status # "busy"]_vars
  BY <1>1
<1> QED
  BY <1>2, AtaInvHolds, PTL DEF CommandsAreTaken

(***************************************************************************)
(* A read is a read of the block device, when no disk shows its old status *)
(* to the first poll after a command.  (One that does answers the sector   *)
(* after with the data of the one before: READ SECTORS has no wait of its  *)
(* own.)                                                                   *)
(***************************************************************************)
NoDiskLags ==
  \A m \in Machines : \A d \in Drives : m[d].kind = "ata" => ~m[d].lags

LEMMA OrderStep ==
  ASSUME NoDiskLags, AtaInv, Pending, ReadsInOrder, [Next]_vars
  PROVE  ReadsInOrder'
PROOF
<1>1. CASE Select \/ Settle \/ Identify \/ Identifying \/ Identified
  BY <1>1, SearchStep DEF ReadsInOrder, Searching, Moving, Idle
<1>2. CASE Wait \/ Command \/ Poll \/ Transfer \/ Done
  <2>1. /\ call \in ReadCall /\ (Moving \/ call.op = "done")
        /\ found.io # 0 /\ UNCHANGED <<machine, found>> /\ Target' = Target
        /\ Ends \/ GoesOn \/ Fills
    BY <1>2, ReadStep
  <2>2. Target \in Drives /\ Current(Target) = drive[Target].status
    BY <2>1, CurrentIs
  <2>3. machine[Target].kind = "ata" /\ ~machine[Target].lags
    BY <2>1, <2>2 DEF AtaInv, Shape, FoundIsADisk, NoDiskLags
  <2>4. \A w : Sector(w)' = Sector(w)
    BY <2>1 DEF Sector
  <2>5. CASE Ends
    BY <2>5 DEF Ends, ReadsInOrder, Moving, Idle
  <2>6. CASE Wait /\ GoesOn
    <3>1. call'.op \in {"wait", "command"}
      BY <2>6, <2>1 DEF Wait, GoesOn, ReadCall, Answered, Idle, Moving
    <3> QED
      BY <2>1, <2>4, <2>6, <3>1 DEF GoesOn, ReadsInOrder, Moving
  <2>7. CASE Command
    <3>1. GoesOn /\ call'.op = "poll" /\ Moving
      BY <2>7, CommandStep DEF GoesOn
    <3>2. CurLba = call.request.lba + Len(call.got) /\ CurLba \in 0 .. LBA_LIMIT - 1
      BY <2>1, <3>1, CurLbaIs
    <3>3. drive[Target].status # "busy" /\ Present(Target) /\ Issue(Target, READ(CurLba))
      BY <2>1, <2>3, <2>7 DEF AtaInv, AtTarget, Command, Present
    <3>4. drive'[Target].command = READ(CurLba) /\ drive'[Target].unseen = NoCommand
      BY <2>1, <2>2, <2>3, <3>2, <3>3, IssueShape, CommandsDiffer DEF AtaInv
    <3> QED
      BY <2>1, <2>4, <3>1, <3>2, <3>4 DEF GoesOn, ReadsInOrder, Moving
  <2>8. CASE Poll /\ ~Ends
    <3>1. /\ GoesOn /\ UNCHANGED drive /\ call.op = "poll"
          /\ \/ call'.op = "poll"
             \/ call'.op = "transfer" /\ drive[Target].status = "data"
      BY <2>2, <2>8, PollStep DEF Poll, DRQ, ERR
    <3> QED
      BY <2>1, <2>4, <3>1 DEF GoesOn, ReadsInOrder, Moving
  <2>9. CASE Fills
    <3>1. call.op = "transfer"
      BY <2>9 DEF Fills, Transfer
    <3>2. drive[Target].status = "data" /\ drive[Target].command = READ(call.request.lba + Len(call.got))
      BY <3>1 DEF ReadsInOrder, Moving
    <3>3. Sector(Words(Target)) = call.request.lba + Len(call.got)
      BY <3>2 DEF Sector, Words, DRQ, READ
    <3>4. /\ Len(call'.got) = Len(call.got) + 1 /\ Len(call.got) \in Nat
          /\ \A i \in 1 .. Len(call.got) : call'.got[i] = call.got[i]
          /\ call'.got[Len(call.got) + 1] = Words(Target)
      BY <2>1, <2>9 DEF Fills, ReadCall
    <3>5. \A i \in 1 .. Len(call.got) : Sector(call.got[i]) = call.request.lba + i - 1
      BY <3>1 DEF ReadsInOrder, Moving
    <3>6. ASSUME NEW i \in 1 .. Len(call'.got)
          PROVE  Sector(call.got[i])' = call.request.lba + i - 1
      <4>1. Sector(call.got[i])' = Sector(call'.got[i])
        BY <2>1 DEF Sector
      <4>2. CASE i \in 1 .. Len(call.got)
        BY <3>4, <3>5, <4>1, <4>2
      <4>3. CASE i = Len(call.got) + 1
        <5>1. call.request.lba \in Nat
          BY <2>1, AtaAssumption DEF ReadCall
        <5> QED
          BY <3>3, <3>4, <4>1, <4>3, <5>1
      <4> QED
        BY <3>4, <4>2, <4>3
    <3>7. call'.op \in {"wait", "done"} /\ call'.request = call.request
      BY <2>9 DEF Fills
    <3> QED
      BY <3>6, <3>7 DEF ReadsInOrder
  <2>10. Done => Ends
    BY DEF Done, Ends, Answered
  <2>11. (Wait => Ends \/ GoesOn) /\ (Transfer => Fills)
    BY WaitStep, TransferStep
  <2> QED
    BY <1>2, <2>5, <2>6, <2>7, <2>8, <2>9, <2>10, <2>11
<1>3. ASSUME NEW d \in Drives, Notice(d) \/ Answer(d)
      PROVE  ReadsInOrder'
  <2>1. /\ UNCHANGED <<machine, selected, found, call, reply>>
        /\ \A e \in Drives : e # d => drive'[e] = drive[e]
        /\ \/ /\ drive[d].unseen # NoCommand
              /\ drive'[d].command = drive[d].unseen /\ drive'[d].unseen = NoCommand
           \/ /\ drive[d].status = "busy" /\ drive'[d].status # "busy"
              /\ drive'[d].command = drive[d].command /\ drive'[d].unseen = drive[d].unseen
    BY <1>3, DriveStepShape DEF AtaInv
  <2>2. Target' = Target /\ \A w : Sector(w)' = Sector(w)
    BY <2>1 DEF Target, Sector
  <2>3. CASE Moving /\ call.op \in {"poll", "transfer"}
    <3>1. Target \in Drives
      BY <2>3 DEF AtaInv, Detecting, AtTarget
    <3>2. /\ drive'[Target].command = drive[Target].command
          /\ drive'[Target].unseen = drive[Target].unseen
          /\ drive[Target].status # "busy" => drive'[Target].status = drive[Target].status
      BY <2>1, <2>3, <3>1 DEF ReadsInOrder
    <3> QED
      BY <2>1, <2>2, <3>2 DEF ReadsInOrder, Moving
  <2>4. CASE ~(Moving /\ call.op \in {"poll", "transfer"})
    BY <2>1, <2>2, <2>4 DEF ReadsInOrder, Moving
  <2> QED
    BY <2>3, <2>4
<1>4. ASSUME NEW r \in Requests, ReadSectors(r)
      PROVE  ReadsInOrder'
  <2>1. CASE Answered(FALSE)
    BY <2>1 DEF Answered, ReadsInOrder, Moving, Idle
  <2>2. CASE call' = [op |-> "wait", request |-> r, got |-> << >>, wait |-> 0]
    BY <2>2 DEF ReadsInOrder, Moving
  <2> QED
    BY <1>4, <2>1, <2>2 DEF ReadSectors
<1>5. CASE UNCHANGED vars
  BY <1>5 DEF vars, ReadsInOrder, Moving, Target, Sector
<1> QED
  BY <1>1, <1>2, <1>3, <1>4, <1>5 DEF Next, DriverStep, DriveStep

(* The read as the caller sees it, and the sectors that came.              *)
Request == IF Reading THEN call.request ELSE [lba |-> 0, count |-> 0]

Moved == IF Reading THEN [i \in DOMAIN call.got |-> Sector(call.got[i])] ELSE << >>

Result ==
  CASE Reading \/ reply.op # "read" -> "none"
    [] ~Reading /\ reply.op = "read" /\ reply.ok -> "ok"
    [] ~Reading /\ reply.op = "read" /\ ~reply.ok -> "error"

LEMMA ReadingIs ==
  /\ AtaInv => (Reading <=> Moving \/ call.op = "done")
  /\ AtaInv /\ Reading => call \in ReadCall
PROOF
<1>1. ASSUME AtaInv PROVE Reading <=> Moving \/ call.op = "done"
  BY <1>1 DEF AtaInv, Shape, CallShape, Reading, Searching, Moving, Idle
<1> QED
  BY <1>1, ReadCallIs

LEMMA NotReading ==
  ASSUME ~Reading
  PROVE  /\ Request = [lba |-> 0, count |-> 0] /\ Moved = << >>
         /\ reply.op # "read" => Result = "none"
         /\ reply.op = "read" => Result = IF reply.ok THEN "ok" ELSE "error"
BY DEF Request, Moved, Result

LEMMA MovedIs ==
  ASSUME AtaInv, Pending, Reading
  PROVE  /\ Request = call.request /\ Result = "none"
         /\ call.request \in Requests /\ call.request # [lba |-> 0, count |-> 0]
         /\ Moved \in Seq(Int) /\ Len(Moved) = Len(call.got)
         /\ \A i \in 1 .. Len(call.got) : Moved[i] = Sector(call.got[i])
PROOF
<1>1. call \in ReadCall /\ (Moving \/ call.op = "done")
  BY ReadingIs
<1>2. call.got \in Seq(Blocks) /\ Len(call.got) \in Nat /\ DOMAIN call.got = 1 .. Len(call.got)
  BY <1>1 DEF ReadCall
<1>3. Moved = [i \in 1 .. Len(call.got) |-> Sector(call.got[i])]
  BY <1>2 DEF Moved
<1>4. \A i \in 1 .. Len(call.got) : Sector(call.got[i]) \in Int
  <2>1. \A i \in 1 .. Len(call.got) : call.got[i] \in Blocks
    BY <1>2, ElementOfSeq
  <2>2. \A w \in Blocks : w.what.op = "read" => w.what.lba \in Int
    BY AtaAssumption DEF Blocks, Commands, NoCommand, IDENTIFY, READ
  <2> QED
    BY <2>1, <2>2 DEF Sector
<1>5. Moved \in [1 .. Len(call.got) -> Int]
  BY <1>3, <1>4
<1>6. Moved \in Seq(Int)
  BY <1>2, <1>5, IsASeq
<1>7. Len(Moved) = Len(call.got)
  BY <1>2, <1>5, <1>6, LenProperties
<1>8. call.request.count # 0
  BY <1>1 DEF Pending
<1>9. Request = call.request /\ Result = "none" /\ call.request \in Requests
  BY <1>1 DEF Request, Result, ReadCall
<1>10. call.request # [lba |-> 0, count |-> 0]
  BY <1>8
<1> QED
  BY <1>3, <1>6, <1>7, <1>9, <1>10

LEMMA RefinedInit == Init => Disk!Init
PROOF
<1> SUFFICES ASSUME Init PROVE Disk!Init
  OBVIOUS
<1>1. call = [op |-> "select", at |-> 1] /\ reply.op = "none"
  BY Places DEF Init, Try
<1>2. ~Reading
  BY <1>1 DEF Reading
<1>3. Request = [lba |-> 0, count |-> 0] /\ Moved = << >> /\ Result = "none"
  BY <1>1, <1>2, NotReading
<1> QED
  BY <1>3 DEF Disk!Init, Disk!Nothing, Request, Moved, Result

LEMMA RefinedStep ==
  ASSUME AtaInv, Pending, ReadsInOrder, AtaInv', Pending', ReadsInOrder', [Next]_vars
  PROVE  \/ \E r \in Requests :
               /\ Request = [lba |-> 0, count |-> 0]
               /\ Request' = r /\ Moved' = << >> /\ Result' = "none"
         \/ /\ Len(Moved) < Request.count
            /\ Moved' = Append(Moved, Request.lba + Len(Moved))
            /\ Request' = Request /\ Result' = Result
         \/ /\ Request # [lba |-> 0, count |-> 0] /\ Len(Moved) = Request.count
            /\ Result' = "ok" /\ Request' = [lba |-> 0, count |-> 0] /\ Moved' = << >>
         \/ /\ Request # [lba |-> 0, count |-> 0]
            /\ Result' = "error" /\ Request' = [lba |-> 0, count |-> 0] /\ Moved' = << >>
         \/ /\ Request = [lba |-> 0, count |-> 0]
            /\ Result' = "error" /\ Request' = Request /\ Moved' = Moved
         \/ Request' = Request /\ Moved' = Moved /\ Result' = Result
PROOF
<1>1. CASE Select \/ Settle \/ Identify \/ Identifying \/ Identified
  <2>1. /\ Searching /\ reply.op = "none"
        /\ (Searching' /\ reply' = reply) \/ (call' = Idle /\ reply'.op = "init")
    BY <1>1, SearchStep DEF Pending
  <2>2. ~Reading /\ ~Reading'
    <3>1. ~Reading
      BY <2>1, ReadingIs DEF Searching, Moving
    <3>2. CASE Searching'
      BY <3>1, <3>2 DEF AtaInv, Shape, CallShape, Searching, Reading
    <3>3. CASE call' = Idle
      BY <3>1, <3>3 DEF Reading, Idle
    <3> QED
      BY <2>1, <3>1, <3>2, <3>3
  <2>3. Request' = [lba |-> 0, count |-> 0] /\ Moved' = << >> /\ Result' = "none"
    BY <2>1, <2>2 DEF Request, Moved, Result
  <2> QED
    BY <2>1, <2>2, <2>3, NotReading
<1>2. CASE Wait \/ Command \/ Poll \/ Transfer \/ Done
  <2>1. /\ call \in ReadCall /\ (Moving \/ call.op = "done") /\ Target' = Target
        /\ Ends \/ GoesOn \/ Fills
    BY <1>2, ReadStep
  <2>2. Reading
    BY <2>1, ReadingIs
  <2>3. /\ Request = call.request /\ Result = "none"
        /\ Request # [lba |-> 0, count |-> 0]
        /\ Moved \in Seq(Int) /\ Len(Moved) = Len(call.got)
        /\ \A i \in 1 .. Len(call.got) : Moved[i] = Sector(call.got[i])
    BY <2>2, MovedIs
  <2>4. CASE Ends
    <3>1. ~Reading'
      BY <2>4 DEF Ends, Idle, Reading
    <3>2. /\ Request' = [lba |-> 0, count |-> 0] /\ Moved' = << >>
          /\ Result' = IF reply'.ok THEN "ok" ELSE "error"
      BY <2>4, <3>1 DEF Ends, Request, Moved, Result
    <3>3. CASE reply'.ok
      <4>1. call.op = "done" /\ Len(Moved) = Request.count
        BY <2>3, <2>4, <3>3 DEF Ends, Pending
      <4> QED
        BY <2>3, <3>2, <3>3, <4>1
    <3>4. CASE ~reply'.ok
      BY <2>3, <3>2, <3>4
    <3> QED
      BY <3>3, <3>4
  <2>5. CASE GoesOn
    <3>1. Reading'
      BY <2>5 DEF GoesOn, Reading, ReadCall
    <3>2. Moved' = [i \in DOMAIN call.got |-> Sector(call'.got[i])]
      BY <2>1, <2>5, <3>1 DEF GoesOn, Moved, Sector
    <3>3. Moved' = Moved
      BY <2>2, <2>5, <3>2 DEF GoesOn, Moved
    <3>4. Request' = Request /\ Result' = Result
      BY <2>3, <2>5, <3>1 DEF GoesOn, Request, Result
    <3> QED
      BY <3>3, <3>4
  <2>6. CASE Fills
    <3>1. Reading'
      BY <2>6 DEF Fills, Reading, ReadCall
    <3>2. call.op = "transfer" /\ Len(call.got) < call.request.count
      BY <2>6 DEF Fills, Transfer, Pending
    <3>3. /\ Len(call'.got) = Len(call.got) + 1 /\ Len(call.got) \in Nat
          /\ DOMAIN call'.got = 1 .. Len(call.got) + 1 /\ DOMAIN Moved = 1 .. Len(call.got)
          /\ \A i \in 1 .. Len(call.got) : call'.got[i] = call.got[i]
      BY <2>1, <2>3, <2>6 DEF Fills, ReadCall
    <3>4. Moved' = [i \in DOMAIN call'.got |-> Sector(call'.got[i])]
      BY <2>1, <3>1 DEF Moved, Sector
    <3>5. call'.op \in {"wait", "done"} /\ call'.request = call.request /\ reply' = reply
      BY <2>6 DEF Fills
    <3>6. call'.got[Len(call.got) + 1] = Words(Target)
          /\ Sector(Words(Target)) = call.request.lba + Len(call.got)
      <4>1. /\ drive[Target].status = "data"
            /\ drive[Target].command = READ(call.request.lba + Len(call.got))
        BY <3>2 DEF ReadsInOrder, Moving
      <4>2. Sector(Words(Target)) = call.request.lba + Len(call.got)
        BY <4>1 DEF Sector, Words, DRQ, READ
      <4> QED
        BY <2>1, <2>6, <4>2 DEF Fills, ReadCall
    <3>7. Moved' = Append(Moved, call.request.lba + Len(call.got))
      BY <2>3, <3>3, <3>4, <3>6
    <3>8. Request' = Request /\ Result' = Result
      BY <2>3, <3>1, <3>5 DEF Request, Result
    <3> QED
      BY <2>3, <3>2, <3>7, <3>8
  <2> QED
    BY <2>1, <2>4, <2>5, <2>6
<1>3. CASE DriveStep \/ UNCHANGED vars
  <2>1. UNCHANGED <<call, reply, found>>
    BY <1>3 DEF DriveStep, Notice, Answer, vars
  <2>2. Request' = Request /\ Moved' = Moved /\ Result' = Result
    BY <2>1 DEF Request, Moved, Result, Reading, Sector, Target
  <2> QED
    BY <2>2
<1>4. ASSUME NEW r \in Requests, ReadSectors(r)
      PROVE  \/ /\ Request = [lba |-> 0, count |-> 0]
                /\ Request' = r /\ Moved' = << >> /\ Result' = "none"
             \/ /\ Request = [lba |-> 0, count |-> 0]
                /\ Result' = "error" /\ Request' = Request /\ Moved' = Moved
  <2>1. ~Reading
    BY <1>4, ReadingIs DEF ReadSectors, Moving
  <2>2. Request = [lba |-> 0, count |-> 0] /\ Moved = << >>
    BY <2>1, NotReading
  <2>3. CASE Answered(FALSE)
    <3>1. ~Reading' /\ reply' = [op |-> "read", ok |-> FALSE]
      BY <2>3 DEF Answered, Reading, Idle
    <3>2. Request' = [lba |-> 0, count |-> 0] /\ Moved' = << >> /\ Result' = "error"
      BY <3>1 DEF Request, Moved, Result
    <3> QED
      BY <2>2, <3>2
  <2>4. CASE call' = [op |-> "wait", request |-> r, got |-> << >>, wait |-> 0]
    <3>1. Reading'
      BY <2>4 DEF Reading
    <3>2. Request' = r /\ Result' = "none"
      BY <2>4, <3>1 DEF Request, Result
    <3>3. Moved' = << >>
      BY <2>4, <3>1 DEF Moved
    <3> QED
      BY <2>2, <3>2, <3>3
  <2> QED
    BY <1>4, <2>3, <2>4 DEF ReadSectors
<1> QED
  BY <1>1, <1>2, <1>3, <1>4 DEF Next, DriverStep

(* The disk of the loader's file systems: reads transfer the sectors asked *)
(* for, in order, and succeed only when all have come, for any machine     *)
(* whose disks do not lag.                                                 *)
THEOREM ReadsAreThoseOfADisk ==
  ASSUME NoDiskLags
  PROVE  Spec => ImplementsBlockDevice
PROOF
<1>1. Init => AtaInv /\ Pending /\ ReadsInOrder
  BY AtaInvInit, PendingInit, Places DEF Init, ReadsInOrder, Try, Moving
<1>2. AtaInv /\ Pending /\ ReadsInOrder /\ [Next]_vars => (AtaInv /\ Pending /\ ReadsInOrder)'
  BY NoDiskLags, AtaInvStep, PendingStep, OrderStep
<1>3. AtaInv /\ Pending /\ ReadsInOrder /\ (AtaInv /\ Pending /\ ReadsInOrder)' /\ [Next]_vars =>
        [Disk!Next]_<<Request, Moved, Result>>
  BY RefinedStep
     DEF Disk!Next, Disk!Ask, Disk!Transfer, Disk!Succeed, Disk!Fail, Disk!Refuse, Disk!Nothing,
         Request, Moved, Result
<1> QED
  BY RefinedInit, <1>1, <1>2, <1>3, PTL
     DEF Spec, ImplementsBlockDevice, Disk!Spec, Request, Moved, Result
=============================================================================
