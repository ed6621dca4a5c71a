------------------------------- MODULE AtaDrive -------------------------------
(***************************************************************************)
(* The PIO driver of the stage-2 boot loader and the drives it talks to:   *)
(* it looks for a drive on two channels, then reads sectors from it one at *)
(* a time.  Every wait is a bounded number of polls of the status port, so *)
(* the driver may give up on a command the drive still answers.            *)
(*                                                                         *)
(* A step of the driver is a poll, a command or the transfer of a sector;  *)
(* between any two of them the drives may move.                            *)
(***************************************************************************)
EXTENDS Integers, Sequences

CONSTANTS
  Machines,   \* what may be plugged in: for every drive its kind, its size, and
              \* whether the first poll after a command may see the old status
  Requests,   \* the [lba, count] read_sectors is called with
  LBA_LIMIT,  \* number of 28-bit LBAs
  MAX_WAIT    \* polls of a wait (100000)

Drives == {1, 2} \X {0, 1}     \* channel, and master (0) or slave (1)

Kinds == {"ata", "packet", "silent", "floating"}

ASSUME AtaAssumption ==
  /\ \A m \in Machines : m \in [Drives -> [kind : Kinds, size : Nat, lags : BOOLEAN]]
  /\ \A r \in Requests : r.lba \in Nat /\ r.count \in Nat
  /\ LBA_LIMIT \in Nat \ {0} /\ MAX_WAIT \in Nat \ {0}
  \* no caller reads across the last 28-bit LBA
  /\ \A r \in Requests : r.lba < LBA_LIMIT => r.lba + r.count <= LBA_LIMIT

VARIABLES
  machine,    \* what is plugged in
  drive,      \* per drive: its status, the command it works on, one it has not noticed
  selected,   \* per channel: the drive whose registers the CPU sees
  found,      \* _io_base, _is_master and _total_sectors
  call,       \* the call in progress
  reply       \* what the last call returned

vars == <<machine, drive, selected, found, call, reply>>

Unfound == [io |-> 0, is_master |-> TRUE, total |-> 0]

Idle == [op |-> "idle"]

(***************************************************************************)
(* The drives.  A status is busy (BSY), data (DRQ), error (ERR) or none of *)
(* these; an empty channel floats, all bits set, and an empty place beside *)
(* a drive is silent.                                                      *)
(***************************************************************************)
BSY(s) == s \in {"busy", "floating"}
DRQ(s) == s \in {"data", "floating"}
ERR(s) == s \in {"error", "floating"}

NoCommand == [op |-> "none", lba |-> 0]

IDENTIFY == [op |-> "identify", lba |-> 0]

READ(lba) == [op |-> "read", lba |-> lba]

Present(d) == machine[d].kind \in {"ata", "packet"}

(* A drive takes no command while it is busy, and nobody takes those to an *)
(* empty place.                                                            *)
Issue(d, command) ==
  drive' = IF ~Present(d) \/ BSY(drive[d].status) THEN drive
           ELSE IF machine[d].lags THEN [drive EXCEPT ![d].unseen = command]
           ELSE [drive EXCEPT ![d].status = "busy", ![d].command = command]

(* What a poll sees of drive d: a command is noticed by the second poll.   *)
Polled(d, n) == n = 0 \/ drive[d].unseen = NoCommand

(* A drive notices the command and drops what it was doing.                *)
Notice(d) ==
  /\ drive[d].unseen # NoCommand
  /\ drive' = [drive EXCEPT ![d] =
                 [status |-> "busy", command |-> @.unseen, unseen |-> NoCommand]]
  /\ UNCHANGED <<machine, selected, found, call, reply>>

(* A packet drive aborts the ATA commands; a disk may fail any read.       *)
Answers(d) ==
  LET c == drive[d].command IN
  CASE c = NoCommand -> {"ready"}
    [] c # NoCommand /\ machine[d].kind = "packet" -> {"error"}
    [] c # NoCommand /\ machine[d].kind # "packet" ->
         {"error"} \cup (IF c = IDENTIFY \/ c.lba < machine[d].size THEN {"data"} ELSE {})

Answer(d) ==
  /\ drive[d].status = "busy"
  /\ \E s \in Answers(d) : drive' = [drive EXCEPT ![d].status = s]
  /\ UNCHANGED <<machine, selected, found, call, reply>>

(* What 256 words of the data port are, and the drive after them.          *)
Words(d) ==
  IF DRQ(drive[d].status) THEN [from |-> d, what |-> drive[d].command]
  ELSE [from |-> d, what |-> NoCommand]

Drained(d) ==
  IF drive[d].status = "data" THEN [drive EXCEPT ![d].status = "ready"] ELSE drive

(***************************************************************************)
(* initialize(): the first drive, in the order of Candidates, that becomes *)
(* ready and answers IDENTIFY with data.                                   *)
(***************************************************************************)
Candidates == <<<<1, 0>>, <<1, 1>>, <<2, 0>>, <<2, 1>>>>

Try(k) ==
  IF k \in DOMAIN Candidates THEN [op |-> "select", at |-> k]
  ELSE [op |-> "idle"]

(* The candidate a step of initialize() works on, and its status.          *)
Candidate == Candidates[call.at]

Current(d) == drive[<<d[1], selected[d[1]]>>].status

NextDrive ==
  /\ call' = Try(call.at + 1)
  /\ reply' = IF call.at = Len(Candidates) THEN [op |-> "init", ok |-> FALSE] ELSE reply

Select ==
  /\ call.op = "select"
  /\ selected' = [selected EXCEPT ![Candidate[1]] = Candidate[2]]
  /\ call' = [op |-> "settle", at |-> call.at, wait |-> 0]
  /\ UNCHANGED <<machine, drive, found, reply>>

(* The poll that exceeds MAX_WAIT gives up whatever it read.               *)
Settle ==
  /\ call.op = "settle"
  /\ Polled(Candidate, 1)
  /\ \/ /\ call.wait + 1 > MAX_WAIT
        /\ NextDrive
     \/ /\ call.wait + 1 <= MAX_WAIT
        /\ call' = IF BSY(Current(Candidate)) THEN [call EXCEPT !.wait = @ + 1]
                   ELSE [op |-> "identify", at |-> call.at]
        /\ UNCHANGED reply
  /\ UNCHANGED <<machine, drive, selected, found>>

Identify ==
  /\ call.op = "identify"
  /\ Issue(Candidate, IDENTIFY)
  /\ call' = [op |-> "identifying", at |-> call.at, wait |-> 0]
  /\ UNCHANGED <<machine, selected, found, reply>>

Identifying ==
  /\ call.op = "identifying"
  /\ Polled(Candidate, call.wait)
  /\ LET s == Current(Candidate) IN
     \/ /\ ERR(s)
        /\ NextDrive
     \/ /\ ~ERR(s) /\ DRQ(s)
        /\ call' = [op |-> "identified", at |-> call.at]
        /\ UNCHANGED reply
     \/ /\ ~ERR(s) /\ ~DRQ(s)
        /\ IF call.wait + 1 > MAX_WAIT THEN NextDrive
           ELSE call' = [call EXCEPT !.wait = @ + 1] /\ UNCHANGED reply
  /\ UNCHANGED <<machine, drive, selected, found>>

(* Mutant: master and slave are swapped.                                   *)
Found_Swapped(d, words) ==
  [io |-> d[1], is_master |-> d[2] # 0,
   total |-> IF words.what = IDENTIFY THEN machine[d].size ELSE 0]

(* Words 60 and 61 of what IDENTIFY returns hold the size.                 *)
Found(d, words) ==
  [io |-> d[1], is_master |-> d[2] = 0,
   total |-> IF words.what = IDENTIFY THEN machine[d].size ELSE 0]

Identified ==
  /\ call.op = "identified"
  /\ found' = Found(Candidate, Words(Candidate))
  /\ drive' = Drained(Candidate)
  /\ call' = Idle
  /\ reply' = [op |-> "init", ok |-> TRUE]
  /\ UNCHANGED <<machine, selected>>

(***************************************************************************)
(* read_sectors(lba, count, buffer): one READ SECTORS command per sector.  *)
(***************************************************************************)
Refused(r) == r.count = 0 \/ found.io = 0 \/ r.lba >= LBA_LIMIT

Answered(ok) == call' = Idle /\ reply' = [op |-> "read", ok |-> ok]

ReadSectors(r) ==
  /\ call.op = "idle"
  /\ \/ /\ Refused(r)
        /\ Answered(FALSE)
     \/ /\ ~Refused(r)
        /\ call' = [op |-> "wait", request |-> r, got |-> << >>, wait |-> 0]
        /\ UNCHANGED reply
  /\ UNCHANGED <<machine, drive, selected, found>>

Target == <<found.io, IF found.is_master THEN 0 ELSE 1>>

(* Mutant: the command goes out at once.                                   *)
Wait_NotAtAll ==
  /\ call.op = "wait"
  /\ call' = [call EXCEPT !.op = "command"]
  /\ UNCHANGED <<machine, drive, selected, found, reply>>

Wait ==
  /\ call.op = "wait"
  /\ Polled(Target, 1)
  /\ \/ /\ BSY(Current(Target))
        /\ IF call.wait + 1 > MAX_WAIT THEN Answered(FALSE)
           ELSE call' = [call EXCEPT !.wait = @ + 1] /\ UNCHANGED reply
     \/ /\ ~BSY(Current(Target))
        /\ call' = [call EXCEPT !.op = "command"]
        /\ UNCHANGED reply
  /\ UNCHANGED <<machine, drive, selected, found>>

(* Mutant: every command reads the first sector of the request.            *)
CurLba_First == call.request.lba % LBA_LIMIT

(* Only 28 bits of the address reach the drive.                            *)
CurLba == (call.request.lba + Len(call.got)) % LBA_LIMIT

Command ==
  /\ call.op = "command"
  /\ selected' = [selected EXCEPT ![Target[1]] = Target[2]]
  /\ Issue(Target, READ(CurLba))
  /\ call' = [call EXCEPT !.op = "poll", !.wait = 0]
  /\ UNCHANGED <<machine, found, reply>>

(* Mutant: a drive that never answers is polled for ever.                  *)
Poll_Forever ==
  /\ call.op = "poll"
  /\ Polled(Target, call.wait)
  /\ LET s == Current(Target) IN
     \/ /\ ERR(s)
        /\ Answered(FALSE)
     \/ /\ ~ERR(s) /\ DRQ(s)
        /\ call' = [call EXCEPT !.op = "transfer"]
        /\ UNCHANGED reply
     \/ ~ERR(s) /\ ~DRQ(s) /\ UNCHANGED <<call, reply>>
  /\ UNCHANGED <<machine, drive, selected, found>>

Poll ==
  /\ call.op = "poll"
  /\ Polled(Target, call.wait)
  /\ LET s == Current(Target) IN
     \/ /\ ERR(s)
        /\ Answered(FALSE)
     \/ /\ ~ERR(s) /\ DRQ(s)
        /\ call' = [call EXCEPT !.op = "transfer"]
        /\ UNCHANGED reply
     \/ /\ ~ERR(s) /\ ~DRQ(s)
        /\ IF call.wait + 1 > MAX_WAIT THEN Answered(FALSE)
           ELSE call' = [call EXCEPT !.wait = @ + 1] /\ UNCHANGED reply
  /\ UNCHANGED <<machine, drive, selected, found>>

(* Mutant: one sector more than was asked for.                             *)
Transfer_OneTooMany ==
  /\ call.op = "transfer"
  /\ drive' = Drained(Target)
  /\ call' = [call EXCEPT !.op = IF Len(call.got) = call.request.count THEN "done" ELSE "wait",
                          !.got = Append(@, Words(Target)), !.wait = 0]
  /\ UNCHANGED <<machine, selected, found, reply>>

Transfer ==
  /\ call.op = "transfer"
  /\ drive' = Drained(Target)
  /\ call' = [call EXCEPT !.op = IF Len(call.got) + 1 = call.request.count THEN "done" ELSE "wait",
                          !.got = Append(@, Words(Target)), !.wait = 0]
  /\ UNCHANGED <<machine, selected, found, reply>>

Done ==
  /\ call.op = "done"
  /\ Answered(TRUE)
  /\ UNCHANGED <<machine, drive, selected, found>>

(***************************************************************************)
(* The BIOS leaves the drives in any state that is not a transfer.         *)
(***************************************************************************)
LeftByBios(m, d) ==
  CASE m[d].kind \in {"ata", "packet"} -> {"ready", "busy", "error"}
    [] m[d].kind = "silent" -> {"ready"}
    [] m[d].kind = "floating" -> {"floating"}

Init ==
  /\ machine \in Machines
  /\ drive \in [Drives -> {[status |-> s, command |-> NoCommand, unseen |-> NoCommand] :
                             s \in {"ready", "busy", "error", "floating"}}]
  /\ \A d \in Drives : drive[d].status \in LeftByBios(machine, d)
  /\ selected = [c \in {1, 2} |-> 0]
  /\ found = Unfound
  /\ call = Try(1)
  /\ reply = [op |-> "none", ok |-> FALSE]

DriverStep ==
  \/ Select \/ Settle \/ Identify \/ Identifying \/ Identified
  \/ Wait \/ Command \/ Poll \/ Transfer \/ Done

DriveStep == \E d \in Drives : Notice(d) \/ Answer(d)

Next == DriverStep \/ DriveStep \/ \E r \in Requests : ReadSectors(r)

(* The driver's loops run on.  Of the drives nothing is assumed but that   *)
(* they notice a command: an answer may never come.                        *)
Spec ==
  /\ Init /\ [][Next]_vars
  /\ WF_vars(DriverStep) /\ WF_vars(\E d \in Drives : Notice(d))

(***************************************************************************)
(* Properties.                                                             *)
(***************************************************************************)
Commands == {NoCommand, IDENTIFY} \cup {READ(lba) : lba \in 0 .. LBA_LIMIT - 1}

Statuses == {"ready", "busy", "data", "error", "floating"}

TypeOK ==
  /\ drive \in [Drives -> [status : Statuses, command : Commands, unseen : Commands]]
  /\ selected \in [{1, 2} -> {0, 1}]
  /\ found \in [io : {0, 1, 2}, is_master : BOOLEAN, total : Nat]
  /\ "wait" \in DOMAIN call => call.wait \in 0 .. MAX_WAIT
  /\ "got" \in DOMAIN call => Len(call.got) <= call.request.count

(* The drive initialize() settles on is a disk that answered for itself,   *)
(* with its own size: not the packet drive beside it, not an empty place,  *)
(* whatever the BIOS left and whichever answer came after its time-out.    *)
FoundIsADisk ==
  found.io # 0 => machine[Target].kind = "ata" /\ found.total = machine[Target].size

(* The driver never writes a command to a drive that is still busy with an *)
(* earlier one, a command it gave up waiting for included: the drive would *)
(* not take it and would go on with the old one.                           *)
CommandsAreTaken ==
  [][/\ Identify => drive[Candidate].status # "busy"
     /\ Command => drive[Target].status # "busy"]_vars

Reading == "request" \in DOMAIN call

(* A sector that came from the drive found, by its address.                *)
Sector(words) ==
  IF words.from = Target /\ words.what.op = "read" THEN words.what.lba ELSE -1

Disk == INSTANCE BlockDevice WITH
  request <- IF Reading THEN call.request ELSE [lba |-> 0, count |-> 0],
  moved   <- IF Reading THEN [i \in DOMAIN call.got |-> Sector(call.got[i])] ELSE << >>,
  result  <- CASE Reading \/ reply.op # "read" -> "none"
               [] ~Reading /\ reply.op = "read" /\ reply.ok -> "ok"
               [] ~Reading /\ reply.op = "read" /\ ~reply.ok -> "error"

(* read_sectors() transfers the sectors it was asked for, in order, from   *)
(* the drive found, and reports success only when all have come, after any *)
(* number of errors, time-outs and late answers: what the file system      *)
(* above assumes of a read.                                                *)
ImplementsBlockDevice == Disk!Spec

(* Every call returns, whether or not a drive ever answers.                *)
CallsReturn == (call.op # "idle") ~> (call.op = "idle")

(* ata.hpp, "Read sectors from disk.": what a successful read has filled   *)
(* the buffer with are the sectors asked for.                              *)
ReadsTheSectors ==
  call.op = "done" =>
    \A i \in DOMAIN call.got : Sector(call.got[i]) = call.request.lba + i - 1
=============================================================================
