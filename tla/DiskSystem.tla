----------------------------- MODULE DiskSystem -----------------------------
(***************************************************************************)
(* A simulated disk (btree_lab/disksystem.cc): the three files it lives in *)
(* and the processes that create, use, close and delete it, one at a time. *)
(* DiskSystem's constructor rewrites or reads the files, its destructor    *)
(* writes the configuration and the bitmap back; a process may be killed   *)
(* (a signal, an assert, a null FILE pointer) between any two changes of a *)
(* file, and what stdio still buffers then is lost.                        *)
(*                                                                         *)
(* SIZE_T has Word values and wraps.  `offset' is 0 on every disk makedisk *)
(* creates and is left out.  The data file is its bytes, and reads as      *)
(* zeroes past its end (myread extends it); what a request writes is the   *)
(* same in all the bytes of its blocks.  The three latencies are of one    *)
(* class: none (not positive), tiny (printed by %lf as 0.000000) or        *)
(* normal.  A stem of 79 characters or more does not fit the buffer of     *)
(* ReadConfig.                                                             *)
(***************************************************************************)
EXTENDS Integers

CONSTANTS
    Word,        \* the number of values of SIZE_T
    Configs,     \* what makedisk may be asked for
    Values,      \* what a byte may hold
    Zero,        \* a byte never written
    Residues,    \* numbers an uninitialized line buffer may hold
    MaxCount,    \* the most blocks readdisk and writedisk are asked for
    Notified,    \* the blocks a run allocates and deallocates: a bound
    Absent,      \* no such file
    Empty,       \* a file without its contents
    NoConfig,    \* no DiskSystem object
    NoTail       \* no write is left in the data file's stdio buffer

Words == 0 .. Word - 1

\* The data file's: a block may start at any SIZE_T, and be as long.
Bytes == 0 .. 2 * Word - 1

ConfigType == [numblocks : Words, blocksize : Words, numheads : Words,
               blockspertrack : Words, numtracks : Words,
               latency : {"none", "tiny", "normal"}, stem : {"fits", "overlong"}]

ASSUME DiskAssumption ==
    /\ Word \in Nat /\ Word > 1
    /\ Configs \subseteq ConfigType
    /\ Zero \in Values
    /\ Residues \subseteq Words
    /\ MaxCount \in Words
    /\ Notified \subseteq Words

ASSUME NamesAssumption ==
    /\ Absent \notin ConfigType /\ Empty \notin ConfigType /\ Absent # Empty
    /\ NoConfig \notin ConfigType
    /\ \A B \in SUBSET Words : B # Absent /\ B # Empty
    /\ Absent \notin [Bytes -> Values]
    /\ NoTail \notin [bytes : SUBSET Bytes, value : Values]

VARIABLES
    config,      \* the .config file: Absent, Empty or what was printed to it
    bitmap,      \* the .bitmap file: Absent, Empty or the set of marked blocks
    data,        \* the .data file: Absent or [Bytes -> Values]
    pc,          \* how far the process has come; "idle" if there is none
    cfg,         \* the configuration of the object
    bits,        \* its bitmap: the set of blocks marked as allocated
    last_track, last_sector,   \* where the last transfer ended
    tail,        \* the last write, while stdio holds it: [bytes, value]
    owned,       \* history: the blocks allocated since the disk was made
    doubtful,    \* history: blocks whose bit a crash has lost or made up
    hurt,        \* history: a process died while it was changing the files
    wrapped      \* history: a transfer went past SIZE_T in this process

files == <<config, bitmap, data>>
arm == <<last_track, last_sector>>
history == <<owned, doubtful, hurt>>
vars == <<files, pc, cfg, bits, arm, tail, history, wrapped>>
-----------------------------------------------------------------------------
(* The arithmetic of SIZE_T and the geometry of a disk. *)

Plus(a, b)  == (a + b) % Word
\* Unsigned; or as a signed type would have it.
MinusSigned(a, b) == a - b
Minus(a, b) == (a - b) % Word
Times(a, b) == (a * b) % Word

\* The blocks under one position of the arm.
Cylinder(c) == Times(c.numheads, c.blockspertrack)

SanityCheckConfig(c) ==
    /\ c.latency # "none"
    /\ c.numblocks = Times(Cylinder(c), c.numtracks)

Device(c) == {b \in Words : b < c.numblocks}

\* Where a block starts in the data file; or with a stride of its own.
AddressPacked(c, b) == Times(b, c.blocksize - 1)
Address(c, b) == Times(b, c.blocksize)

\* The bytes of a block, and those of all blocks.
Span(c, b) == Address(c, b) .. Address(c, b) + c.blocksize - 1
Window(c) == UNION {Span(c, b) : b \in Device(c)}

\* Do the blocks have bytes, and room for them below the largest address?
\* If not, an address may wrap around, and blocks may overlap in part.
Fits(c) == c.blocksize > 0 /\ c.numblocks * c.blocksize <= Word

\* The check of Read, Write and the notifications; and one block too far.
AcceptsOneMore(c, off, num) == Plus(off, num) <= c.numblocks + 1
Accepts(c, off, num) == Plus(off, num) <= c.numblocks

\* ModelAccess: the arm is left where the transfer ends.
Sector(c, b) == b % Cylinder(c)
Track(c, b)  == b \div Cylinder(c)

\* How far the disk turns; a bug would forget that it turns one way only.
SectorHopAnyWay(c, from, to) == Minus(to, from)
SectorHop(c, from, to) ==
    IF to >= from THEN to - from ELSE Minus(c.blockspertrack, from - to)
-----------------------------------------------------------------------------
(* The configuration file: what WriteConfig prints and ReadConfig parses. *)

\* %lf prints six decimals.  A bug would forget a line.
WrittenWithoutTracks(c) == [c EXCEPT !.numtracks = 0]
Written(c) == [c EXCEPT !.latency = IF c.latency = "tiny" THEN "none" ELSE @]

\* An overlong stem is read in two lines, so that every value that follows
\* is taken from the line before its own.
Parsed(c) ==
    IF c.stem = "fits" THEN c
    ELSE [c EXCEPT !.numblocks = 0, !.blocksize = c.numblocks,
                   !.numheads = c.blocksize, !.blockspertrack = c.numheads,
                   !.numtracks = c.blockspertrack,
                   !.latency = IF c.numtracks = 0 THEN "none" ELSE @]

\* From an empty file fgets reads nothing: every value is what the buffer
\* on the stack happens to hold.
Echo(x) == [numblocks |-> x, blocksize |-> x, numheads |-> x,
            blockspertrack |-> x, numtracks |-> x,
            latency |-> IF x = 0 THEN "none" ELSE "normal", stem |-> "fits"]

ReadConfig == IF config = Empty THEN {Echo(x) : x \in Residues}
                                ELSE {Parsed(config)}

\* InitFromInMemoryConfig refuses a name that is taken.
Vacant == config = Absent /\ bitmap = Absent

\* The data file once stdio has passed on the bytes of the last write that
\* are below k; once it has passed on all; and if they are lost.
Reached(k) ==
    IF tail = NoTail THEN data
    ELSE [a \in Bytes |-> IF a \in tail.bytes /\ a < k THEN tail.value ELSE data[a]]

PushedNever == data
Pushed == Reached(2 * Word)

\* WriteBitMap writes no byte for a disk without blocks.  A bug would
\* fill the file only while it is new.
SavedBitmapOnce == IF bitmap = Empty THEN bits ELSE bitmap
SavedBitmap == IF cfg.numblocks = 0 THEN bitmap ELSE bits
-----------------------------------------------------------------------------
Init ==
    /\ config = Absent
    /\ bitmap = Absent
    /\ data \in {Absent} \cup {[a \in Bytes |-> v] : v \in Values \ {Zero}}
    /\ pc = "idle"
    /\ cfg = NoConfig
    /\ bits = {}
    /\ last_track = 0
    /\ last_sector = 0
    /\ tail = NoTail
    /\ owned = {}
    /\ doubtful = {}
    /\ hurt = FALSE
    /\ wrapped = FALSE

\* The object is gone, with or without its destructor.
NoObject ==
    /\ pc' = "idle"
    /\ cfg' = NoConfig
    /\ bits' = {}
    /\ last_track' = 0
    /\ last_sector' = 0
    /\ tail' = NoTail
    /\ wrapped' = FALSE

\* A configuration that is refused, and a name that is taken, leave the object
\* without files; printing it then ends makedisk.
InitFromInMemoryConfig(c) ==
    /\ SanityCheckConfig(c)
    /\ Vacant
    /\ config' = Empty
    /\ cfg' = c
    /\ pc' = "creating"

MakeDisk(c) ==
    /\ pc = "idle"
    /\ InitFromInMemoryConfig(c)
    /\ UNCHANGED <<bitmap, data, bits, arm, tail, history, wrapped>>

\* fopen leaves the file empty; WriteBitMap's bytes stay in stdio's buffer.
CreateBitmap ==
    /\ pc = "configured"
    /\ bitmap' = Empty
    /\ pc' = "mapped"
    /\ UNCHANGED <<config, data, cfg, bits, arm, tail, history, wrapped>>

\* A data file that exists is reused.  makedisk only prints the disk then.
OpenData ==
    /\ pc = "mapped"
    /\ data' = IF data = Absent THEN [a \in Bytes |-> Zero] ELSE data
    /\ pc' = "leaving"
    /\ owned' = {}
    /\ doubtful' = {}
    /\ UNCHANGED <<config, bitmap, cfg, bits, arm, tail, hurt, wrapped>>

\* Nobody looks at what ReadBitMap returns: if the file is too short, the
\* bits are whatever the allocated memory holds.
ReadBitMap(c) ==
    IF bitmap = Empty /\ c.numblocks # 0
    THEN /\ bits' \in SUBSET Device(c)
         /\ doubtful' = Words
    ELSE /\ bits' = IF bitmap = Empty THEN {} ELSE bitmap
         /\ UNCHANGED doubtful

\* Every other tool opens a disk that exists.
Open ==
    /\ pc = "idle"
    /\ config # Absent
    /\ data # Absent
    /\ bitmap # Absent
    /\ \E c \in ReadConfig :
        /\ SanityCheckConfig(c)
        /\ cfg' = c
        /\ ReadBitMap(c)
    /\ pc' = "up"
    /\ UNCHANGED <<files, arm, tail, owned, hurt, wrapped>>

\* The tool goes on with an object that could not be opened.  If nothing else
\* stops it, the destructor still empties the configuration file, to print
\* what it has read, before it fails on the bitmap's null FILE pointer.
OpenFails ==
    /\ pc = "idle"
    /\ config # Absent
    /\ \E c \in ReadConfig :
        /\ data = Absent \/ bitmap = Absent \/ ~SanityCheckConfig(c)
        /\ cfg' = c
    /\ config' = Empty
    /\ pc' = "failing"
    /\ UNCHANGED <<bitmap, data, bits, arm, tail, history, wrapped>>

\* After truncating the file: in the constructor of a new disk, and in the
\* destructor of an object that was opened, or could not be.
WriteConfig ==
    /\ pc \in {"creating", "rewriting", "failing"}
    /\ config' = Written(cfg)
    /\ IF pc = "failing" THEN NoObject
       ELSE /\ pc' = IF pc = "creating" THEN "configured" ELSE "saving"
            /\ UNCHANGED <<cfg, bits, arm, tail, wrapped>>
    /\ UNCHANGED <<bitmap, data, history>>
-----------------------------------------------------------------------------
\* The buffer cache transfers one block at a time; readdisk and writedisk
\* transfer any number, once, and leave.
AfterTransfer(num) == pc' = IF num = 1 THEN "up" ELSE "leaving"

\* The blocks of a request, past SIZE_T where it wraps around.
Requested(off, num) == {Plus(off, i) : i \in 0 .. num - 1}

\* An accepted transfer; ModelAccess divides by the cylinder.
Transfer(off, num) ==
    /\ pc = "up"
    /\ Accepts(cfg, off, num)
    /\ Cylinder(cfg) # 0
    /\ last_track' = Track(cfg, Minus(Plus(off, num), 1))
    /\ last_sector' = Sector(cfg, Minus(Plus(off, num), 1))
    /\ wrapped' = (wrapped \/ off + num # Plus(off, num))
    /\ AfterTransfer(num)
    /\ UNCHANGED <<config, bitmap, cfg, bits, history>>

\* Seeking passes on what was buffered before; the last block stays there.
Write(off, num, v) ==
    /\ Transfer(off, num)
    /\ IF num = 0
       THEN UNCHANGED <<data, tail>>
       ELSE /\ data' = [a \in Bytes |->
                           IF \E b \in Requested(off, num - 1) : a \in Span(cfg, b)
                           THEN v ELSE Pushed[a]]
            /\ tail' = [bytes |-> Span(cfg, Plus(off, num - 1)), value |-> v]

\* Past the end of the file it finds the zeroes it extends the file with.
myread == data' = Pushed /\ tail' = NoTail

Read(off, num) ==
    /\ Transfer(off, num)
    /\ IF num = 0 THEN UNCHANGED <<data, tail>> ELSE myread

\* ERROR_NOSPACE: the cache goes on, readdisk and writedisk return.
Refused(off, num) ==
    /\ pc = "up"
    /\ num # 1
    /\ ~Accepts(cfg, off, num)
    /\ pc' = "leaving"
    /\ UNCHANGED <<files, cfg, bits, arm, tail, history, wrapped>>

\* Only a block of the device has an effect: any other is refused, and the
\* last value of SIZE_T passes the check into a loop that runs no time.
NotifyAllocateBlocks(b) ==
    /\ pc = "up"
    /\ b \in Device(cfg)
    /\ bits' = bits \cup {b}
    /\ owned' = owned \cup {b}
    /\ UNCHANGED <<files, pc, cfg, arm, tail, doubtful, hurt, wrapped>>

NotifyDeallocateBlocks(b) ==
    /\ pc = "up"
    /\ b \in Device(cfg)
    /\ bits' = bits \ {b}
    /\ owned' = owned \ {b}
    /\ UNCHANGED <<files, pc, cfg, arm, tail, doubtful, hurt, wrapped>>
-----------------------------------------------------------------------------
(* The destructor, one step for each change of a file: WriteConfig follows *)
(* TruncateConfig.                                                         *)

TruncateConfig ==
    /\ pc \in {"up", "leaving"}
    /\ config' = Empty
    /\ pc' = "rewriting"
    /\ UNCHANGED <<bitmap, data, cfg, bits, arm, tail, history, wrapped>>

\* Closing the bitmap file writes what WriteBitMap left in stdio's buffer.
CloseBitmap ==
    /\ pc = "saving"
    /\ bitmap' = SavedBitmap
    /\ pc' = "closing"
    /\ UNCHANGED <<config, data, cfg, bits, arm, tail, history, wrapped>>

CloseData ==
    /\ pc = "closing"
    /\ data' = Pushed
    /\ NoObject
    /\ UNCHANGED <<config, bitmap, history>>

\* The bits that only the dying process knew.
Unsaved == IF bitmap = Empty THEN {} ELSE (bits \ bitmap) \cup (bitmap \ bits)

\* The process dies; the last write has reached the file as far as stdio has
\* passed it on.
Kill ==
    /\ pc # "idle"
    /\ data' \in {Reached(k) : k \in 0 .. 2 * Word}
    /\ doubtful' = IF pc \in {"up", "leaving", "rewriting", "saving"}
                   THEN doubtful \cup Unsaved ELSE doubtful
    /\ hurt' = (hurt \/ pc \in {"creating", "configured", "mapped", "failing",
                                "rewriting", "deleting", "deletingConfig"})
    /\ NoObject
    /\ UNCHANGED <<config, bitmap, owned>>

\* deletedisk removes the three files in this order.
RemoveData ==
    /\ pc = "idle"
    /\ data' = Absent
    /\ pc' = "deleting"
    /\ UNCHANGED <<config, bitmap, cfg, bits, arm, tail, history, wrapped>>

RemoveBitmap ==
    /\ pc = "deleting"
    /\ bitmap' = Absent
    /\ pc' = "deletingConfig"
    /\ UNCHANGED <<config, data, cfg, bits, arm, tail, history, wrapped>>

RemoveConfig ==
    /\ pc = "deletingConfig"
    /\ config' = Absent
    /\ pc' = "idle"
    /\ hurt' = FALSE
    /\ UNCHANGED <<bitmap, data, cfg, bits, arm, tail, owned, doubtful, wrapped>>

Next ==
    \/ \E c \in Configs : MakeDisk(c)
    \/ CreateBitmap \/ OpenData \/ Open \/ OpenFails
    \/ \E off \in Words, num \in 0 .. MaxCount :
        \/ Read(off, num)
        \/ Refused(off, num)
        \/ \E v \in Values : Write(off, num, v)
    \/ \E b \in Notified : NotifyAllocateBlocks(b) \/ NotifyDeallocateBlocks(b)
    \/ WriteConfig \/ TruncateConfig \/ CloseBitmap \/ CloseData
    \/ RemoveData \/ RemoveBitmap \/ RemoveConfig
    \/ Kill

Spec == Init /\ [][Next]_vars
-----------------------------------------------------------------------------
PcType == {"idle", "creating", "configured", "mapped", "failing", "up", "leaving",
           "rewriting", "saving", "closing", "deleting", "deletingConfig"}

\* Every variable stays within what the code can store in it.
TypeOK ==
    /\ config \in ConfigType \cup {Absent, Empty}
    /\ bitmap \in {Absent, Empty} \/ bitmap \in SUBSET Words
    /\ data \in [Bytes -> Values] \cup {Absent}
    /\ pc \in PcType
    /\ cfg \in ConfigType \cup {NoConfig}
    /\ bits \in SUBSET Words
    /\ last_track \in Words /\ last_sector \in Words
    /\ tail \in [bytes : SUBSET Bytes, value : Values] \cup {NoTail}
    /\ owned \in SUBSET Words /\ doubtful \in SUBSET Words
    /\ hurt \in BOOLEAN /\ wrapped \in BOOLEAN

\* A disk that was made is there until it is deleted, whatever processes use,
\* refuse or fail to open it and wherever they are killed, except while one
\* of the files is being rewritten.  Latencies that print as zero and stems
\* that ReadConfig cuts make a disk that can be created and never opened.
UnhurtDisksOpen ==
    pc = "idle" /\ ~hurt /\ config # Absent =>
        /\ config # Empty /\ data # Absent /\ bitmap # Absent
        /\ config.latency # "none" /\ config.stem = "fits"
               => SanityCheckConfig(Parsed(config))

\* The bitmap file says of every block whether it was allocated last or
\* deallocated, through any number of processes, but for blocks whose
\* notification died with its process and for bits made up because the file
\* was still empty (the destructor is the only one to write it).
AllocationsRemembered ==
    pc = "idle" /\ bitmap \notin {Absent, Empty} =>
        \A b \in Words \ doubtful : b \in bitmap <=> b \in owned

\* On a disk with one head every transfer waits for less than a revolution;
\* with more heads the unsigned difference can wrap around.
WaitsLessThanARevolution ==
    pc = "up" /\ cfg.numheads = 1 =>
        \A b \in Device(cfg) :
            SectorHop(cfg, last_sector, Sector(cfg, b)) < cfg.blockspertrack

\* What a read of this byte would return.
Visible(a) == IF tail # NoTail /\ a \in tail.bytes THEN tail.value ELSE data[a]

\* "We will write only from offset to offset+blocksize*numblocks"
\* (disksystem.cc:349): what else is in a data file that is reused stays as
\* it is, unless an accepted request has wrapped around.
DataOutsideWindowUntouched ==
    [][\A a \in Bytes :
          data # Absent /\ data' # Absent /\ data[a] # data'[a]
              => wrapped \/ wrapped' \/ a \in Window(cfg)]_vars

\* A block holds what was written last to it, whatever is written to others,
\* and a death takes back no more than the last block written, if there is
\* room for all blocks below the largest address.
BlocksAreIndependent ==
    [][cfg # NoConfig /\ data # Absent /\ Fits(cfg) /\ ~wrapped /\ ~wrapped' =>
          \A b \in Device(cfg) : \A a \in Span(cfg, b) :
              /\ Visible(a)' # Visible(a) =>
                    \/ \E off \in Words, num \in 0 .. MaxCount, v \in Values :
                          b \in Requested(off, num) /\ Write(off, num, v)
                    \/ Kill /\ tail # NoTail /\ a \in tail.bytes
              /\ \A off \in Words, num \in 0 .. MaxCount, v \in Values :
                    b \in Requested(off, num) /\ Write(off, num, v) => Visible(a)' = v]_vars

\* What reads find in the data file, and what a death would leave there.
Latest == IF data = Absent THEN Absent ELSE [a \in Bytes |-> Visible(a)]

\* The size of the blocks of the disk that is open.
Unit == IF cfg = NoConfig THEN 0 ELSE cfg.blocksize

File == INSTANCE BlockFile WITH Addresses <- Bytes, latest <- Latest, durable <- data,
                                blocksize <- Unit

\* Through every process, transfer, death and deletion the data file behaves
\* as a file of bytes, even where addresses wrap around and blocks overlap in
\* part: a request changes the bytes of its blocks at once and no other, what
\* was written before it is safe, and of its own blocks only one can still be
\* lost, or torn.
ImplementsBlockFile == File!Spec
=============================================================================
