-------------------------- MODULE DiskSystemProofs --------------------------
(***************************************************************************)
(* The files of a disk survive its processes, for every width of SIZE_T,   *)
(* every set of configurations and any number of transfers, notifications  *)
(* and deaths.                                                             *)
(*                                                                         *)
(* The argument follows one object from its constructor to its destructor: *)
(* what it has in memory is sane and agrees with the files, or a variable  *)
(* of the history says since when it need not.                             *)
(***************************************************************************)
EXTENDS DiskSystem, TLAPS

\* There is an object that is sane; it has opened its files.
Object == {"creating", "configured", "mapped", "up", "leaving", "rewriting", "saving",
           "closing"}
Opened == {"up", "leaving", "rewriting", "saving", "closing"}

\* The object and the files it has.
Shape ==
    /\ pc \in Object => cfg \in ConfigType /\ SanityCheckConfig(cfg)
    /\ pc = "failing" => cfg \in ConfigType
    /\ pc \notin Object \cup {"failing"} => cfg = NoConfig
    /\ pc \notin Opened => tail = NoTail /\ bits = {} /\ last_sector = 0
    /\ pc \in Opened =>
          /\ data # Absent /\ bitmap # Absent
          /\ last_sector = 0 \/ last_sector < Cylinder(cfg)
          /\ tail # NoTail => wrapped \/ tail.bytes \subseteq Window(cfg)
    /\ pc \in {"creating", "configured"} => bitmap = Absent
    /\ pc = "mapped" => bitmap = Empty
    /\ pc \in {"configured", "mapped", "saving", "closing"} => config = Written(cfg)

\* A configuration that can be read back.
Readable(c) ==
    /\ c # Empty
    /\ c.latency # "none" /\ c.stem = "fits" => SanityCheckConfig(Parsed(c))

\* What is kept between and during processes until one of them is hurt.
Unhurt ==
    ~hurt =>
        /\ pc \in {"up", "leaving"} => Readable(config)
        /\ pc = "idle" /\ config # Absent =>
              Readable(config) /\ data # Absent /\ bitmap # Absent
        /\ pc = "failing" =>
              Readable(Written(cfg)) /\ data # Absent /\ bitmap # Absent

\* These are the blocks allocated, as far as anyone can know.
Known(B) == \A b \in Words \ doubtful : b \in B <=> b \in owned

\* A disk without blocks has no bits, and leaves its bitmap as it is.
Bitmaps ==
    /\ pc \notin {"configured", "mapped", "up", "leaving", "rewriting", "saving"} =>
          (bitmap \notin {Absent, Empty} => Known(bitmap))
    /\ pc \in {"up", "leaving", "rewriting", "saving"} =>
          /\ cfg.numblocks # 0 \/ bitmap # Empty => Known(bits)
          /\ cfg.numblocks = 0 /\ bitmap # Empty => bits = bitmap

IInv == TypeOK /\ Shape /\ Unhurt /\ Bitmaps
-----------------------------------------------------------------------------
(* Words, and the operators made of them. *)

LEMMA WordType ==
    ASSUME NEW a \in Int, NEW b \in Int
    PROVE  Plus(a, b) \in Words /\ Minus(a, b) \in Words /\ Times(a, b) \in Words
  <1>1. \A x \in Int : x % Word \in Words
    BY DiskAssumption DEF Words
  <1>2. a * b \in Int
    OBVIOUS
  <1> QED BY <1>1, <1>2 DEF Plus, Minus, Times

LEMMA ConfigFields ==
    ASSUME NEW c \in ConfigType
    PROVE  /\ c.numblocks \in Words /\ c.blocksize \in Words /\ c.numheads \in Words
           /\ c.blockspertrack \in Words /\ c.numtracks \in Words
           /\ c.latency \in {"none", "tiny", "normal"}
           /\ c.stem \in {"fits", "overlong"}
           /\ c # Absent /\ c # Empty /\ c # NoConfig
           /\ Cylinder(c) \in Words
  <1>1. \A x \in Words : x \in Int
    BY DiskAssumption DEF Words
  <1> QED BY <1>1, WordType, NamesAssumption DEF ConfigType, Cylinder

LEMMA BlockType ==
    ASSUME NEW c \in ConfigType, NEW b \in Words
    PROVE  /\ Address(c, b) \in Words
           /\ Span(c, b) \subseteq Bytes
           /\ Cylinder(c) # 0 => Sector(c, b) \in Words /\ Sector(c, b) < Cylinder(c)
           /\ Cylinder(c) # 0 => Track(c, b) \in Words
  <1>1. b \in Nat /\ b < Word /\ Cylinder(c) \in Nat /\ c.blocksize \in Int
    BY ConfigFields, DiskAssumption DEF Words
  <1>2. Address(c, b) \in Words
    BY <1>1, WordType DEF Address
  <1>3. ASSUME Cylinder(c) # 0
        PROVE  /\ b % Cylinder(c) \in 0 .. Cylinder(c) - 1
               /\ b \div Cylinder(c) \in 0 .. b
    BY <1>1, <1>3
  <1>4. Span(c, b) \subseteq Bytes
    BY <1>2, ConfigFields, DiskAssumption DEF Span, Bytes, Words
  <1> QED BY <1>1, <1>2, <1>3, <1>4, ConfigFields, DiskAssumption DEF Sector, Track, Words

\* A sane disk with blocks has a cylinder.
LEMMA SaneCylinder ==
    ASSUME NEW c \in ConfigType, SanityCheckConfig(c), Cylinder(c) = 0
    PROVE  c.numblocks = 0
  <1>1. c.numtracks \in Int
    BY ConfigFields, DiskAssumption DEF Words
  <1>2. 0 * c.numtracks = 0
    BY <1>1
  <1> QED BY <1>2, DiskAssumption DEF SanityCheckConfig, Times

\* What a destructor writes is a configuration, and can be read back.
LEMMA WrittenType ==
    ASSUME NEW c \in ConfigType
    PROVE  /\ Written(c) \in ConfigType
           /\ Written(c) # Absent /\ Written(c) # Empty
           /\ SanityCheckConfig(c) => Readable(Written(c))
  <1>1. Written(c) \in ConfigType
    BY DEF ConfigType, Written
  <1>2. c.latency = "normal" => Written(c) = c
    BY DEF ConfigType, Written
  <1>3. c.latency # "normal" => Written(c).latency = "none" \/ c.latency = "none"
    BY DEF ConfigType, Written
  <1>4. c.stem = "fits" => Parsed(c) = c
    BY DEF Parsed
  <1> QED BY <1>1, <1>2, <1>3, <1>4, ConfigFields DEF Readable, SanityCheckConfig

LEMMA ReadConfigType ==
    ASSUME config \in ConfigType \cup {Empty}
    PROVE  ReadConfig \subseteq ConfigType
  <1>1. \A x \in Residues : Echo(x) \in ConfigType
    BY DiskAssumption DEF Echo, ConfigType
  <1>2. config # Empty => Parsed(config) \in ConfigType
    <2>1. 0 \in Words
      BY DiskAssumption DEF Words
    <2> QED BY <2>1 DEF Parsed, ConfigType
  <1> QED BY <1>1, <1>2 DEF ReadConfig

\* What was printed from a configuration that cannot be read back cannot
\* be read back as anything sane either.
LEMMA WrittenUnread ==
    ASSUME NEW c \in ConfigType, Readable(c), ~SanityCheckConfig(Parsed(c))
    PROVE  Readable(Written(Parsed(c)))
  <1>1. Parsed(c) \in ConfigType /\ Parsed(c).stem = c.stem
    <2>1. 0 \in Words
      BY DiskAssumption DEF Words
    <2> QED BY <2>1 DEF Parsed, ConfigType
  <1>2. Written(Parsed(c)).stem = c.stem
    BY <1>1 DEF Written, ConfigType
  <1>3. CASE c.stem = "fits"
    <2>1. Parsed(c) = c /\ c.latency = "none"
      BY <1>3 DEF Parsed, Readable
    <2>2. Written(c).latency = "none"
      BY <2>1 DEF Written, ConfigType
    <2> QED BY <1>1, <2>1, <2>2, WrittenType DEF Readable
  <1> QED BY <1>1, <1>2, <1>3, WrittenType DEF Readable

\* However much of the last write is passed on, the file is one of bytes.
LEMMA ReachedType ==
    ASSUME TypeOK, data # Absent, NEW k \in Nat
    PROVE  Reached(k) \in [Bytes -> Values] /\ Reached(k) # Absent
  <1>1. data \in [Bytes -> Values]
    BY DEF TypeOK
  <1>2. tail # NoTail => tail.value \in Values
    BY DEF TypeOK
  <1> QED BY <1>1, <1>2, NamesAssumption DEF Reached

\* Once all of it is passed on, the file is what reads find.
LEMMA PushedType ==
    ASSUME TypeOK, data # Absent
    PROVE  /\ Pushed \in [Bytes -> Values] /\ Pushed # Absent
           /\ \A a \in Bytes : Pushed[a] = Visible(a)
           /\ tail = NoTail => Pushed = data
  <1>1. 2 * Word \in Nat /\ data \in [Bytes -> Values]
    BY DiskAssumption DEF TypeOK
  <1>2. \A a \in Bytes : a < 2 * Word
    BY DiskAssumption DEF Bytes
  <1>3. \A a \in Bytes : Pushed[a] = Visible(a)
    BY <1>1, <1>2 DEF Pushed, Reached, Visible
  <1> QED BY <1>1, <1>3, ReachedType DEF Pushed, Reached

\* The object that is gone leaves nothing.
LEMMA NoObjectOK ==
    ASSUME NoObject, TypeOK
    PROVE  /\ pc' = "idle" /\ cfg' = NoConfig /\ bits' = {} /\ tail' = NoTail
           /\ last_sector' = 0 /\ last_track' = 0 /\ wrapped' = FALSE
           /\ last_sector' \in Words /\ last_track' \in Words /\ bits' \in SUBSET Words
  BY DiskAssumption DEF NoObject, Words

\* The blocks of a request are those of the device, unless it wraps around.
LEMMA RequestedType ==
    ASSUME NEW off \in Words, NEW num \in 0 .. MaxCount
    PROVE  /\ Requested(off, num) \subseteq Words
           /\ num # 0 => /\ Plus(off, num - 1) \in Requested(off, num)
                         /\ Requested(off, num - 1) \subseteq Requested(off, num)
           /\ Minus(Plus(off, num), 1) \in Words
  <1>1. off \in Int /\ num \in Nat
    BY DiskAssumption DEF Words
  <1>2. Requested(off, num) \subseteq Words
    BY <1>1, WordType DEF Requested
  <1>3. Plus(off, num) \in Int
    BY <1>1, WordType, DiskAssumption DEF Words
  <1>4. Minus(Plus(off, num), 1) \in Words
    BY <1>3, WordType
  <1> QED BY <1>1, <1>2, <1>4 DEF Requested

LEMMA RequestedLast ==
    ASSUME NEW off \in Words, NEW num \in 0 .. MaxCount, num # 0
    PROVE  Requested(off, num) = Requested(off, num - 1) \cup {Plus(off, num - 1)}
  <1>1. num \in Nat /\ 0 .. num - 1 = (0 .. (num - 1) - 1) \cup {num - 1}
    BY DiskAssumption DEF Words
  <1> QED BY <1>1 DEF Requested

LEMMA RequestedOnDevice ==
    ASSUME NEW c \in ConfigType, NEW off \in Words, NEW num \in 0 .. MaxCount,
           Accepts(c, off, num), off + num = Plus(off, num)
    PROVE  Requested(off, num) \subseteq Device(c)
  <1>1. off \in Nat /\ num \in Nat /\ c.numblocks \in Nat /\ c.numblocks < Word
    BY ConfigFields, DiskAssumption DEF Words
  <1>2. ASSUME NEW i \in 0 .. num - 1 PROVE Plus(off, i) \in Device(c)
    <2>1. off + i < c.numblocks /\ off + i \in Nat
      BY <1>1 DEF Accepts
    <2>2. Plus(off, i) = off + i
      BY <1>1, <2>1, DiskAssumption DEF Plus
    <2>3. off + i \in 0 .. Word - 1
      BY <1>1, <2>1, DiskAssumption
    <2> QED BY <2>1, <2>2, <2>3 DEF Device, Words
  <1> QED BY <1>2 DEF Requested

\* What a transfer leaves of the object.
LEMMA TransferOK ==
    ASSUME IInv, NEW off \in Words, NEW num \in 0 .. MaxCount, Transfer(off, num)
    PROVE  /\ cfg \in ConfigType /\ data # Absent /\ bitmap # Absent
           /\ pc = "up" /\ pc' \in {"up", "leaving"}
           /\ UNCHANGED <<config, bitmap, cfg, bits, history>>
           /\ last_track' \in Words /\ last_sector' \in Words
           /\ last_sector' < Cylinder(cfg)
           /\ wrapped' \in BOOLEAN /\ (wrapped => wrapped')
           /\ wrapped' \/ Requested(off, num) \subseteq Device(cfg)
  <1>1. cfg \in ConfigType /\ data # Absent /\ bitmap # Absent /\ pc = "up"
    BY DEF IInv, Shape, Object, Opened, Transfer
  <1>2. last_track' \in Words /\ last_sector' \in Words /\ last_sector' < Cylinder(cfg)
    BY <1>1, RequestedType, BlockType DEF Transfer
  <1>3. ~wrapped' => off + num = Plus(off, num)
    BY DEF Transfer
  <1>4. wrapped' \/ Requested(off, num) \subseteq Device(cfg)
    BY <1>1, <1>3, RequestedOnDevice DEF Transfer
  <1> QED BY <1>1, <1>2, <1>4 DEF Transfer, AfterTransfer, IInv, TypeOK

\* What a write leaves of the data file and of stdio's buffer.
LEMMA WriteOK ==
    ASSUME IInv, NEW off \in Words, NEW num \in 0 .. MaxCount, NEW v \in Values,
           Write(off, num, v)
    PROVE  /\ data' \in [Bytes -> Values] /\ data' # Absent
           /\ tail' \in [bytes : SUBSET Bytes, value : Values] \cup {NoTail}
           /\ tail' # NoTail => wrapped' \/ tail'.bytes \subseteq Window(cfg)
  <1>1. /\ cfg \in ConfigType /\ data \in [Bytes -> Values] /\ pc = "up"
        /\ wrapped => wrapped'
        /\ wrapped' \/ Requested(off, num) \subseteq Device(cfg)
    BY TransferOK DEF Write, IInv, TypeOK
  <1>2. CASE num = 0
    BY <1>1, <1>2, NamesAssumption DEF Write, IInv, TypeOK, Shape, Opened
  <1>3. CASE num # 0
    <2> DEFINE last == Span(cfg, Plus(off, num - 1))
    <2>1. last \in SUBSET Bytes
      BY <1>1, <1>3, RequestedType, BlockType
    <2>2. wrapped' \/ last \subseteq Window(cfg)
      BY <1>1, <1>3, RequestedType DEF Window
    <2>3. Pushed \in [Bytes -> Values]
      BY <1>1, PushedType, NamesAssumption DEF IInv
    <2>4. tail' = [bytes |-> last, value |-> v]
      BY <1>3 DEF Write
    <2>5. data' \in [Bytes -> Values]
      BY <1>3, <2>3 DEF Write
    <2> QED BY <2>1, <2>2, <2>4, <2>5, NamesAssumption
  <1> QED BY <1>2, <1>3
-----------------------------------------------------------------------------
LEMMA InitOK == Init => IInv
  <1> SUFFICES ASSUME Init PROVE IInv
    OBVIOUS
  <1>1. TypeOK
    <2>1. 0 \in Words
      BY DiskAssumption DEF Words
    <2>2. data \in [Bytes -> Values] \cup {Absent}
      BY DEF Init
    <2> QED BY <2>1, <2>2 DEF Init, TypeOK, PcType
  <1>2. Shape /\ Unhurt /\ Bitmaps
    BY DEF Init, Shape, Unhurt, Bitmaps, Object, Opened
  <1> QED BY <1>1, <1>2 DEF IInv

LEMMA CreateSteps ==
    ASSUME IInv, (\E c \in Configs : MakeDisk(c)) \/ CreateBitmap \/ OpenData
    PROVE  IInv'
  <1> USE DEF files, arm, history
  <1>1. ASSUME NEW c \in Configs, MakeDisk(c) PROVE IInv'
    <2>1. c \in ConfigType
      BY DiskAssumption
    <2>2. TypeOK'
      BY <1>1, <2>1 DEF MakeDisk, InitFromInMemoryConfig, IInv, TypeOK, PcType
    <2> QED BY <1>1, <2>1, <2>2
            DEF MakeDisk, InitFromInMemoryConfig, Vacant, IInv, Shape, Object, Opened, Unhurt, Bitmaps, Known
  <1>2. CASE CreateBitmap
    <2>1. TypeOK'
      BY <1>2 DEF CreateBitmap, IInv, TypeOK, PcType
    <2> QED BY <1>2, <2>1 DEF CreateBitmap, IInv, Shape, Object, Opened, Unhurt, Bitmaps
  <1>3. CASE OpenData
    <2>1. data' \in [Bytes -> Values] /\ data' # Absent
      <3>1. [a \in Bytes |-> Zero] \in [Bytes -> Values]
        BY DiskAssumption
      <3> QED BY <1>3, <3>1, NamesAssumption DEF OpenData, IInv, TypeOK
    <2>2. TypeOK'
      BY <1>3, <2>1 DEF OpenData, IInv, TypeOK, PcType
    <2>3. Shape'
      BY <1>3, <2>1, NamesAssumption DEF OpenData, IInv, Shape, Object, Opened, Window, Cylinder, Written
    <2>4. Unhurt'
      <3>1. Readable(config)
        BY <1>3, WrittenType DEF OpenData, IInv, Shape, Object
      <3> QED BY <1>3, <3>1 DEF OpenData, Unhurt
    <2>5. Bitmaps'
      BY <1>3 DEF OpenData, IInv, Shape, Opened, Bitmaps, Known
    <2> QED BY <2>2, <2>3, <2>4, <2>5 DEF IInv
  <1> QED BY <1>1, <1>2, <1>3

LEMMA OpenSteps ==
    ASSUME IInv, Open \/ OpenFails
    PROVE  IInv'
  <1> USE DEF files, arm, history
  <1>1. pc = "idle" /\ config # Absent
    BY DEF Open, OpenFails
  <1>2. config \in ConfigType \cup {Empty}
    BY <1>1 DEF IInv, TypeOK
  <1>3. ASSUME NEW c \in ReadConfig, SanityCheckConfig(c), cfg' = c, ReadBitMap(c), Open
        PROVE  IInv'
    <2>1. c \in ConfigType
      BY <1>2, ReadConfigType
    <2>2. /\ pc' = "up" /\ data # Absent /\ bitmap # Absent
          /\ UNCHANGED <<files, arm, tail, owned, hurt, wrapped>>
      BY <1>3 DEF Open
    <2>3. bits' \in SUBSET Words /\ doubtful' \in SUBSET Words
      BY <1>3, <2>2 DEF ReadBitMap, Device, IInv, TypeOK
    <2>4. TypeOK'
      BY <1>3, <2>1, <2>2, <2>3 DEF IInv, TypeOK, PcType, files, arm
    <2>5. Shape'
      BY <1>1, <1>3, <2>1, <2>2 DEF IInv, Shape, Object, Opened, files, arm
    <2>6. Unhurt'
      BY <1>1, <2>2 DEF IInv, Unhurt, Readable, files
    <2>7. Bitmaps'
      BY <1>1, <1>3, <2>2 DEF IInv, Bitmaps, Known, ReadBitMap, files
    <2> QED BY <2>4, <2>5, <2>6, <2>7 DEF IInv
  <1>4. CASE Open
    BY <1>3, <1>4 DEF Open
  <1>5. CASE OpenFails
    <2>1. PICK c \in ReadConfig :
            /\ data = Absent \/ bitmap = Absent \/ ~SanityCheckConfig(c)
            /\ cfg' = c
      BY <1>5 DEF OpenFails
    <2>2. c \in ConfigType
      BY <1>2, <2>1, ReadConfigType
    <2>3. /\ config' = Empty /\ pc' = "failing"
          /\ UNCHANGED <<bitmap, data, bits, arm, tail, history, wrapped>>
      BY <1>5 DEF OpenFails
    <2>4. TypeOK'
      BY <2>1, <2>2, <2>3 DEF IInv, TypeOK, PcType, arm, history
    <2>5. Shape'
      BY <1>1, <2>1, <2>2, <2>3 DEF IInv, Shape, Object, Opened, arm
    <2>6. Unhurt'
      <3> SUFFICES ASSUME ~hurt PROVE Readable(Written(c)) /\ data # Absent /\ bitmap # Absent
        <4>1. (Written(cfg))' = Written(c)
          BY <2>1 DEF Written
        <4> QED BY <1>1, <2>3, <4>1 DEF Unhurt, Readable, history
      <3>1. Readable(config) /\ data # Absent /\ bitmap # Absent
        BY <1>1 DEF IInv, Unhurt
      <3>2. config \in ConfigType /\ c = Parsed(config)
        BY <1>2, <2>1, <3>1 DEF Readable, ReadConfig
      <3> QED BY <2>1, <3>1, <3>2, WrittenUnread
    <2>7. Bitmaps'
      BY <1>1, <2>3 DEF IInv, Bitmaps, Known, history
    <2> QED BY <2>4, <2>5, <2>6, <2>7 DEF IInv
  <1> QED BY <1>4, <1>5

LEMMA TransferSteps ==
    ASSUME IInv, NEW off \in Words, NEW num \in 0 .. MaxCount,
           \/ Read(off, num) \/ Refused(off, num)
           \/ \E v \in Values : Write(off, num, v)
    PROVE  IInv'
  <1> USE DEF files, arm, history
  <1>1. ASSUME Transfer(off, num), data' \in [Bytes -> Values], data' # Absent,
               tail' \in [bytes : SUBSET Bytes, value : Values] \cup {NoTail},
               tail' # NoTail => wrapped' \/ tail'.bytes \subseteq Window(cfg)
        PROVE  IInv'
    <2>1. TypeOK'
      BY <1>1, TransferOK DEF IInv, TypeOK, PcType
    <2>2. Shape'
      BY <1>1, TransferOK
      DEF IInv, Shape, Object, Opened, Window, Span, Device, Address, Times, Cylinder
    <2>3. Unhurt' /\ Bitmaps'
      BY <1>1, TransferOK DEF IInv, Unhurt, Bitmaps, Known
    <2> QED BY <2>1, <2>2, <2>3 DEF IInv
  <1>2. ASSUME NEW v \in Values, Write(off, num, v) PROVE IInv'
    BY <1>1, <1>2, WriteOK DEF Write
  <1>3. CASE Read(off, num)
    <2>1. data \in [Bytes -> Values] /\ data # Absent /\ Transfer(off, num)
      BY <1>3, TransferOK DEF Read, myread, IInv, TypeOK
    <2>2. data' \in [Bytes -> Values] /\ data' # Absent
      BY <1>3, <2>1, PushedType DEF Read, myread, IInv
    <2>3. /\ tail' \in [bytes : SUBSET Bytes, value : Values] \cup {NoTail}
          /\ tail' # NoTail => wrapped' \/ tail'.bytes \subseteq Window(cfg)
      BY <1>3, <2>1, TransferOK DEF Read, myread, IInv, TypeOK, Shape, Opened
    <2> QED BY <1>1, <2>1, <2>2, <2>3
  <1>4. CASE Refused(off, num)
    BY <1>4 DEF Refused, IInv, TypeOK, PcType, Shape, Object, Opened, Unhurt, Bitmaps,
                Known, Window, Span, Device, Address, Times, Cylinder
  <1> QED BY <1>2, <1>3, <1>4

LEMMA NotifySteps ==
    ASSUME IInv, NEW b \in Notified, NotifyAllocateBlocks(b) \/ NotifyDeallocateBlocks(b)
    PROVE  IInv'
  <1> USE DEF files, arm, history
  <1>1. ASSUME b \in Device(cfg), pc = "up",
               UNCHANGED <<files, pc, cfg, arm, tail, doubtful, hurt, wrapped>>,
               \/ bits' = bits \cup {b} /\ owned' = owned \cup {b}
               \/ bits' = bits \ {b} /\ owned' = owned \ {b}
        PROVE  IInv'
    <2>1. b \in Words /\ cfg.numblocks # 0
      <3>1. cfg \in ConfigType /\ b \in Words /\ b < cfg.numblocks
        BY <1>1 DEF IInv, Shape, Object, Device
      <3> QED BY <3>1, DiskAssumption DEF Words
    <2>2. TypeOK'
      BY <1>1, <2>1 DEF IInv, TypeOK
    <2>3. Shape' /\ Unhurt'
      BY <1>1 DEF IInv, Shape, Object, Opened, Unhurt, Window, Span, Device, Address, Times, Cylinder
    <2>4. Bitmaps'
      BY <1>1, <2>1 DEF IInv, Bitmaps, Known
    <2> QED BY <2>2, <2>3, <2>4 DEF IInv
  <1>2. CASE NotifyAllocateBlocks(b)
    BY <1>1, <1>2 DEF NotifyAllocateBlocks
  <1>3. CASE NotifyDeallocateBlocks(b)
    BY <1>1, <1>3 DEF NotifyDeallocateBlocks
  <1> QED BY <1>2, <1>3

LEMMA CloseSteps ==
    ASSUME IInv, TruncateConfig \/ WriteConfig \/ CloseBitmap \/ CloseData
    PROVE  IInv'
  <1> USE DEF files, arm, history
  <1>1. CASE TruncateConfig
    BY <1>1 DEF TruncateConfig, IInv, TypeOK, PcType, Shape, Object, Opened, Unhurt, Bitmaps,
                Known, Window, Span, Device, Address, Times, Cylinder
  <1>2. CASE WriteConfig
    <2>1. cfg \in ConfigType /\ Written(cfg) \in ConfigType
      BY <1>2, WrittenType DEF WriteConfig, IInv, Shape, Object
    <2>2. TypeOK'
      BY <1>2, <2>1, NoObjectOK DEF WriteConfig, IInv, TypeOK, PcType
    <2>3. CASE pc = "failing"
      <3>1. /\ config' = Written(cfg) /\ pc' = "idle" /\ cfg' = NoConfig
            /\ UNCHANGED <<bitmap, data, history>>
            /\ tail' = NoTail /\ bits' = {} /\ last_sector' = 0
        BY <1>2, <2>3, NoObjectOK DEF WriteConfig, IInv
      <3>2. Shape'
        BY <3>1 DEF Shape, Object, Opened
      <3>3. Unhurt' /\ Bitmaps'
        BY <2>3, <3>1 DEF IInv, Unhurt, Readable, Bitmaps, Known
      <3> QED BY <2>2, <3>2, <3>3 DEF IInv
    <2>4. CASE pc # "failing"
      <3>1. /\ config' = Written(cfg)
            /\ \/ pc = "creating" /\ pc' = "configured"
               \/ pc = "rewriting" /\ pc' = "saving"
            /\ UNCHANGED <<bitmap, data, cfg, bits, arm, tail, history, wrapped>>
        BY <1>2, <2>4 DEF WriteConfig
      <3>2. Shape'
        BY <3>1 DEF IInv, Shape, Object, Opened, Window, Span, Device, Address, Times,
                    Cylinder, Written
      <3>3. Unhurt' /\ Bitmaps'
        BY <3>1 DEF IInv, Unhurt, Shape, Bitmaps, Known
      <3> QED BY <2>2, <3>2, <3>3 DEF IInv
    <2> QED BY <2>3, <2>4
  <1>3. CASE CloseBitmap
    <2>1. bitmap' = SavedBitmap /\ bits \in SUBSET Words
      BY <1>3 DEF CloseBitmap, IInv, TypeOK
    <2>2. bitmap' # Absent /\ (bitmap' \in {Absent, Empty} \/ bitmap' \in SUBSET Words)
      BY <1>3, <2>1, NamesAssumption
      DEF SavedBitmap, CloseBitmap, IInv, TypeOK, Shape, Opened
    <2>3. TypeOK'
      BY <1>3, <2>2 DEF CloseBitmap, IInv, TypeOK, PcType
    <2>4. Shape'
      BY <1>3, <2>2 DEF CloseBitmap, IInv, Shape, Object, Opened, Window, Device, Address,
                        Times, Cylinder, Written
    <2>5. Unhurt' /\ Bitmaps'
      BY <1>3, <2>1 DEF CloseBitmap, SavedBitmap, IInv, Unhurt, Bitmaps, Known
    <2> QED BY <2>3, <2>4, <2>5 DEF IInv
  <1>4. CASE CloseData
    <2>1. data' \in [Bytes -> Values] /\ data' # Absent
      BY <1>4, PushedType DEF CloseData, IInv, Shape, Opened
    <2>2. TypeOK'
      BY <1>4, <2>1, NoObjectOK DEF CloseData, IInv, TypeOK, PcType
    <2>3. Shape'
      BY <1>4, NoObjectOK DEF CloseData, IInv, Shape, Object, Opened
    <2>4. Unhurt'
      <3>1. Readable(config) /\ bitmap # Absent
        BY <1>4, WrittenType DEF CloseData, IInv, Shape, Object, Opened
      <3> QED BY <1>4, <2>1, <3>1, NoObjectOK DEF CloseData, IInv, Unhurt, Readable
    <2>5. Bitmaps'
      BY <1>4, NoObjectOK DEF CloseData, IInv, Bitmaps, Known
    <2> QED BY <2>2, <2>3, <2>4, <2>5 DEF IInv
  <1> QED BY <1>1, <1>2, <1>3, <1>4

LEMMA EndSteps ==
    ASSUME IInv, Kill \/ RemoveData \/ RemoveBitmap \/ RemoveConfig \/ UNCHANGED vars
    PROVE  IInv'
  <1> USE DEF files, arm, history
  <1>1. CASE Kill
    <2>1. data' \in [Bytes -> Values] \cup {Absent} /\ (data # Absent => data' # Absent)
      <3>1. ASSUME NEW k \in 0 .. 2 * Word, data' = Reached(k), data # Absent
            PROVE  data' \in [Bytes -> Values] /\ data' # Absent
        BY <3>1, ReachedType DEF IInv
      <3>2. data = Absent => data' = Absent
        BY <1>1 DEF Kill, IInv, Shape, Reached
      <3> QED BY <1>1, <3>1, <3>2 DEF Kill
    <2>2. doubtful' \in SUBSET Words /\ doubtful \subseteq doubtful'
      BY <1>1 DEF Kill, Unsaved, IInv, TypeOK, Shape, Opened
    <2>3. TypeOK'
      BY <1>1, <2>1, <2>2, NoObjectOK DEF Kill, IInv, TypeOK, PcType
    <2>4. Shape'
      BY <1>1, NoObjectOK DEF Kill, IInv, Shape, Object, Opened
    <2>5. Unhurt'
      <3> SUFFICES ASSUME ~hurt'
                   PROVE  Readable(config) /\ data' # Absent /\ bitmap # Absent
        BY <1>1, NoObjectOK DEF Kill, IInv, Unhurt, Readable
      <3>1. pc \in {"up", "leaving", "saving", "closing"} /\ ~hurt
        BY <1>1 DEF Kill, IInv, TypeOK, PcType
      <3>2. Readable(config)
        BY <3>1, WrittenType DEF IInv, Unhurt, Shape, Object
      <3> QED BY <2>1, <3>1, <3>2 DEF IInv, Shape, Opened
    <2>6. Bitmaps'
      <3> SUFFICES ASSUME bitmap \notin {Absent, Empty}, NEW b \in Words \ doubtful'
                   PROVE  b \in bitmap <=> b \in owned
        BY <1>1, NoObjectOK DEF Kill, IInv, Bitmaps, Known
      <3>1. CASE pc \in {"up", "leaving", "rewriting", "saving"}
        BY <1>1, <2>2, <3>1 DEF Kill, Unsaved, IInv, Bitmaps, Known
      <3>2. CASE pc \notin {"up", "leaving", "rewriting", "saving"}
        BY <1>1, <2>2, <3>2 DEF Kill, IInv, Shape, Bitmaps, Known
      <3> QED BY <3>1, <3>2
    <2> QED BY <2>3, <2>4, <2>5, <2>6 DEF IInv
  <1>2. CASE RemoveData
    BY <1>2 DEF RemoveData, IInv, TypeOK, PcType, Shape, Object, Opened, Unhurt, Bitmaps, Known
  <1>3. CASE RemoveBitmap
    BY <1>3 DEF RemoveBitmap, IInv, TypeOK, PcType, Shape, Object, Opened, Unhurt, Bitmaps, Known
  <1>4. CASE RemoveConfig
    BY <1>4 DEF RemoveConfig, IInv, TypeOK, PcType, Shape, Object, Opened, Unhurt, Bitmaps, Known
  <1>5. CASE UNCHANGED vars
    <2>1. TypeOK' /\ Unhurt' /\ Bitmaps'
      BY <1>5 DEF vars, IInv, TypeOK, Unhurt, Readable, Bitmaps, Known
    <2>2. Shape'
      BY <1>5 DEF vars, IInv, Shape, Window, Span, Device, Address, Times, Cylinder, Written
    <2> QED BY <2>1, <2>2 DEF IInv
  <1> QED BY <1>1, <1>2, <1>3, <1>4, <1>5

LEMMA StepOK == IInv /\ [Next]_vars => IInv'
  <1> SUFFICES ASSUME IInv, [Next]_vars PROVE IInv'
    OBVIOUS
  <1>1. CASE (\E c \in Configs : MakeDisk(c)) \/ CreateBitmap \/ OpenData
    BY <1>1, CreateSteps
  <1>2. CASE Open \/ OpenFails
    BY <1>2, OpenSteps
  <1>3. ASSUME NEW off \in Words, NEW num \in 0 .. MaxCount,
               \/ Read(off, num) \/ Refused(off, num)
               \/ \E v \in Values : Write(off, num, v)
        PROVE  IInv'
    BY <1>3, TransferSteps
  <1>4. ASSUME NEW b \in Notified, NotifyAllocateBlocks(b) \/ NotifyDeallocateBlocks(b)
        PROVE  IInv'
    BY <1>4, NotifySteps
  <1>5. CASE TruncateConfig \/ WriteConfig \/ CloseBitmap \/ CloseData
    BY <1>5, CloseSteps
  <1>6. CASE Kill \/ RemoveData \/ RemoveBitmap \/ RemoveConfig \/ UNCHANGED vars
    BY <1>6, EndSteps
  <1> QED BY <1>1, <1>2, <1>3, <1>4, <1>5, <1>6 DEF Next

LEMMA DiskInvariant == Spec => []IInv
  BY InitOK, StepOK, PTL DEF Spec

\* Every variable keeps its type, in words of every width.
THEOREM DiskTypeCorrect == Spec => []TypeOK
  <1>1. IInv => TypeOK
    BY DEF IInv
  <1> QED BY <1>1, DiskInvariant, PTL

\* A disk that was made can be opened by every process until it is deleted,
\* unless one was killed while it rewrote the files, or the latency or the
\* stem does not survive being printed.
THEOREM DisksStayOpenable == Spec => []UnhurtDisksOpen
  <1>1. IInv => UnhurtDisksOpen
    BY DEF IInv, Unhurt, Readable, UnhurtDisksOpen
  <1> QED BY <1>1, DiskInvariant, PTL

\* The bitmap file agrees with the notifications of all processes so far, but
\* for the blocks whose bit died with its process or was made up.
THEOREM BitmapsAgree == Spec => []AllocationsRemembered
  <1>1. IInv => AllocationsRemembered
    BY DEF IInv, Bitmaps, Known, AllocationsRemembered
  <1> QED BY <1>1, DiskInvariant, PTL

\* With one head the rotation ModelAccess waits for never wraps around.
THEOREM NoRotationWraps == Spec => []WaitsLessThanARevolution
  <1>1. IInv => WaitsLessThanARevolution
    <2> SUFFICES ASSUME IInv, pc = "up", cfg.numheads = 1, NEW b \in Device(cfg)
                 PROVE  SectorHop(cfg, last_sector, Sector(cfg, b)) < cfg.blockspertrack
      BY DEF WaitsLessThanARevolution
    <2>1. cfg \in ConfigType /\ SanityCheckConfig(cfg) /\ b \in Words /\ b < cfg.numblocks
      BY DEF IInv, Shape, Object, Device
    <2>2. cfg.blockspertrack \in Nat /\ cfg.blockspertrack < Word /\ b \in Nat
          /\ cfg.numblocks \in Nat
      BY <2>1, ConfigFields, DiskAssumption DEF Words
    <2>3. Cylinder(cfg) = cfg.blockspertrack
      <3>1. 1 * cfg.blockspertrack = cfg.blockspertrack
        BY <2>2
      <3> QED BY <2>2, <3>1, DiskAssumption DEF Cylinder, Times
    <2>4. Cylinder(cfg) # 0
      BY <2>1, <2>2, SaneCylinder
    <2>5. Sector(cfg, b) \in Nat /\ Sector(cfg, b) < cfg.blockspertrack
      BY <2>1, <2>3, <2>4, BlockType, DiskAssumption DEF Words
    <2>6. last_sector \in Nat /\ last_sector < cfg.blockspertrack
      BY <2>2, <2>3, <2>4, DiskAssumption DEF IInv, TypeOK, Shape, Opened, Words
    <2>7. CASE Sector(cfg, b) >= last_sector
      BY <2>2, <2>5, <2>6, <2>7 DEF SectorHop
    <2>8. CASE Sector(cfg, b) < last_sector
      <3> DEFINE hop == last_sector - Sector(cfg, b)
      <3>1. hop \in Nat /\ hop > 0 /\ hop < cfg.blockspertrack
        BY <2>2, <2>5, <2>6, <2>8
      <3>2. Minus(cfg.blockspertrack, hop) = cfg.blockspertrack - hop
        BY <2>2, <3>1, DiskAssumption DEF Minus
      <3> QED BY <2>2, <2>5, <2>6, <2>8, <3>1, <3>2 DEF SectorHop
    <2> QED BY <2>5, <2>6, <2>7, <2>8
  <1> QED BY <1>1, DiskInvariant, PTL
-----------------------------------------------------------------------------
\* The data file changes in a write, or where stdio passes on the last one.
LEMMA DataChanges ==
    ASSUME IInv, [Next]_vars, data # Absent, data' # Absent
    PROVE  \/ \E off \in Words, num \in 0 .. MaxCount, v \in Values : Write(off, num, v)
           \/ /\ \A a \in Bytes : data'[a] \in {data[a], Visible(a)}
              /\ data' # data => pc \in Opened
  <1> USE DEF files, arm, history
  <1>1. CASE \E off \in Words, num \in 0 .. MaxCount, v \in Values : Write(off, num, v)
    BY <1>1
  <1>2. ASSUME NEW off \in Words, NEW num \in 0 .. MaxCount, Read(off, num)
        PROVE  data' \in {data, Pushed} /\ pc \in Opened
    BY <1>2 DEF Read, myread, Transfer, Opened
  <1>3. CASE Kill
    <2>1. tail # NoTail => pc \in Opened
      BY DEF IInv, Shape
    <2>2. PICK k \in 0 .. 2 * Word : data' = Reached(k)
      BY <1>3 DEF Kill
    <2>3. data \in [Bytes -> Values]
      BY DEF IInv, TypeOK
    <2>4. \A a \in Bytes : data'[a] \in {data[a], Visible(a)}
      BY <2>2, <2>3 DEF Reached, Visible
    <2>5. tail = NoTail => data' = data
      BY <2>2 DEF Reached
    <2> QED BY <2>1, <2>4, <2>5
  <1>4. ASSUME CloseData PROVE data' \in {data, Pushed} /\ pc \in Opened
    BY <1>4 DEF CloseData, Opened
  <1>5. ASSUME OpenData PROVE data' = data
    BY <1>5 DEF OpenData
  <1>6. ASSUME RemoveData PROVE FALSE
    BY <1>6 DEF RemoveData
  <1>7. ASSUME UNCHANGED vars PROVE data' = data
    BY <1>7 DEF vars
  <1>8. ASSUME \/ \E c \in Configs : MakeDisk(c)
               \/ CreateBitmap \/ Open \/ OpenFails
               \/ \E off \in Words, num \in 0 .. MaxCount : Refused(off, num)
               \/ \E b \in Notified : NotifyAllocateBlocks(b) \/ NotifyDeallocateBlocks(b)
               \/ WriteConfig \/ TruncateConfig \/ CloseBitmap
               \/ RemoveBitmap \/ RemoveConfig
        PROVE  data' = data
    BY <1>8 DEF MakeDisk, InitFromInMemoryConfig, CreateBitmap, Open, OpenFails, Refused, NotifyAllocateBlocks,
                NotifyDeallocateBlocks, TruncateConfig, WriteConfig, CloseBitmap,
                RemoveBitmap, RemoveConfig
  <1>9. \A a \in Bytes : Pushed[a] = Visible(a)
    BY PushedType DEF IInv
  <1>10. CASE data' \in {data, Pushed} /\ (data' # data => pc \in Opened)
    BY <1>9, <1>10
  <1>11. \/ data' = data \/ CloseData
         \/ \E off \in Words, num \in 0 .. MaxCount : Read(off, num)
         \/ \E off \in Words, num \in 0 .. MaxCount, v \in Values : Write(off, num, v)
         \/ Kill
    <2>1. OpenData \/ RemoveData \/ UNCHANGED vars => data' = data
      BY <1>5, <1>6, <1>7
    <2> QED BY <1>8, <2>1, Zenon DEF Next
  <1> QED BY <1>1, <1>2, <1>3, <1>4, <1>10, <1>11

LEMMA WindowStep ==
    IInv /\ [Next]_vars =>
        \A a \in Bytes :
            data # Absent /\ data' # Absent /\ data[a] # data'[a]
                => wrapped \/ wrapped' \/ a \in Window(cfg)
  <1> SUFFICES ASSUME IInv, [Next]_vars, NEW a \in Bytes,
                      data # Absent, data' # Absent, data[a] # data'[a]
               PROVE  wrapped \/ wrapped' \/ a \in Window(cfg)
    OBVIOUS
  <1>1. Visible(a) # data[a] => wrapped \/ a \in Window(cfg)
    BY DEF Visible, IInv, Shape
  <1>2. Pushed[a] = Visible(a)
    BY PushedType DEF IInv
  <1>3. CASE data'[a] \in {data[a], Visible(a)}
    BY <1>1, <1>3
  <1>4. ASSUME NEW off \in Words, NEW num \in 0 .. MaxCount, NEW v \in Values,
               Write(off, num, v), ~wrapped', num # 0
        PROVE  a \in Window(cfg)
    <2>1. Requested(off, num) \subseteq Device(cfg) /\ ~wrapped
      BY <1>4, TransferOK DEF Write
    <2>2. Requested(off, num - 1) \subseteq Device(cfg)
      BY <1>4, <2>1, RequestedType
    <2>3. (\E b \in Requested(off, num - 1) : a \in Span(cfg, b)) \/ Pushed[a] # data[a]
      BY <1>4 DEF Write
    <2> QED BY <1>1, <1>2, <2>1, <2>2, <2>3 DEF Window
  <1>5. ASSUME NEW off \in Words, NEW num \in 0 .. MaxCount, NEW v \in Values,
               Write(off, num, v), num = 0
        PROVE  FALSE
    BY <1>5 DEF Write
  <1> QED BY <1>3, <1>4, <1>5, DataChanges

\* What lies in a reused data file beside the blocks of the disk stays there,
\* unless an accepted request has wrapped around SIZE_T.
THEOREM WindowHolds == Spec => DataOutsideWindowUntouched
  <1>1. IInv /\ [Next]_vars =>
          [\A a \in Bytes :
              data # Absent /\ data' # Absent /\ data[a] # data'[a]
                  => wrapped \/ wrapped' \/ a \in Window(cfg)]_vars
    BY WindowStep
  <1> QED BY <1>1, DiskInvariant, PTL DEF Spec, DataOutsideWindowUntouched
-----------------------------------------------------------------------------
\* Blocks that fit have bytes of their own.
LEMMA SpansApart ==
    ASSUME NEW c \in ConfigType, Fits(c), NEW b \in Device(c), NEW d \in Device(c), b # d
    PROVE  Span(c, b) \cap Span(c, d) = {}
  <1> DEFINE s == c.blocksize
  <1>1. s \in Nat /\ s > 0 /\ c.numblocks \in Nat /\ c.numblocks * s <= Word
    BY ConfigFields, DiskAssumption DEF Fits, Words
  <1> HIDE DEF s
  <1>2. ASSUME NEW x \in Device(c)
        PROVE  x \in Nat /\ x * s \in Nat /\ Address(c, x) = x * s
    <2>1. x \in Nat /\ x + 1 <= c.numblocks
      BY <1>1, DiskAssumption DEF Device, Words
    <2>2. (x + 1) * s <= c.numblocks * s
      BY <1>1, <2>1
    <2>3. (x + 1) * s = x * s + s /\ x * s \in Nat
      BY <1>1, <2>1
    <2>4. x * s < Word
      BY <1>1, <2>2, <2>3, DiskAssumption
    <2> QED BY <2>1, <2>3, <2>4, DiskAssumption DEF Address, Times, s
  <1>3. ASSUME NEW x \in Nat, NEW y \in Nat, x < y
        PROVE  x * s + s <= y * s
    BY <1>1, <1>3
  <1>4. b * s + s <= d * s \/ d * s + s <= b * s
    BY <1>2, <1>3
  <1>5. ASSUME NEW x \in Device(c)
        PROVE  Span(c, x) = x * s .. x * s + s - 1
    BY <1>2, <1>5 DEF Span, s
  <1>6. b * s \in Nat /\ d * s \in Nat
    BY <1>2
  <1> QED BY <1>1, <1>4, <1>5, <1>6

\* What a write shows in the bytes, those it is about and the others.
LEMMA WriteShows ==
    ASSUME IInv, NEW off \in Words, NEW num \in 0 .. MaxCount, NEW v \in Values,
           Write(off, num, v), num # 0, NEW a \in Bytes
    PROVE  Visible(a)' = IF \E b \in Requested(off, num) : a \in Span(cfg, b)
                         THEN v ELSE Visible(a)
  <1> DEFINE last == Span(cfg, Plus(off, num - 1))
             Earlier(x) == \E d \in Requested(off, num - 1) : x \in Span(cfg, d)
  <1>1. tail' = [bytes |-> last, value |-> v]
        /\ data' = [x \in Bytes |-> IF Earlier(x) THEN v ELSE Pushed[x]]
    BY DEF Write
  <1>2. (\E b \in Requested(off, num) : a \in Span(cfg, b)) <=> Earlier(a) \/ a \in last
    BY RequestedLast
  <1>3. data # Absent
    BY TransferOK DEF Write
  <1>4. Pushed[a] = Visible(a)
    BY <1>3, PushedType DEF IInv
  <1>5. tail' # NoTail
    <2>1. last \in SUBSET Bytes
      BY TransferOK, RequestedType, BlockType DEF Write
    <2> QED BY <1>1, <2>1, NamesAssumption
  <1> HIDE DEF Earlier, last
  <1>6. CASE a \in last
    BY <1>1, <1>2, <1>5, <1>6 DEF Visible
  <1>7. CASE a \notin last
    <2>1. Visible(a)' = data'[a]
      BY <1>1, <1>7 DEF Visible
    <2> QED BY <1>1, <1>2, <1>4, <1>7, <2>1
  <1> QED BY <1>6, <1>7

\* A block that is not written keeps what it shows, since it shares no byte
\* with one that is.
LEMMA WriteElsewhere ==
    ASSUME IInv, Fits(cfg), NEW off \in Words, NEW num \in 0 .. MaxCount, NEW v \in Values,
           Write(off, num, v), ~wrapped', NEW b \in Device(cfg), b \notin Requested(off, num),
           NEW a \in Span(cfg, b)
    PROVE  Visible(a)' = Visible(a)
  <1>1. cfg \in ConfigType /\ Requested(off, num) \subseteq Device(cfg)
    BY TransferOK DEF Write
  <1>2. a \in Bytes
    BY <1>1, BlockType DEF Device
  <1>3. \A d \in Requested(off, num) : a \notin Span(cfg, d)
    BY <1>1, SpansApart
  <1>4. CASE num = 0
    BY <1>4 DEF Write, Visible
  <1> QED BY <1>2, <1>3, <1>4, WriteShows

\* A block that is written shows what was written.
LEMMA WriteHere ==
    ASSUME IInv, NEW off \in Words, NEW num \in 0 .. MaxCount, NEW v \in Values,
           Write(off, num, v), NEW b \in Requested(off, num), NEW a \in Span(cfg, b)
    PROVE  Visible(a)' = v
  <1>1. num # 0
    BY DiskAssumption DEF Requested, Words
  <1>2. a \in Bytes
    BY TransferOK, RequestedType, BlockType DEF Write
  <1> QED BY <1>1, <1>2, WriteShows

LEMMA IndependentStep ==
    ASSUME IInv, [Next]_vars, cfg # NoConfig, data # Absent, Fits(cfg),
           ~wrapped, ~wrapped', NEW b \in Device(cfg), NEW a \in Span(cfg, b),
           Visible(a)' # Visible(a)
    PROVE  \/ \E off \in Words, num \in 0 .. MaxCount, v \in Values :
                 b \in Requested(off, num) /\ Write(off, num, v)
           \/ Kill /\ tail # NoTail /\ a \in tail.bytes
  <1> USE DEF files, arm, history
  <1>1. /\ cfg \in ConfigType /\ pc \in Object \cup {"failing"} /\ a \in Bytes
        /\ data \in [Bytes -> Values]
    BY BlockType DEF IInv, Shape, TypeOK, Device
  <1>2. Pushed[a] = Visible(a)
    BY <1>1, PushedType DEF IInv
  <1>3. CASE Kill
    <2>1. PICK k \in 0 .. 2 * Word : data' = Reached(k)
      BY <1>3 DEF Kill
    <2> QED BY <1>1, <1>3, <2>1 DEF Kill, NoObject, Visible, Reached
  <1>4. ASSUME NEW off \in Words, NEW num \in 0 .. MaxCount, NEW v \in Values,
               Write(off, num, v)
        PROVE  b \in Requested(off, num)
    BY <1>4, WriteElsewhere
  <1>5. ASSUME UNCHANGED <<data, tail>> PROVE FALSE
    BY <1>5 DEF Visible
  <1>6. ASSUME NEW off \in Words, NEW num \in 0 .. MaxCount, Read(off, num) PROVE FALSE
    <2>1. (data' = Pushed /\ tail' = NoTail) \/ UNCHANGED <<data, tail>>
      BY <1>6 DEF Read, myread
    <2> QED BY <1>2, <1>5, <2>1 DEF Visible
  <1>7. CASE CloseData
    BY <1>2, <1>7 DEF CloseData, NoObject, Visible
  <1>8. CASE OpenData
    BY <1>5, <1>8 DEF OpenData
  <1>9. ASSUME pc \in {"idle", "deleting", "deletingConfig"} PROVE FALSE
    BY <1>1, <1>9 DEF Object
  <1>10. ASSUME \/ \E c \in Configs : MakeDisk(c)
                \/ Open \/ OpenFails \/ RemoveData \/ RemoveBitmap \/ RemoveConfig
         PROVE  FALSE
    BY <1>9, <1>10 DEF MakeDisk, InitFromInMemoryConfig, Open, OpenFails, RemoveData, RemoveBitmap, RemoveConfig
  <1>11. ASSUME \/ CreateBitmap
                \/ \E off \in Words, num \in 0 .. MaxCount : Refused(off, num)
                \/ \E d \in Notified : NotifyAllocateBlocks(d) \/ NotifyDeallocateBlocks(d)
                \/ TruncateConfig \/ CloseBitmap
         PROVE  FALSE
    BY <1>5, <1>11 DEF CreateBitmap, Refused, NotifyAllocateBlocks, NotifyDeallocateBlocks,
                       TruncateConfig, CloseBitmap
  <1>12. CASE UNCHANGED vars
    BY <1>5, <1>12 DEF vars
  <1>13. CASE WriteConfig
    <2>1. \/ tail' \in {tail, NoTail} /\ data' = data /\ tail = NoTail
          \/ UNCHANGED <<data, tail>>
      BY <1>13 DEF WriteConfig, NoObject, IInv, Shape, Opened
    <2> QED BY <1>5, <2>1
  <1> QED BY <1>3, <1>4, <1>6, <1>7, <1>8, <1>10, <1>11, <1>12, <1>13 DEF Next

\* If the blocks of a disk fit below the largest address, a block holds what
\* was written last to it, and a process that dies takes back at most the last
\* block it wrote.
THEOREM BlocksStayApart == Spec => BlocksAreIndependent
  <1>1. IInv /\ [Next]_vars =>
          [cfg # NoConfig /\ data # Absent /\ Fits(cfg) /\ ~wrapped /\ ~wrapped' =>
              \A b \in Device(cfg) : \A a \in Span(cfg, b) :
                  /\ Visible(a)' # Visible(a) =>
                        \/ \E off \in Words, num \in 0 .. MaxCount, v \in Values :
                              b \in Requested(off, num) /\ Write(off, num, v)
                        \/ Kill /\ tail # NoTail /\ a \in tail.bytes
                  /\ \A off \in Words, num \in 0 .. MaxCount, v \in Values :
                        b \in Requested(off, num) /\ Write(off, num, v)
                            => Visible(a)' = v]_vars
    BY IndependentStep, WriteHere
  <1> QED BY <1>1, DiskInvariant, PTL DEF Spec, BlocksAreIndependent
-----------------------------------------------------------------------------
(* The data file implements the abstract file, with no condition on the    *)
(* addresses: they may wrap, and blocks may overlap in part.               *)

LEMMA LatestIs ==
    ASSUME IInv
    PROVE  /\ data = Absent => Latest = Absent /\ tail = NoTail
           /\ data # Absent => /\ Latest = Pushed /\ Latest \in [Bytes -> Values]
                               /\ \A a \in Bytes : Latest[a] = Visible(a)
           /\ tail = NoTail => Latest = data
  <1>1. data = Absent => Latest = Absent /\ tail = NoTail
    BY DEF Latest, IInv, Shape
  <1>2. ASSUME data # Absent
        PROVE  /\ Latest = Pushed /\ Latest \in [Bytes -> Values]
               /\ \A a \in Bytes : Latest[a] = Visible(a)
    <2>1. Pushed \in [Bytes -> Values] /\ \A a \in Bytes : Pushed[a] = Visible(a)
      BY <1>2, PushedType DEF IInv
    <2> QED BY <1>2, <2>1 DEF Latest
  <1>3. tail = NoTail => Latest = data
    BY <1>1, <1>2, PushedType DEF IInv
  <1> QED BY <1>1, <1>2, <1>3

\* A write of the disk is a write of the file, in the bytes of its blocks.
LEMMA FileWrite ==
    ASSUME IInv, IInv', NEW off \in Words, NEW num \in 0 .. MaxCount, NEW v \in Values,
           Write(off, num, v), num # 0
    PROVE  File!Write(v)
  <1> DEFINE at == Address(cfg, Plus(off, num - 1))
             A(x) == \E b \in Requested(off, num) : x \in Span(cfg, b)
             Earlier(x) == \E d \in Requested(off, num - 1) : x \in Span(cfg, d)
  <1>1. /\ data # Absent /\ data' # Absent /\ data' \in [Bytes -> Values]
        /\ Latest = Pushed /\ Latest \in [Bytes -> Values] /\ Latest # Absent
        /\ cfg \in ConfigType
    BY TransferOK, WriteOK, LatestIs, NamesAssumption DEF Write
  <1>2. \A a \in Bytes : Latest'[a] = IF A(a) THEN v ELSE Latest[a]
    <2>1. Latest' = [a \in Bytes |-> Visible(a)']
      BY <1>1 DEF Latest
    <2>2. \A a \in Bytes : Latest[a] = Visible(a)
      BY <1>1, LatestIs
    <2>3. \A a \in Bytes : Visible(a)' = IF A(a) THEN v ELSE Visible(a)
      BY WriteShows
    <2> HIDE DEF A
    <2> QED BY <2>1, <2>2, <2>3
  <1>3. Latest' \in [Bytes -> Values]
    <2>1. Latest' = [a \in Bytes |-> Latest'[a]]
      BY <1>1 DEF Latest
    <2> HIDE DEF A
    <2> QED BY <1>1, <1>2, <2>1
  <1>4. at \in Bytes /\ Unit = cfg.blocksize
    <2>1. at \in Words
      BY TransferOK, RequestedType, BlockType DEF Write
    <2> QED BY <1>1, <2>1, ConfigFields, DiskAssumption DEF Unit, Words, Bytes
  <1>5. \A a \in Bytes : A(a) <=> Earlier(a) \/ a \in at .. at + cfg.blocksize - 1
    BY RequestedLast DEF Span
  <1>6. \A a \in Bytes : data'[a] = IF Earlier(a) THEN v ELSE Latest[a]
    BY <1>1 DEF Write
  <1> HIDE DEF A, Earlier, at
  <1>7. \A a \in Bytes : data'[a] \in IF a \in at .. at + Unit - 1
                                      THEN {Latest'[a], Latest[a]} ELSE {Latest'[a]}
    BY <1>2, <1>4, <1>5, <1>6
  <1>8. \A a \in Bytes : Latest'[a] \in {v, Latest[a]}
    BY <1>2
  <1> QED BY <1>1, <1>3, <1>4, <1>7, <1>8 DEF File!Write

LEMMA FileStep ==
    IInv /\ IInv' /\ [Next]_vars => [File!Next]_<<Latest, data>>
  <1> SUFFICES ASSUME IInv, IInv', [Next]_vars
               PROVE  File!Next \/ UNCHANGED <<Latest, data>>
    OBVIOUS
  <1> USE DEF files, arm, history
  <1>0. ASSUME tail' = NoTail PROVE Latest' = data'
    <2>1. data' # Absent => data' \in [Bytes -> Values]
      BY DEF IInv, TypeOK
    <2> QED BY <1>0, <2>1 DEF Latest, Visible
  <1>1. ASSUME UNCHANGED <<data, tail>> PROVE UNCHANGED <<Latest, data>>
    BY <1>1 DEF Latest, Visible
  <1>2. ASSUME data # Absent, data' = Pushed, tail' = NoTail PROVE File!Next
    <2>1. Latest' = data' /\ Latest' = Latest
      BY <1>0, <1>2, LatestIs
    <2> QED BY <2>1 DEF File!Next, File!Settle, File!Settled
  <1>3. ASSUME NEW off \in Words, NEW num \in 0 .. MaxCount, Read(off, num)
        PROVE  File!Next \/ UNCHANGED <<Latest, data>>
    BY <1>1, <1>2, <1>3, TransferOK DEF Read, myread
  <1>4. ASSUME NEW off \in Words, NEW num \in 0 .. MaxCount, NEW v \in Values,
               Write(off, num, v)
        PROVE  File!Next \/ UNCHANGED <<Latest, data>>
    <2>1. CASE num = 0
      BY <1>1, <1>4, <2>1 DEF Write
    <2>2. CASE num # 0
      BY <1>4, <2>2, FileWrite DEF File!Next
    <2> QED BY <2>1, <2>2
  <1>5. CASE Kill
    <2>1. tail' = NoTail /\ Latest' = data'
      BY <1>0, <1>5, NoObjectOK DEF Kill, IInv
    <2>2. PICK k \in 0 .. 2 * Word : data' = Reached(k)
      BY <1>5 DEF Kill
    <2>3. CASE data = Absent \/ tail = NoTail
      <3>1. tail = NoTail /\ data' = data /\ Latest = data
        BY <2>2, <2>3, LatestIs DEF Reached
      <3> QED BY <2>1, <3>1
    <2>4. CASE data # Absent /\ tail # NoTail
      <3>1. data' \in [Bytes -> Values] /\ data' # Absent
        BY <2>2, <2>4, ReachedType DEF IInv
      <3>2. \A a \in Bytes : data'[a] \in {Visible(a), data[a]}
        BY <2>2, <2>4 DEF Reached, Visible
      <3>3. Latest # Absent /\ \A a \in Bytes : Latest[a] = Visible(a)
        BY <2>4, LatestIs, NamesAssumption
      <3> QED BY <2>1, <3>1, <3>2, <3>3 DEF File!Next, File!Die, File!Settled
    <2> QED BY <2>3, <2>4
  <1>6. CASE CloseData
    BY <1>2, <1>6, NoObjectOK DEF CloseData, IInv, Shape, Opened
  <1>7. CASE OpenData
    <2>1. tail = NoTail /\ tail' = NoTail /\ Latest = data /\ Latest' = data'
      BY <1>0, <1>7, LatestIs DEF OpenData, IInv, Shape, Opened
    <2>2. CASE data = Absent
      BY <1>7, <2>1, <2>2 DEF OpenData, File!Next, File!Create, File!Settled
    <2>3. CASE data # Absent
      BY <1>1, <1>7, <2>3 DEF OpenData
    <2> QED BY <2>2, <2>3
  <1>8. CASE RemoveData
    <2>1. Latest = data /\ Latest' = data' /\ data' = Absent
      BY <1>0, <1>8, LatestIs DEF RemoveData, IInv, Shape, Opened
    <2> QED BY <2>1 DEF File!Next, File!Remove, File!Settled
  <1>9. CASE UNCHANGED vars
    BY <1>1, <1>9 DEF vars
  <1>10. ASSUME \/ \E c \in Configs : MakeDisk(c)
                \/ CreateBitmap \/ Open \/ OpenFails
                \/ \E off \in Words, num \in 0 .. MaxCount : Refused(off, num)
                \/ \E b \in Notified : NotifyAllocateBlocks(b) \/ NotifyDeallocateBlocks(b)
                \/ TruncateConfig \/ CloseBitmap
                \/ RemoveBitmap \/ RemoveConfig
         PROVE  UNCHANGED <<data, tail>>
    BY <1>10 DEF MakeDisk, CreateBitmap, Open, OpenFails, Refused, NotifyAllocateBlocks,
                 NotifyDeallocateBlocks, TruncateConfig, CloseBitmap,
                 RemoveBitmap, RemoveConfig
  <1>11. CASE WriteConfig
    <2>1. UNCHANGED <<data, tail>>
      BY <1>11 DEF WriteConfig, NoObject, IInv, Shape, Opened
    <2> QED BY <1>1, <2>1
  <1> QED BY <1>1, <1>3, <1>4, <1>5, <1>6, <1>7, <1>8, <1>9, <1>10, <1>11 DEF Next

\* For every width of SIZE_T and every set of configurations, even those whose
\* blocks overlap where an address wraps: a request changes the bytes of its
\* blocks and no other, and a death can take back, or tear, the last block at
\* most.
THEOREM DiskImplementsFile == Spec => ImplementsBlockFile
  <1>1. Init => File!Init
    <2> SUFFICES ASSUME Init PROVE File!Init
      OBVIOUS
    <2>1. Latest = data /\ data \in [Bytes -> Values] \cup {Absent}
      BY InitOK, LatestIs DEF Init, IInv, TypeOK
    <2> QED BY <2>1 DEF File!Init, File!Settled
  <1>2. IInv /\ IInv' /\ [Next]_vars => [File!Next]_<<Latest, data>>
    BY FileStep
  <1> QED BY <1>1, <1>2, DiskInvariant, PTL
          DEF Spec, ImplementsBlockFile, File!Spec, File!file
=============================================================================
