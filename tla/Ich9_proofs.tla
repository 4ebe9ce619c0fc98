------------------------------- MODULE Ich9_proofs -------------------------------
(***************************************************************************)
(* Theorems about the ICH9 tools, for every dump of 16 KiB to 32 MiB, all  *)
(* addresses, any code ich9gen may be shipped with and any number of       *)
(* failures.                                                               *)
(***************************************************************************)
EXTENDS Ich9Tools, Ich9Descriptor_proofs

-----------------------------------------------------------------------------
(* GbE regions                                                             *)

Good(g) == g \in Gbe4k /\ SummedOrShipped(g)
GoodTwice(g) == g \in Gbe8k /\ g.main = g.backup /\ Good(g.main)

LEMMA WordIsNat == \A w \in Word : w \in Nat
  BY DEF Word

LEMMA Gbe4kFields ==
  ASSUME NEW g \in Gbe4k
  PROVE  /\ g.mac \in [1 .. 3 -> Word] /\ g.rest \in Word /\ g.checkSum \in Word
         /\ Total(g) \in Nat
<1>1. g.mac \in [1 .. 3 -> Word] /\ g.rest \in Word /\ g.checkSum \in Word
  BY DEF Gbe4k
<1>2. g.mac[1] \in Nat /\ g.mac[2] \in Nat /\ g.mac[3] \in Nat /\ g.rest \in Nat
  <2>1. g.mac[1] \in Word /\ g.mac[2] \in Word /\ g.mac[3] \in Word /\ g.rest \in Word
    BY <1>1
  <2>2. QED
    BY <2>1, WordIsNat
<1>3. Total(g) \in Nat
  BY <1>2 DEF Total
<1>4. QED
  BY <1>1, <1>3

(* The 16 bit difference makes the 16 bit sum come out.                    *)
LEMMA Difference ==
  ASSUME NEW t \in Nat
  PROVE  /\ (ChecksumTotal - t) % 65536 \in Word
         /\ (t + ((ChecksumTotal - t) % 65536)) % 65536 = ChecksumTotal
  BY DEF ChecksumTotal, Word

LEMMA FixedIsGood ==
  ASSUME NEW g \in Gbe4k
  PROVE  Good(Fixed(g)) /\ Summed(Fixed(g)) /\ Fixed(g).mac = g.mac
<1>1. Checksum(g) \in Word
  BY Difference, Gbe4kFields DEF Checksum
<1>2. /\ Fixed(g) \in Gbe4k /\ Fixed(g).mac = g.mac /\ Fixed(g).rest = g.rest
      /\ Fixed(g).checkSum = Checksum(g)
  BY <1>1 DEF Fixed, Gbe4k
<1>3. Total(Fixed(g)) = Total(g)
  BY <1>2 DEF Total
<1>4. Summed(Fixed(g))
  <2>1. Total(g) \in Nat
    BY Gbe4kFields
  <2>2. (Total(g) + Checksum(g)) % 65536 = ChecksumTotal
    BY <2>1, Difference DEF Checksum, ChecksumTotal
  <2>3. QED
    BY <1>2, <1>3, <2>2 DEF Summed
<1>5. QED
  BY <1>2, <1>4 DEF Good, SummedOrShipped

LEMMA TwiceIsGood ==
  ASSUME NEW g, Good(g)
  PROVE  GoodTwice(Twice(g)) /\ Twice(g).backup = g
  BY DEF GoodTwice, Twice, Gbe8k, Good

(* A factory GbE region, whatever its main half, is freed into one whose   *)
(* halves agree and sum to 0xBABA (deblobbedGbeStructFromFactory).         *)
THEOREM DeblobbedGbeGood ==
  ASSUME NEW g \in Gbe8k
  PROVE  GoodTwice(DeblobbedGbe(g)) /\ Summed(DeblobbedGbe(g).main)
<1> DEFINE padded == [g.backup EXCEPT !.padded = TRUE]
<1>1. padded \in Gbe4k
  BY DEF Gbe8k, Gbe4k
<1>2. DeblobbedGbe(g) = Twice(Fixed(padded))
  BY DEF DeblobbedGbe
<1> HIDE DEF padded
<1>3. Good(Fixed(padded)) /\ Summed(Fixed(padded))
  BY <1>1, FixedIsGood
<1>4. DeblobbedGbe(g).main = Fixed(padded)
  BY <1>2 DEF Twice
<1>5. QED
  BY <1>2, <1>3, <1>4, TwiceIsGood

LEMMA WordOfBytes ==
  ASSUME NEW low \in 0 .. 255, NEW high \in 0 .. 255
  PROVE  low + 256 * high \in Word
  BY DEF Word

LEMMA MacType ==
  ASSUME NEW a, Accepted(a)
  PROVE  MacOf(a) \in [1 .. 3 -> Word]
<1>1. \A i \in 0 .. 5 : Byte(a, i) \in 0 .. 255
  <2>1. ASSUME NEW i \in 0 .. 5 PROVE 3 * i + 1 \in Digits /\ 3 * i + 2 \in Digits
    BY DEF Digits
  <2>2. QED
    BY <2>1 DEF Byte, Accepted, Digit
<1>2. ASSUME NEW w \in 1 .. 3
      PROVE  Byte(a, 2 * w - 2) + 256 * Byte(a, 2 * w - 1) \in Word
  <2>1. Byte(a, 2 * w - 2) \in 0 .. 255 /\ Byte(a, 2 * w - 1) \in 0 .. 255
    BY <1>1
  <2>2. QED
    BY <2>1, WordOfBytes
<1>3. QED
  BY <1>2 DEF MacOf

LEMMA WithAddressGood ==
  ASSUME NEW g \in Gbe4k, NEW mac \in [1 .. 3 -> Word]
  PROVE  /\ Good(WithAddress(g, mac)) /\ Summed(WithAddress(g, mac))
         /\ WithAddress(g, mac).mac = mac
<1>1. [g EXCEPT !.mac = mac] \in Gbe4k /\ [g EXCEPT !.mac = mac].mac = mac
  BY DEF Gbe4k
<1>2. QED
  BY <1>1, FixedIsGood DEF WithAddress

-----------------------------------------------------------------------------
(* Lists of files                                                          *)

LEMMA HeadTail ==
  ASSUME NEW S, NEW s \in Seq(S), s # <<>>
  PROVE  /\ Head(s) \in S /\ Tail(s) \in Seq(S)
         /\ Range(s) = {Head(s)} \cup Range(Tail(s))
<1>1. Len(s) \in Nat \ {0} /\ DOMAIN s = 1 .. Len(s) /\ Head(s) = s[1]
  OBVIOUS
<1>2. Tail(s) \in Seq(S) /\ DOMAIN Tail(s) = 1 .. (Len(s) - 1)
  OBVIOUS
<1>3. \A i \in DOMAIN Tail(s) : Tail(s)[i] = s[i + 1] /\ i + 1 \in DOMAIN s
  BY <1>1, <1>2
<1>4. ASSUME NEW x \in Range(s)
      PROVE  x \in {Head(s)} \cup Range(Tail(s))
  <2>1. PICK i \in DOMAIN s : x = s[i]
    BY DEF Range
  <2>2. CASE i = 1
    BY <1>1, <2>1, <2>2
  <2>3. CASE i # 1
    <3>1. i - 1 \in DOMAIN Tail(s) /\ Tail(s)[i - 1] = x
      BY <1>1, <1>2, <1>3, <2>1, <2>3
    <3>2. QED
      BY <3>1 DEF Range
  <2>4. QED
    BY <2>2, <2>3
<1>5. ASSUME NEW x \in Range(Tail(s))
      PROVE  x \in Range(s)
  <2>1. PICK i \in DOMAIN Tail(s) : x = Tail(s)[i]
    BY DEF Range
  <2>2. QED
    BY <1>3, <2>1 DEF Range
<1>6. Head(s) \in Range(s) /\ Head(s) \in S
  BY <1>1 DEF Range
<1>7. QED
  BY <1>2, <1>4, <1>5, <1>6

LEMMA RangeType ==
  ASSUME NEW S, NEW s \in Seq(S)
  PROVE  Range(s) \subseteq S
  BY DEF Range

LEMMA RangeEmpty ==
  Range(<<>>) = {}
  BY DEF Range

LEMMA RangeTwo ==
  ASSUME NEW S, NEW a \in S, NEW b \in S
  PROVE  Range(<<a, b>>) = {a, b} /\ <<a, b>> \in Seq(S)
  BY DEF Range

LEMMA RangeThree ==
  ASSUME NEW S, NEW a \in S, NEW b \in S, NEW c \in S
  PROVE  Range(<<a, b, c>>) = {a, b, c} /\ <<a, b, c>> \in Seq(S)
  BY DEF Range

LEMMA RangeImages ==
  /\ Images \in Seq(Binary) /\ Images # <<>>
  /\ Range(Images) = DOMAIN BlocksOf
<1>1. Images \in Seq(Binary) /\ Images # <<>> /\ DOMAIN Images = 1 .. 6
  BY DEF Images, Binary
<1>2. /\ Images[1] = "ich9fdgbe_4m" /\ Images[2] = "ich9fdgbe_8m"
      /\ Images[3] = "ich9fdgbe_16m" /\ Images[4] = "ich9fdnogbe_4m"
      /\ Images[5] = "ich9fdnogbe_8m" /\ Images[6] = "ich9fdnogbe_16m"
  BY DEF Images
<1>3. DOMAIN BlocksOf = {"ich9fdgbe_4m", "ich9fdgbe_8m", "ich9fdgbe_16m",
                         "ich9fdnogbe_4m", "ich9fdnogbe_8m", "ich9fdnogbe_16m"}
  BY DEF BlocksOf
<1>4. 1 .. 6 = {1, 2, 3, 4, 5, 6}
  OBVIOUS
<1>5. QED
  BY <1>1, <1>2, <1>3, <1>4 DEF Range

LEMMA RangeWithCode ==
  /\ <<"mkgbe">> \o Images \in Seq(Binary \cup Code)
  /\ <<"mkgbe">> \o Images # <<>>
  /\ Range(<<"mkgbe">> \o Images) = {"mkgbe"} \cup DOMAIN BlocksOf
<1> DEFINE s == <<"mkgbe">> \o Images
<1>1. <<"mkgbe">> \in Seq(Binary \cup Code) /\ Images \in Seq(Binary \cup Code)
  BY RangeImages DEF Code
<1>2. s \in Seq(Binary \cup Code) /\ s # <<>>
  BY <1>1
<1>3. Head(s) = "mkgbe" /\ Tail(s) = Images
  BY <1>1
<1> HIDE DEF s
<1>4. Range(s) = {"mkgbe"} \cup DOMAIN BlocksOf
  BY <1>2, <1>3, HeadTail, RangeImages
<1>5. QED
  BY <1>2, <1>4 DEF s

-----------------------------------------------------------------------------
(* The invariant                                                           *)

(* The files the running tool was started to write.                        *)
JobFiles ==
  CASE tool = "ich9deblob" ->
         IF DefinesGbeRegion(factory.fd)
           THEN {"deblobbed_descriptor", "mkdescriptor", "mkgbe"}
           ELSE {"deblobbed_4kdescriptor", "mkdescriptor"}
    [] tool = "demefactory" -> {"demefactory_4kdescriptor", "mkdescriptor"}
    [] tool = "ich9gen" ->
         DOMAIN BlocksOf \cup IF address = None THEN {} ELSE {"mkgbe"}

(* A running tool has what it reads, and the files it is through with are  *)
(* what it writes.                                                         *)
JobInv ==
  ~Idle =>
    /\ outcome = "running"
    /\ tool \in {"ich9deblob", "demefactory"} => factory \in Rom
    /\ tool = "ich9gen" => address = None \/ Accepted(address)
    /\ Range(todo) \subseteq JobFiles
    /\ \A name \in JobFiles \ Range(todo) : file[name] = Content(name)

(* What the user may be told to place is freed and summed, and will not be *)
(* written again before it is withdrawn.                                   *)
InvitedInv ==
  /\ "mkdescriptor" \in invited => Freed(file["mkdescriptor"])
  /\ "mkgbe" \in invited => Good(file["mkgbe"])
  /\ invited # {} => Range(todo) \cap Code = {}

BuiltInv == Freed(built.dump) /\ Good(built.gbe)

IInv ==
  /\ TypeOK /\ ImagesSound /\ GbeSound /\ AddressUsed /\ Recreates
  /\ todo \in Seq(Binary \cup Code)
  /\ JobInv /\ InvitedInv /\ BuiltInv

(* Each file of a job is well formed, sound and, as code, may be placed.   *)
ContentOK(name) ==
  /\ Content(name) \in FileContent(name)
  /\ name \in Binary \ {"demefactory_4kdescriptor"} =>
       Sound(Content(name).fd, Content(name).blocks, name \in WithGbe)
  /\ name \in WithGbe => GoodTwice(Content(name).gbe)
  /\ name = "mkdescriptor" /\ tool = "ich9deblob" => Freed(Content(name))
  /\ name = "mkgbe" => Good(Content(name))

LEMMA RomFields ==
  ASSUME NEW rom \in Rom
  PROVE  /\ AtStart(rom.fd) /\ rom.fd \in Descriptor
         /\ rom.blocks \in Blocks /\ rom.gbe \in Gbe8k
  BY RomAssumption DEF RomImage, AtStart, Blocks

LEMMA FactoryContent ==
  ASSUME factory \in Rom
  PROVE  /\ FactoryFd \in Descriptor /\ Freed(FactoryFd)
         /\ Sound(FactoryFd, factory.blocks, DefinesGbeRegion(factory.fd))
         /\ FactoryGbe \in Gbe8k /\ GoodTwice(FactoryGbe) /\ Good(FactoryGbe.backup)
         /\ Demed(factory.fd) \in Descriptor
<1>1. /\ AtStart(factory.fd) /\ factory.fd \in Descriptor
      /\ factory.blocks \in Blocks /\ factory.gbe \in Gbe8k
  BY RomFields
<1>2. /\ Freed(FactoryFd)
      /\ Sound(FactoryFd, factory.blocks, DefinesGbeRegion(factory.fd))
  BY <1>1, DeblobbedSound DEF FactoryFd
<1>3. GoodTwice(FactoryGbe)
  BY <1>1, DeblobbedGbeGood DEF FactoryGbe
<1>4. Demed(factory.fd) \in Descriptor
  BY <1>1, ClosedOutByDemefactory DEF ClosedOut
<1>5. QED
  BY <1>2, <1>3, <1>4 DEF Freed, AtStart, GoodTwice

LEMMA GeneratedGbeGood ==
  ASSUME BuiltInv, address = None \/ Accepted(address)
  PROVE  /\ GoodTwice(GeneratedGbe) /\ Good(GeneratedGbe.backup)
         /\ address # None => /\ GeneratedGbe.backup.mac = MacOf(address)
                              /\ Summed(GeneratedGbe.backup)
<1>1. CASE address = None
  BY <1>1, TwiceIsGood DEF BuiltInv, GeneratedGbe
<1>2. CASE address # None
  <2>1. /\ Good(WithAddress(built.gbe, MacOf(address)))
        /\ Summed(WithAddress(built.gbe, MacOf(address)))
        /\ WithAddress(built.gbe, MacOf(address)).mac = MacOf(address)
    BY <1>2, MacType, WithAddressGood DEF BuiltInv, Good
  <2>2. GeneratedGbe = Twice(WithAddress(built.gbe, MacOf(address)))
    BY <1>2 DEF GeneratedGbe
  <2>3. QED
    BY <2>1, <2>2, TwiceIsGood
<1>3. QED
  BY <1>1, <1>2

LEMMA BlocksOfDomain ==
  /\ DOMAIN BlocksOf \subseteq Binary
  /\ DOMAIN BlocksOf \cap {"deblobbed_descriptor", "deblobbed_4kdescriptor",
                           "demefactory_4kdescriptor", "mkdescriptor", "mkgbe"} = {}
  /\ \A name \in DOMAIN BlocksOf : BlocksOf[name] \in Blocks
  BY DEF BlocksOf, Binary, Blocks

LEMMA ContentCases ==
  /\ Content("deblobbed_descriptor") = Image(FactoryFd, FactoryGbe, factory.blocks)
  /\ Content("deblobbed_4kdescriptor") = Image(FactoryFd, None, factory.blocks)
  /\ Content("demefactory_4kdescriptor") = Image(Demed(factory.fd), None, factory.blocks)
  /\ Content("mkdescriptor") = DescriptorCode
  /\ Content("mkgbe") = GbeCode
  /\ \A name \in DOMAIN BlocksOf :
       Content(name) = Image(Generated(built.dump, BlocksOf[name], name \in WithGbe),
                             IF name \in WithGbe THEN GeneratedGbe ELSE None,
                             BlocksOf[name])
<1>1. Content("deblobbed_descriptor") = Image(FactoryFd, FactoryGbe, factory.blocks)
  BY BlocksOfDomain DEF Content
<1>2. Content("deblobbed_4kdescriptor") = Image(FactoryFd, None, factory.blocks)
  BY BlocksOfDomain DEF Content
<1>3. Content("demefactory_4kdescriptor") = Image(Demed(factory.fd), None, factory.blocks)
  BY BlocksOfDomain DEF Content
<1>4. Content("mkdescriptor") = DescriptorCode
  BY BlocksOfDomain DEF Content
<1>5. Content("mkgbe") = GbeCode
  BY BlocksOfDomain DEF Content
<1>6. ASSUME NEW name \in DOMAIN BlocksOf
      PROVE  Content(name) = Image(Generated(built.dump, BlocksOf[name], name \in WithGbe),
                                   IF name \in WithGbe THEN GeneratedGbe ELSE None,
                                   BlocksOf[name])
  BY BlocksOfDomain DEF Content
<1>7. QED
  BY <1>1, <1>2, <1>3, <1>4, <1>5, <1>6

LEMMA FileContentCases ==
  /\ Descriptor \subseteq FileContent("mkdescriptor")
  /\ Gbe4k \subseteq FileContent("mkgbe")
  /\ \A name \in WithGbe :
       [fd : Descriptor, gbe : Gbe8k, blocks : 4 .. 8192] \subseteq FileContent(name)
  /\ \A name \in Binary \ WithGbe :
       [fd : Descriptor, gbe : {None}, blocks : 4 .. 8192] \subseteq FileContent(name)
<1>1. Descriptor \subseteq FileContent("mkdescriptor")
  BY DEF FileContent, WithGbe, Binary
<1>2. Gbe4k \subseteq FileContent("mkgbe")
  BY DEF FileContent, WithGbe, Binary
<1>3. ASSUME NEW name \in WithGbe
      PROVE  [fd : Descriptor, gbe : Gbe8k, blocks : 4 .. 8192] \subseteq FileContent(name)
  <2>1. name # "mkdescriptor" /\ name # "mkgbe"
    BY DEF WithGbe
  <2>2. QED
    BY <2>1 DEF FileContent
<1>4. ASSUME NEW name \in Binary \ WithGbe
      PROVE  [fd : Descriptor, gbe : {None}, blocks : 4 .. 8192] \subseteq FileContent(name)
  <2>1. name # "mkdescriptor" /\ name # "mkgbe"
    BY DEF Binary
  <2>2. QED
    BY <2>1 DEF FileContent
<1>5. QED
  BY <1>1, <1>2, <1>3, <1>4

LEMMA JobContent ==
  ASSUME BuiltInv, tool \in {"ich9deblob", "demefactory", "ich9gen"},
         tool \in {"ich9deblob", "demefactory"} => factory \in Rom,
         tool = "ich9gen" => address = None \/ Accepted(address),
         NEW name \in JobFiles
  PROVE  ContentOK(name)
<1>1. CASE tool = "ich9deblob" /\ DefinesGbeRegion(factory.fd)
  <2>1. name \in {"deblobbed_descriptor", "mkdescriptor", "mkgbe"}
    BY <1>1 DEF JobFiles
  <2>2. CASE name = "deblobbed_descriptor"
    <3>1. Content(name) = Image(FactoryFd, FactoryGbe, factory.blocks)
      BY <2>2, ContentCases
    <3>2. factory.blocks \in 4 .. 8192
      BY <1>1, RomFields DEF Blocks
    <3>3. Content(name) \in FileContent(name)
      BY <1>1, <2>2, <3>1, <3>2, FactoryContent DEF FileContent, Image, WithGbe
    <3>4. name \in WithGbe /\ name # "mkdescriptor" /\ name # "mkgbe"
      BY <2>2 DEF WithGbe
    <3>5. Content(name).fd = FactoryFd /\ Content(name).blocks = factory.blocks
          /\ Content(name).gbe = FactoryGbe
      BY <3>1 DEF Image
    <3>6. Sound(Content(name).fd, Content(name).blocks, TRUE)
      BY <1>1, <3>5, FactoryContent
    <3>7. QED
      BY <1>1, <3>3, <3>4, <3>5, <3>6, FactoryContent DEF ContentOK
  <2>3. CASE name = "mkdescriptor"
    <3>1. Content(name) = FactoryFd
      BY <1>1, <2>3, ContentCases DEF DescriptorCode
    <3>2. Content(name) \in FileContent(name)
      BY <1>1, <2>3, <3>1, FactoryContent, FileContentCases
    <3>3. name \notin Binary /\ name \notin WithGbe /\ name # "mkgbe"
      BY <2>3 DEF Binary, WithGbe
    <3>4. Freed(Content(name))
      BY <1>1, <3>1, FactoryContent
    <3>5. QED
      BY <3>2, <3>3, <3>4 DEF ContentOK
  <2>4. CASE name = "mkgbe"
    <3>1. Content(name) = FactoryGbe.backup
      BY <1>1, <2>4, ContentCases DEF GbeCode
    <3>2. QED
      BY <1>1, <2>4, <3>1, FactoryContent DEF ContentOK, FileContent, Binary, WithGbe, Good
  <2>5. QED
    BY <2>1, <2>2, <2>3, <2>4
<1>2. CASE tool = "ich9deblob" /\ ~DefinesGbeRegion(factory.fd)
  <2>1. name \in {"deblobbed_4kdescriptor", "mkdescriptor"}
    BY <1>2 DEF JobFiles
  <2>2. CASE name = "deblobbed_4kdescriptor"
    <3>1. Content(name) = Image(FactoryFd, None, factory.blocks)
      BY <2>2, ContentCases
    <3>2. factory.blocks \in 4 .. 8192
      BY <1>2, RomFields DEF Blocks
    <3>3. Content(name) \in FileContent(name)
      BY <1>2, <2>2, <3>1, <3>2, FactoryContent DEF FileContent, Image, WithGbe, Binary
    <3>4. name \notin WithGbe /\ name # "mkdescriptor" /\ name # "mkgbe"
      BY <2>2 DEF WithGbe
    <3>5. Content(name).fd = FactoryFd /\ Content(name).blocks = factory.blocks
      BY <3>1 DEF Image
    <3>6. Sound(Content(name).fd, Content(name).blocks, FALSE)
      BY <1>2, <3>5, FactoryContent DEF Sound
    <3>7. QED
      BY <3>3, <3>4, <3>5, <3>6 DEF ContentOK, Sound
  <2>3. CASE name = "mkdescriptor"
    <3>1. Content(name) = FactoryFd
      BY <1>2, <2>3, ContentCases DEF DescriptorCode
    <3>2. Content(name) \in FileContent(name)
      BY <1>2, <2>3, <3>1, FactoryContent, FileContentCases
    <3>3. name \notin Binary /\ name \notin WithGbe /\ name # "mkgbe"
      BY <2>3 DEF Binary, WithGbe
    <3>4. Freed(Content(name))
      BY <1>2, <3>1, FactoryContent
    <3>5. QED
      BY <3>2, <3>3, <3>4 DEF ContentOK
  <2>4. QED
    BY <2>1, <2>2, <2>3
<1>3. CASE tool = "demefactory"
  <2>1. name \in {"demefactory_4kdescriptor", "mkdescriptor"}
    BY <1>3 DEF JobFiles
  <2>2. CASE name = "demefactory_4kdescriptor"
    <3>1. Content(name) = Image(Demed(factory.fd), None, factory.blocks)
      BY <2>2, ContentCases
    <3>2. factory.blocks \in 4 .. 8192
      BY <1>3, RomFields DEF Blocks
    <3>3. Content(name) \in FileContent(name)
      BY <1>3, <2>2, <3>1, <3>2, FactoryContent DEF FileContent, Image, WithGbe, Binary
    <3>4. QED
      BY <2>2, <3>3 DEF ContentOK, WithGbe
  <2>3. CASE name = "mkdescriptor"
    <3>1. Content(name) = Demed(factory.fd)
      BY <1>3, <2>3, ContentCases DEF DescriptorCode
    <3>2. QED
      BY <1>3, <2>3, <3>1, FactoryContent DEF ContentOK, FileContent, Binary, WithGbe
  <2>4. QED
    BY <2>1, <2>2, <2>3
<1>4. CASE tool = "ich9gen" /\ name = "mkgbe"
  <2>1. Content(name) = GeneratedGbe.backup
    BY <1>4, ContentCases DEF GbeCode
  <2>2. QED
    BY <1>4, <2>1, GeneratedGbeGood DEF ContentOK, FileContent, Binary, WithGbe, Good
<1>5. CASE tool = "ich9gen" /\ name # "mkgbe"
  <2>1. name \in DOMAIN BlocksOf
    BY <1>5 DEF JobFiles
  <2>2. BlocksOf[name] \in Blocks /\ BlocksOf[name] \in 4 .. 8192
        /\ name \in Binary /\ name # "demefactory_4kdescriptor"
        /\ name # "mkdescriptor" /\ name # "mkgbe"
    BY <2>1, BlocksOfDomain DEF Blocks
  <2>3. Content(name) =
          Image(Generated(built.dump, BlocksOf[name], name \in WithGbe),
                IF name \in WithGbe THEN GeneratedGbe ELSE None, BlocksOf[name])
    BY <2>1, ContentCases
  <2>5. /\ Generated(built.dump, BlocksOf[name], name \in WithGbe) \in Descriptor
        /\ Sound(Generated(built.dump, BlocksOf[name], name \in WithGbe),
                 BlocksOf[name], name \in WithGbe)
    <3> DEFINE has == name \in WithGbe
    <3>1. has \in BOOLEAN
      OBVIOUS
    <3> HIDE DEF has
    <3>2. /\ Generated(built.dump, BlocksOf[name], has) \in Descriptor
          /\ Sound(Generated(built.dump, BlocksOf[name], has), BlocksOf[name], has)
      BY <2>2, <3>1, GeneratedSound DEF BuiltInv, Freed, AtStart
    <3>3. QED
      BY <3>2 DEF has
  <2>6. GoodTwice(GeneratedGbe)
    BY <1>5, GeneratedGbeGood
  <2>7. Content(name) \in FileContent(name)
    <3> DEFINE fd == Generated(built.dump, BlocksOf[name], name \in WithGbe)
    <3>0. fd \in Descriptor
      BY <2>5
    <3> HIDE DEF fd
    <3>1. CASE name \in WithGbe
      <4>1. Content(name) = [fd |-> fd, gbe |-> GeneratedGbe, blocks |-> BlocksOf[name]]
        BY <2>3, <3>1 DEF Image, fd
      <4>2. Content(name) \in [fd : Descriptor, gbe : Gbe8k, blocks : 4 .. 8192]
        BY <2>2, <2>6, <3>0, <4>1 DEF GoodTwice
      <4>3. QED
        BY <2>2, <3>1, <4>2 DEF FileContent
    <3>2. CASE name \notin WithGbe
      <4>1. Content(name) = [fd |-> fd, gbe |-> None, blocks |-> BlocksOf[name]]
        BY <2>3, <3>2 DEF Image, fd
      <4>2. Content(name) \in [fd : Descriptor, gbe : {None}, blocks : 4 .. 8192]
        BY <2>2, <3>0, <4>1
      <4>3. QED
        BY <2>2, <3>2, <4>2 DEF FileContent
    <3>3. QED
      BY <3>1, <3>2
  <2>8. QED
    BY <1>5, <2>2, <2>3, <2>5, <2>6, <2>7 DEF ContentOK, Image
<1>6. QED
  BY <1>1, <1>2, <1>3, <1>4, <1>5

-----------------------------------------------------------------------------
(* The invariant is inductive                                              *)

LEMMA InitInv ==
  Init => IInv
<1> SUFFICES ASSUME Init PROVE IInv
  OBVIOUS
<1>1. \A name \in Binary \cup Code : file[name] = Missing
  BY DEF Init
<1>2. \A name \in Binary \cup Code : Missing \in FileContent(name)
  BY DEF FileContent
<1>3. built \in [dump : Descriptor, gbe : Gbe4k] /\ BuiltInv
  BY DefaultAssumption DEF Init, BuiltInv, Freed, AtStart, Good, SummedOrShipped
<1>4. todo \in Seq(Binary \cup Code) /\ Range(todo) = {}
  BY RangeEmpty DEF Init
<1>5. TypeOK
  BY <1>1, <1>2, <1>3, <1>4, FaultAssumption DEF Init, TypeOK
<1>6. ImagesSound /\ GbeSound
  BY <1>1 DEF ImagesSound, GbeSound, ImagesFree, Images12k, WithGbe, Binary
<1>7. AddressUsed /\ Recreates /\ JobInv /\ InvitedInv
  BY DEF Init, AddressUsed, Recreates, JobInv, InvitedInv, Idle
<1>8. QED
  BY <1>3, <1>4, <1>5, <1>6, <1>7 DEF IInv

(* A tool starts: nothing is written yet, and all its files are to do.     *)
LEMMA RunInv ==
  ASSUME IInv, NEW name \in {"ich9deblob", "demefactory", "ich9gen"},
         NEW argument \in Address \cup {None}, NEW files \in Seq(Binary \cup Code),
         Run(name, argument, files),
         files # <<>> => /\ Range(files) = JobFiles'
                         /\ name # "ich9gen" => factory \in Rom
                         /\ name = "ich9gen" => argument = None \/ Accepted(argument)
  PROVE  IInv'
<1> USE DEF Run
<1>1. Range(todo') \subseteq Binary \cup Code
  BY RangeType
<1>2. outcome' \in {"failed", "running"}
  OBVIOUS
<1>3. TypeOK'
  BY <1>1, <1>2 DEF IInv, TypeOK, Code
<1>4. ImagesSound' /\ GbeSound'
  BY DEF IInv, ImagesSound, GbeSound, ImagesFree, Images12k
<1>5. AddressUsed' /\ Recreates'
  BY <1>2 DEF AddressUsed, Recreates
<1>6. JobInv'
  BY DEF JobInv, Idle
<1>7. InvitedInv' /\ BuiltInv'
  BY DEF IInv, InvitedInv, BuiltInv
<1>8. QED
  BY <1>3, <1>4, <1>5, <1>6, <1>7 DEF IInv

LEMMA Ich9deblobInv ==
  ASSUME IInv, Ich9deblob
  PROVE  IInv'
<1> DEFINE files == CASE factory = Missing -> <<>>
                      [] factory # Missing /\ ~DefinesGbeRegion(factory.fd) ->
                           <<"deblobbed_4kdescriptor", "mkdescriptor">>
                      [] factory # Missing /\ DefinesGbeRegion(factory.fd) ->
                           IF Readable
                             THEN <<"deblobbed_descriptor", "mkdescriptor", "mkgbe">>
                             ELSE <<>>
<1>1. Run("ich9deblob", None, files)
  BY DEF Ich9deblob
<1>2. tool' = "ich9deblob" /\ factory' = factory
  BY <1>1 DEF Run
<1>3. files \in Seq(Binary \cup Code)
      /\ (files # <<>> => Range(files) = JobFiles' /\ factory \in Rom)
  <2>1. CASE factory = Missing
    BY <2>1
  <2>2. CASE factory # Missing /\ ~DefinesGbeRegion(factory.fd)
    <3>1. files = <<"deblobbed_4kdescriptor", "mkdescriptor">>
      BY <2>2
    <3>2. JobFiles' = {"deblobbed_4kdescriptor", "mkdescriptor"}
      BY <1>2, <2>2 DEF JobFiles
    <3>3. /\ "deblobbed_4kdescriptor" \in Binary \cup Code
          /\ "mkdescriptor" \in Binary \cup Code
      BY DEF Binary, Code
    <3>4. /\ Range(<<"deblobbed_4kdescriptor", "mkdescriptor">>) =
              {"deblobbed_4kdescriptor", "mkdescriptor"}
          /\ <<"deblobbed_4kdescriptor", "mkdescriptor">> \in Seq(Binary \cup Code)
      BY <3>3, RangeTwo
    <3> HIDE DEF files
    <3>5. QED
      BY <2>2, <3>1, <3>2, <3>4 DEF IInv, TypeOK
  <2>3. CASE factory # Missing /\ DefinesGbeRegion(factory.fd)
    <3>1. CASE Readable
      <4>1. files = <<"deblobbed_descriptor", "mkdescriptor", "mkgbe">>
        BY <2>3, <3>1
      <4>2. JobFiles' = {"deblobbed_descriptor", "mkdescriptor", "mkgbe"}
        BY <1>2, <2>3 DEF JobFiles
      <4>3. /\ "deblobbed_descriptor" \in Binary \cup Code
            /\ "mkdescriptor" \in Binary \cup Code
            /\ "mkgbe" \in Binary \cup Code
        BY DEF Binary, Code
      <4>4. /\ Range(<<"deblobbed_descriptor", "mkdescriptor", "mkgbe">>) =
                {"deblobbed_descriptor", "mkdescriptor", "mkgbe"}
            /\ <<"deblobbed_descriptor", "mkdescriptor", "mkgbe">> \in Seq(Binary \cup Code)
        BY <4>3, RangeThree
      <4> HIDE DEF files
      <4>5. QED
        BY <2>3, <4>1, <4>2, <4>4 DEF IInv, TypeOK
    <3>2. CASE ~Readable
      BY <2>3, <3>2
    <3>3. QED
      BY <3>1, <3>2
  <2>4. QED
    BY <2>1, <2>2, <2>3
<1> HIDE DEF files
<1>4. QED
  BY <1>1, <1>3, RunInv

LEMMA DemefactoryInv ==
  ASSUME IInv, Demefactory
  PROVE  IInv'
<1> DEFINE files == IF factory = Missing THEN <<>>
                    ELSE <<"demefactory_4kdescriptor", "mkdescriptor">>
<1>1. Run("demefactory", None, files)
  BY DEF Demefactory
<1>2. tool' = "demefactory" /\ factory' = factory
  BY <1>1 DEF Run
<1>3. files \in Seq(Binary \cup Code)
      /\ (files # <<>> => Range(files) = JobFiles' /\ factory \in Rom)
  <2>1. CASE factory = Missing
    BY <2>1
  <2>2. CASE factory # Missing
    <3>1. files = <<"demefactory_4kdescriptor", "mkdescriptor">>
      BY <2>2
    <3>2. JobFiles' = {"demefactory_4kdescriptor", "mkdescriptor"}
      BY <1>2 DEF JobFiles
    <3>3. /\ "demefactory_4kdescriptor" \in Binary \cup Code
          /\ "mkdescriptor" \in Binary \cup Code
      BY DEF Binary, Code
    <3>4. /\ Range(<<"demefactory_4kdescriptor", "mkdescriptor">>) =
              {"demefactory_4kdescriptor", "mkdescriptor"}
          /\ <<"demefactory_4kdescriptor", "mkdescriptor">> \in Seq(Binary \cup Code)
      BY <3>3, RangeTwo
    <3> HIDE DEF files
    <3>5. QED
      BY <2>2, <3>1, <3>2, <3>4 DEF IInv, TypeOK
  <2>3. QED
    BY <2>1, <2>2
<1> HIDE DEF files
<1>4. QED
  BY <1>1, <1>3, RunInv

LEMMA Ich9genInv ==
  ASSUME IInv, NEW a \in Address \cup {None}, Ich9gen(a)
  PROVE  IInv'
<1> DEFINE files == CASE a = None -> Images
                      [] a # None /\ Accepted(a) -> <<"mkgbe">> \o Images
                      [] a # None /\ ~Accepted(a) -> <<>>
<1>1. Run("ich9gen", a, files)
  BY DEF Ich9gen
<1>2. tool' = "ich9gen" /\ address' = a
  BY <1>1 DEF Run
<1>3. files \in Seq(Binary \cup Code)
      /\ (files # <<>> => Range(files) = JobFiles' /\ (a = None \/ Accepted(a)))
  <2>1. CASE a = None
    <3>1. files = Images /\ Images \in Seq(Binary \cup Code)
      BY <2>1, RangeImages
    <3>2. JobFiles' = DOMAIN BlocksOf
      BY <1>2, <2>1 DEF JobFiles
    <3> HIDE DEF files
    <3>3. QED
      BY <2>1, <3>1, <3>2, RangeImages
  <2>2. CASE a # None /\ Accepted(a)
    <3>1. files = <<"mkgbe">> \o Images
      BY <2>2
    <3>2. JobFiles' = {"mkgbe"} \cup DOMAIN BlocksOf
      BY <1>2, <2>2 DEF JobFiles
    <3> HIDE DEF files
    <3>3. QED
      BY <2>2, <3>1, <3>2, RangeWithCode
  <2>3. CASE a # None /\ ~Accepted(a)
    BY <2>3
  <2>4. QED
    BY <2>1, <2>2, <2>3
<1> HIDE DEF files
<1>4. QED
  BY <1>1, <1>3, RunInv

LEMMA ContentStays ==
  ASSUME UNCHANGED <<factory, built, tool, address>>
  PROVE  JobFiles' = JobFiles /\ \A name : Content(name)' = Content(name)
<1>1. JobFiles' = JobFiles
  BY DEF JobFiles
<1>2. FactoryFd' = FactoryFd /\ FactoryGbe' = FactoryGbe /\ GeneratedGbe' = GeneratedGbe
  BY DEF FactoryFd, FactoryGbe, GeneratedGbe
<1>3. DescriptorCode' = DescriptorCode /\ GbeCode' = GbeCode
  BY <1>2 DEF DescriptorCode, GbeCode
<1>4. \A name : Content(name)' = Content(name)
  BY <1>2, <1>3 DEF Content
<1>5. QED
  BY <1>1, <1>4

(* Once all files of ich9gen are written, the address is in the images;    *)
(* once all of ich9deblob's are, its code recreates its image.             *)
LEMMA AddressWritten ==
  ASSUME BuiltInv, tool = "ich9gen", address # None, Accepted(address),
         NEW name \in WithGbe \cap DOMAIN BlocksOf
  PROVE  /\ name \in JobFiles /\ Content(name).gbe.backup.mac = MacOf(address)
         /\ Summed(Content(name).gbe.backup)
<1>1. name \in JobFiles
  BY DEF JobFiles
<1>2. Content(name).gbe = GeneratedGbe
  BY ContentCases DEF Image
<1>3. QED
  BY <1>1, <1>2, GeneratedGbeGood

LEMMA Recreated ==
  ASSUME tool = "ich9deblob", factory \in Rom,
         NEW f, \A name \in JobFiles : f[name] = Content(name)
  PROVE  LET dump   == f["mkdescriptor"]
             hasGbe == DefinesGbeRegion(dump)
             image  == f[IF hasGbe THEN "deblobbed_descriptor"
                                   ELSE "deblobbed_4kdescriptor"]
             again  == Generated(dump, image.blocks, hasGbe)
         IN /\ again = [image.fd EXCEPT !.density = again.density]
            /\ hasGbe => image.gbe = Twice(f["mkgbe"])
<1>1. "mkdescriptor" \in JobFiles
  BY DEF JobFiles
<1>2. f["mkdescriptor"] = FactoryFd
  BY <1>1, ContentCases DEF DescriptorCode
<1>3. DefinesGbeRegion(FactoryFd) = DefinesGbeRegion(factory.fd)
  <2>1. DefinesGbeRegion(FactoryFd) <=> DefinesGbeRegion(factory.fd)
    BY FactoryContent DEF Sound
  <2>2. \A d : DefinesGbeRegion(d) \in BOOLEAN
    BY DEF DefinesGbeRegion
  <2>3. QED
    BY <2>1, <2>2
<1>4. factory.fd \in Descriptor /\ factory.blocks \in Blocks
  BY RomFields
<1> DEFINE has == DefinesGbeRegion(FactoryFd)
           again == Generated(FactoryFd, factory.blocks, has)
           image == f[IF has THEN "deblobbed_descriptor" ELSE "deblobbed_4kdescriptor"]
<1>5. again = [FactoryFd EXCEPT !.density = again.density]
  BY <1>3, <1>4, GeneratedRecreates DEF FactoryFd
<1> HIDE DEF again
<1>6. /\ image.fd = FactoryFd /\ image.blocks = factory.blocks
      /\ has => image.gbe = Twice(f["mkgbe"])
  <2>1. CASE has
    <3>1. "deblobbed_descriptor" \in JobFiles /\ "mkgbe" \in JobFiles
      BY <1>3, <2>1 DEF JobFiles
    <3>2. f["deblobbed_descriptor"] = Image(FactoryFd, FactoryGbe, factory.blocks)
          /\ f["mkgbe"] = FactoryGbe.backup
      BY <3>1, ContentCases DEF GbeCode
    <3>3. FactoryGbe = Twice(FactoryGbe.backup)
      BY DEF FactoryGbe, DeblobbedGbe, Twice
    <3>4. QED
      BY <2>1, <3>2, <3>3 DEF Image
  <2>2. CASE ~has
    <3>1. "deblobbed_4kdescriptor" \in JobFiles
      BY <1>3, <2>2 DEF JobFiles
    <3>2. f["deblobbed_4kdescriptor"] = Image(FactoryFd, None, factory.blocks)
      BY <3>1, ContentCases
    <3>3. QED
      BY <2>2, <3>2 DEF Image
  <2>3. QED
    BY <2>1, <2>2
<1> HIDE DEF has, image
<1>7. Generated(FactoryFd, image.blocks, has) = again
  BY <1>6 DEF again
<1>8. QED
  BY <1>2, <1>5, <1>6, <1>7 DEF has, image

LEMMA WriteFileInv ==
  ASSUME IInv, WriteFile
  PROVE  IInv'
<1> DEFINE name == Head(todo)
           through == Range(Tail(todo)) \cap Code = {}
<1>1. /\ ~Idle /\ todo # <<>> /\ outcome = "running"
      /\ file' = [file EXCEPT ![name] = Content(name)] /\ todo' = Tail(todo)
      /\ outcome' = IF Tail(todo) = <<>> THEN "ok" ELSE "running"
      /\ invited' = IF through THEN Invitation ELSE invited
      /\ UNCHANGED <<factory, built, tool, address, faults>>
  BY DEF WriteFile, Idle, IInv, JobInv
<1>2. /\ tool \in {"ich9deblob", "demefactory", "ich9gen"}
      /\ tool \in {"ich9deblob", "demefactory"} => factory \in Rom
      /\ tool = "ich9gen" => address = None \/ Accepted(address)
      /\ Range(todo) \subseteq JobFiles
      /\ \A n \in JobFiles \ Range(todo) : file[n] = Content(n)
  BY <1>1 DEF IInv, JobInv, TypeOK
<1>3. /\ name \in Binary \cup Code /\ Tail(todo) \in Seq(Binary \cup Code)
      /\ Range(todo) = {name} \cup Range(Tail(todo))
  BY <1>1, HeadTail DEF IInv
<1>4. /\ JobFiles' = JobFiles /\ \A n : Content(n)' = Content(n)
  BY <1>1, ContentStays
<1>5. \A n \in JobFiles : ContentOK(n)
  BY <1>2, JobContent DEF IInv
<1>6. name \in JobFiles /\ ContentOK(name)
  BY <1>2, <1>3, <1>5
<1>7. /\ DOMAIN file = Binary \cup Code /\ DOMAIN file' = Binary \cup Code
      /\ file'[name] = Content(name)
      /\ \A n \in Binary \cup Code : n # name => file'[n] = file[n]
  BY <1>1, <1>3 DEF IInv, TypeOK
<1>8. JobFiles \subseteq Binary \cup Code
  BY <1>2, BlocksOfDomain DEF JobFiles, Binary, Code
<1>9. \A n \in JobFiles \ Range(Tail(todo)) : file'[n] = Content(n)
  BY <1>2, <1>3, <1>7, <1>8
<1> HIDE DEF name, through
<1>10. TypeOK'
  <2>1. \A n \in Binary \cup Code : file'[n] \in FileContent(n)
    BY <1>6, <1>7 DEF IInv, TypeOK, ContentOK
  <2>2. Range(todo') \subseteq Binary \cup Code
    BY <1>1, <1>3, RangeType
  <2>3. invited' \subseteq Code
    BY <1>1, <1>2 DEF IInv, TypeOK, Invitation, Code
  <2>4. outcome' \in {"none", "running", "failed", "ok"}
    BY <1>1
  <2>5. \A n : FileContent(n)' = FileContent(n)
    BY DEF FileContent
  <2>6. QED
    BY <1>1, <1>7, <2>1, <2>2, <2>3, <2>4, <2>5 DEF IInv, TypeOK
<1>11. ImagesSound'
  <2> SUFFICES ASSUME NEW n \in Binary \ {"demefactory_4kdescriptor"},
                      file'[n] \notin {Missing, Torn}
               PROVE  Sound(file'[n].fd, file'[n].blocks, n \in WithGbe)
    BY DEF ImagesSound, ImagesFree, Sound
  <2>1. CASE n = name
    BY <1>6, <1>7, <2>1 DEF ContentOK
  <2>2. CASE n # name
    <3>1. file'[n] = file[n]
      BY <1>7, <2>2
    <3>2. n \in ImagesFree
      BY <3>1 DEF ImagesFree
    <3>3. QED
      BY <3>1, <3>2 DEF IInv, ImagesSound, Sound
  <2>3. QED
    BY <2>1, <2>2
<1>12. GbeSound'
  <2> SUFFICES ASSUME NEW n \in WithGbe, file'[n] \notin {Missing, Torn}
               PROVE  file'[n].gbe.main = file'[n].gbe.backup /\ SummedOrShipped(file'[n].gbe.main)
    BY DEF GbeSound, Images12k
  <2>1. CASE n = name
    BY <1>6, <1>7, <2>1 DEF ContentOK, GoodTwice, Good
  <2>2. CASE n # name
    <3>1. file'[n] = file[n]
      BY <1>7, <2>2 DEF WithGbe, Binary
    <3>2. n \in Images12k
      BY <3>1 DEF Images12k
    <3>3. QED
      BY <3>1, <3>2 DEF IInv, GbeSound
  <2>3. QED
    BY <2>1, <2>2
<1>13. AddressUsed' /\ Recreates' /\ JobInv'
  <2>1. CASE Tail(todo) = <<>>
    <3>1. \A n \in JobFiles : file'[n] = Content(n)
      BY <1>9, <2>1, RangeEmpty
    <3>2. AddressUsed'
      <4> SUFFICES ASSUME tool = "ich9gen", address # None,
                          NEW n \in WithGbe \cap DOMAIN BlocksOf
                   PROVE  /\ file'[n].gbe.backup.mac = MacOf(address)
                          /\ Summed(file'[n].gbe.backup)
        BY <1>1 DEF AddressUsed
      <4>1. /\ n \in JobFiles /\ Content(n).gbe.backup.mac = MacOf(address)
            /\ Summed(Content(n).gbe.backup)
        BY <1>2, AddressWritten DEF IInv
      <4>2. QED
        BY <3>1, <4>1
    <3>3. Recreates'
      <4>1. CASE tool = "ich9deblob"
        BY <1>1, <1>2, <3>1, <4>1, Recreated DEF Recreates
      <4>2. CASE tool # "ich9deblob"
        BY <1>1, <4>2 DEF Recreates
      <4>3. QED
        BY <4>1, <4>2
    <3>4. JobInv'
      BY <1>1, <2>1 DEF JobInv, Idle
    <3>5. QED
      BY <3>2, <3>3, <3>4
  <2>2. CASE Tail(todo) # <<>>
    <3>1. AddressUsed' /\ Recreates'
      BY <1>1, <2>2 DEF AddressUsed, Recreates
    <3>2. JobInv'
      BY <1>1, <1>2, <1>3, <1>4, <1>9, <2>2 DEF JobInv, Idle
    <3>3. QED
      BY <3>1, <3>2
  <2>3. QED
    BY <2>1, <2>2
<1>14. InvitedInv'
  <2>1. CASE through
    <3>1. \A n \in JobFiles \cap Code : file'[n] = Content(n)
      BY <1>9, <2>1 DEF through
    <3>2. /\ Invitation \subseteq JobFiles \cap Code
          /\ "mkdescriptor" \in Invitation => tool = "ich9deblob"
      BY <1>2 DEF Invitation, JobFiles, Code
    <3>3. "mkdescriptor" \in Invitation => Freed(file'["mkdescriptor"])
      BY <1>5, <3>1, <3>2 DEF ContentOK
    <3>4. "mkgbe" \in Invitation => Good(file'["mkgbe"])
      BY <1>5, <3>1, <3>2 DEF ContentOK
    <3>5. QED
      BY <1>1, <2>1, <3>3, <3>4 DEF InvitedInv, through
  <2>2. CASE ~through
    <3>1. invited = {} /\ invited' = {}
      BY <1>1, <1>3, <2>2 DEF IInv, InvitedInv, through
    <3>2. QED
      BY <3>1 DEF InvitedInv
  <2>3. QED
    BY <2>1, <2>2
<1>15. BuiltInv' /\ todo' \in Seq(Binary \cup Code)
  BY <1>1, <1>3 DEF IInv, BuiltInv
<1>16. QED
  BY <1>10, <1>11, <1>12, <1>13, <1>14, <1>15 DEF IInv

(* A tool stops at a file: the file is as before, gone or cut short, and   *)
(* what the user was told to place is not among what was left to write.    *)
LEMMA InterruptInv ==
  ASSUME IInv, Interrupt
  PROVE  IInv'
<1> DEFINE name == Head(todo)
<1>1. PICK left \in {file[name], Missing, Torn} : file' = [file EXCEPT ![name] = left]
  BY DEF Interrupt
<1>2. /\ todo # <<>> /\ todo' = <<>> /\ outcome' = "failed" /\ faults > 0
      /\ faults' = faults - 1 /\ UNCHANGED <<factory, built, tool, address, invited>>
  BY DEF Interrupt, Idle
<1>3. name \in Binary \cup Code /\ name \in Range(todo)
  BY <1>2, HeadTail DEF IInv
<1>4. DOMAIN file' = Binary \cup Code
  BY <1>1 DEF IInv, TypeOK
<1>5. \A n \in Binary \cup Code : file'[n] = file[n] \/ (n = name /\ file'[n] \in {Missing, Torn})
  BY <1>1, <1>3 DEF IInv, TypeOK
<1> HIDE DEF name
<1>6. TypeOK'
  <2>1. \A n \in Binary \cup Code : Missing \in FileContent(n) /\ Torn \in FileContent(n)
    BY DEF FileContent
  <2>2. \A n \in Binary \cup Code : file'[n] \in FileContent(n)
    BY <1>5, <2>1 DEF IInv, TypeOK
  <2>3. faults' \in 0 .. FaultBound
    BY <1>2, FaultAssumption DEF IInv, TypeOK
  <2>4. Range(todo') \subseteq Binary \cup Code
    BY <1>2, RangeEmpty
  <2>5. \A n : FileContent(n)' = FileContent(n)
    BY DEF FileContent
  <2>6. QED
    BY <1>2, <1>4, <2>2, <2>3, <2>4, <2>5 DEF IInv, TypeOK
<1>7. ImagesSound'
  <2> SUFFICES ASSUME NEW n \in Binary \ {"demefactory_4kdescriptor"},
                      file'[n] \notin {Missing, Torn}
               PROVE  Sound(file'[n].fd, file'[n].blocks, n \in WithGbe)
    BY DEF ImagesSound, ImagesFree, Sound
  <2>1. file'[n] = file[n]
    BY <1>5
  <2>2. n \in ImagesFree
    BY <2>1 DEF ImagesFree
  <2>3. QED
    BY <2>1, <2>2 DEF IInv, ImagesSound, Sound
<1>8. GbeSound'
  <2> SUFFICES ASSUME NEW n \in WithGbe, file'[n] \notin {Missing, Torn}
               PROVE  file'[n].gbe.main = file'[n].gbe.backup /\ SummedOrShipped(file'[n].gbe.main)
    BY DEF GbeSound, Images12k
  <2>1. file'[n] = file[n]
    BY <1>5 DEF WithGbe, Binary
  <2>2. n \in Images12k
    BY <2>1 DEF Images12k
  <2>3. QED
    BY <2>1, <2>2 DEF IInv, GbeSound
<1>9. AddressUsed' /\ Recreates' /\ JobInv'
  BY <1>2 DEF AddressUsed, Recreates, JobInv, Idle
<1>10. InvitedInv'
  <2>1. invited # {} => \A n \in Code : file'[n] = file[n]
    BY <1>3, <1>5 DEF IInv, InvitedInv, Code
  <2>2. QED
    BY <1>2, <2>1, RangeEmpty DEF IInv, TypeOK, InvitedInv, Code
<1>11. BuiltInv' /\ todo' \in Seq(Binary \cup Code)
  BY <1>2 DEF IInv, BuiltInv
<1>12. QED
  BY <1>6, <1>7, <1>8, <1>9, <1>10, <1>11 DEF IInv

LEMMA PlaceInv ==
  ASSUME IInv, Place
  PROVE  IInv'
<1>1. /\ built' = [dump |-> IF "mkdescriptor" \in invited
                               THEN file["mkdescriptor"] ELSE built.dump,
                    gbe  |-> IF "mkgbe" \in invited THEN file["mkgbe"] ELSE built.gbe]
      /\ Idle /\ invited' = {}
      /\ UNCHANGED <<factory, file, tool, address, todo, outcome, faults>>
  BY DEF Place
<1>2. Freed(built'.dump) /\ Good(built'.gbe)
  BY <1>1 DEF IInv, InvitedInv, BuiltInv
<1>3. built' \in [dump : Descriptor, gbe : Gbe4k]
  BY <1>1, <1>2 DEF Freed, AtStart, Good
<1>4. TypeOK'
  <2>1. \A n : FileContent(n)' = FileContent(n)
    BY DEF FileContent
  <2>2. QED
    BY <1>1, <1>3, <2>1 DEF IInv, TypeOK
<1>5. ImagesSound' /\ GbeSound' /\ AddressUsed' /\ Recreates'
  BY <1>1 DEF IInv, ImagesSound, GbeSound, ImagesFree, Images12k, AddressUsed, Recreates
<1>6. JobInv' /\ InvitedInv' /\ BuiltInv'
  BY <1>1, <1>2 DEF JobInv, Idle, InvitedInv, BuiltInv
<1>7. QED
  BY <1>1, <1>4, <1>5, <1>6 DEF IInv

LEMMA DumpInv ==
  ASSUME IInv, NEW rom \in Rom, Dump(rom)
  PROVE  IInv'
<1>1. /\ Idle /\ factory' = rom
      /\ UNCHANGED <<file, built, tool, address, todo, invited, outcome, faults>>
  BY DEF Dump
<1>2. TypeOK'
  <2>1. \A n : FileContent(n)' = FileContent(n)
    BY DEF FileContent
  <2>2. QED
    BY <1>1, <2>1 DEF IInv, TypeOK
<1>3. ImagesSound' /\ GbeSound' /\ AddressUsed' /\ Recreates'
  BY <1>1 DEF IInv, ImagesSound, GbeSound, ImagesFree, Images12k, AddressUsed, Recreates
<1>4. JobInv' /\ InvitedInv' /\ BuiltInv'
  BY <1>1 DEF IInv, JobInv, Idle, InvitedInv, BuiltInv
<1>5. QED
  BY <1>1, <1>2, <1>3, <1>4 DEF IInv

LEMMA NextInv ==
  IInv /\ [Next]_vars => IInv'
<1> SUFFICES ASSUME IInv, [Next]_vars PROVE IInv'
  OBVIOUS
<1>1. CASE Ich9deblob
  BY <1>1, Ich9deblobInv
<1>2. CASE Demefactory
  BY <1>2, DemefactoryInv
<1>3. CASE \E a \in Address \cup {None} : Ich9gen(a)
  BY <1>3, Ich9genInv
<1>4. CASE WriteFile
  BY <1>4, WriteFileInv
<1>5. CASE Interrupt
  BY <1>5, InterruptInv
<1>6. CASE Place
  BY <1>6, PlaceInv
<1>7. CASE \E rom \in Rom : Dump(rom)
  BY <1>7, DumpInv
<1>8. CASE UNCHANGED vars
  <2>1. /\ TypeOK' /\ ImagesSound' /\ GbeSound' /\ AddressUsed' /\ Recreates'
        /\ (todo \in Seq(Binary \cup Code))' /\ InvitedInv' /\ BuiltInv'
    <3>1. \A n : FileContent(n)' = FileContent(n)
      BY DEF FileContent
    <3>2. QED
      BY <1>8, <3>1 DEF IInv, TypeOK, ImagesSound, GbeSound, ImagesFree, Images12k,
                        AddressUsed, Recreates, InvitedInv, BuiltInv, vars
  <2>2. JobInv'
    BY <1>8, ContentStays DEF IInv, JobInv, Idle, vars
  <2>3. QED
    BY <2>1, <2>2 DEF IInv
<1>9. QED
  BY <1>1, <1>2, <1>3, <1>4, <1>5, <1>6, <1>7, <1>8 DEF Next

LEMMA Invariant ==
  Spec => []IInv
<1>1. QED
  BY InitInv, NextInv, PTL DEF Spec

-----------------------------------------------------------------------------
(* What the tools leave                                                    *)

(* The tools' state keeps its types: in particular no checksum is ever     *)
(* wider than its 16 bits (gbeGetChecksumFrom4kStruct) and ich9gen is      *)
(* never built from code that is missing or cut short.                     *)
THEOREM TypeCorrect ==
  Spec => []TypeOK
<1>1. IInv => TypeOK
  BY DEF IInv
<1>2. QED
  BY <1>1, Invariant, PTL

(* Whatever dumps, whatever order of ich9deblob, demefactory and ich9gen,  *)
(* whatever code is placed and whatever fails: every complete image of     *)
(* ich9deblob or ich9gen is laid out without gap or overlap, frees the     *)
(* machine of the management engine, and has a GbE region if and only if   *)
(* it is a 12 KiB file (librebootDescriptorStructFromFactory).             *)
THEOREM AllImagesSound ==
  Spec => []ImagesSound
<1>1. IInv => ImagesSound
  BY DEF IInv
<1>2. QED
  BY <1>1, Invariant, PTL

(* For every dump, broken main half or not, and every address: both halves *)
(* of a written GbE region are equal and, the region of the repository's   *)
(* own code apart, sum to 0xBABA                                           *)
(* (deblobbedGbeStructFromFactory; ich9gen.c, "Fix the checksum").         *)
THEOREM AllGbeSound ==
  Spec => []GbeSound
<1>1. IInv => GbeSound
  BY DEF IInv
<1>2. QED
  BY <1>1, Invariant, PTL

(* An ich9gen that ended well put the address it was given into each of    *)
(* its GbE images, whichever code it was built from (ich9gen.c, main).     *)
THEOREM AddressAlwaysUsed ==
  Spec => []AddressUsed
<1>1. IInv => AddressUsed
  BY DEF IInv
<1>2. QED
  BY <1>1, Invariant, PTL

(* The code ich9deblob leaves generates the image it left next to it, for  *)
(* every dump whose regions were freed ("C code that will recreate the     *)
(* deblobbed descriptor+gbe from scratch", ich9deblob.c).                  *)
THEOREM AlwaysRecreates ==
  Spec => []Recreates
<1>1. IInv => Recreates
  BY DEF IInv
<1>2. QED
  BY <1>1, Invariant, PTL
=============================================================================
