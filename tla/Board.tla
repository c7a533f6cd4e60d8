-------------------------------- MODULE Board --------------------------------
(***************************************************************************)
(* What init() (cores/piduino/wiring.c) makes of the board it runs on:     *)
(* the revision code in /proc/cpuinfo, decoded by raspberry_pi_revision.c, *)
(* and whether the registers are mapped, and where.  A code is a number;   *)
(* models and makers are numbers of their enumerations; an address is in   *)
(* units of 16 megabytes.                                                  *)
(***************************************************************************)
EXTENDS Integers, Sequences

CONSTANTS Revisions   \* bound: revision codes of boards

VARIABLES
  cpuinfo,   \* the lines of /proc/cpuinfo, [key, value]; <<>> if it has none
  info,      \* RASPBERRY_PI_INFO_T
  started,   \* what init() said: "no" before it, "yes" or "refused"
  mappedAt   \* where the registers were mapped
boardVars == <<cpuinfo, info, started, mappedAt>>

UNKNOWN == -1
BASE_UNKNOWN == 0
MODELS == [A |-> 0, B |-> 1, A_PLUS |-> 2, B_PLUS |-> 3, B_PI_2 |-> 4, ALPHA |-> 5, COMPUTE |-> 6,
           ZERO |-> 7, B_PI_3 |-> 8, COMPUTE_3 |-> 9, ZERO_W |-> 10, B_PI_3_PLUS |-> 11,
           A_PI_3_PLUS |-> 12, COMPUTE_3_PLUS |-> 13, B_PI_4 |-> 14]
SONY_UK == 0
EGOMAN == 1
QISDA == 2
EMBEST == 3
SONY_JAPAN == 4
STADIUM == 5

-----------------------------------------------------------------------------
\* The tables by bit field.
bitFieldToMemory == <<256, 512, 1024, 2048, 4096, 8192>>
bitFieldToProcessor == <<2835, 2836, 2837, 2838>>
bitFieldToModel ==
  <<MODELS.A, MODELS.B, MODELS.A_PLUS, MODELS.B_PLUS, MODELS.B_PI_2, MODELS.ALPHA, MODELS.COMPUTE, UNKNOWN,
    MODELS.B_PI_3, MODELS.ZERO, MODELS.COMPUTE_3, UNKNOWN, MODELS.ZERO_W, MODELS.B_PI_3_PLUS,
    MODELS.A_PI_3_PLUS, UNKNOWN, MODELS.COMPUTE_3_PLUS, MODELS.B_PI_4>>
bitFieldToManufacturer == <<SONY_UK, EGOMAN, EMBEST, SONY_JAPAN, EMBEST, STADIUM>>
Known(fields, index) == IF index < Len(fields) THEN fields[index + 1] ELSE UNKNOWN

\* The tables by original revision.
maxOriginalRevision == 21
revisionToMemory(no) ==
  IF no \in 2 .. 9 \cup {18} THEN 256 ELSE IF no \in 13 .. 21 THEN 512 ELSE UNKNOWN
revisionToI2CDevice(no) ==
  IF no \in {2, 3} THEN 0 ELSE IF no \in 4 .. 9 \cup 13 .. 21 THEN 1 ELSE UNKNOWN
revisionToModel(no) ==
  CASE no \in 2 .. 6 \cup 13 .. 15 -> MODELS.B [] no \in 7 .. 9 -> MODELS.A
    [] no \in {16, 19} -> MODELS.B_PLUS [] no \in {17, 20} -> MODELS.COMPUTE
    [] no \in {18, 21} -> MODELS.A_PLUS [] OTHER -> UNKNOWN
revisionToManufacturer(no) ==
  CASE no \in {2, 3, 6, 7, 13, 15} -> EGOMAN [] no \in {4, 8, 14, 16, 17, 18} -> SONY_UK
    [] no \in {5, 9} -> QISDA [] no \in 19 .. 21 -> EMBEST [] OTHER -> UNKNOWN
revisionToPcbRevision(no) ==
  IF no \in {2, 3} \cup 16 .. 21 THEN 1 ELSE IF no \in 4 .. 9 \cup 13 .. 15 THEN 2 ELSE 0

\* The pins of the old boards: an entry of rpi_model_pinmasks, if any.
PINMASKS_LEN == 20
HasPinmask(no) == no \in 2 .. 9 \cup 13 .. 19

\* A code's fields, from the lowest up (revision of the circuit board, model,
\* processor, maker, memory, kind of code, the two warranty bits): the weight of
\* each one's lowest bit.
MODEL == 16
PROCESSOR == 256 * MODEL
MANUFACTURER == 16 * PROCESSOR
MEMORY == 16 * MANUFACTURER
ENCODED == 8 * MEMORY
WARRANTY == 2 * ENCODED
NEW_WARRANTY == 2 * WARRANTY
Field(code, weight, values) == (code \div weight) % values
\* The boards there are: a code has 26 bits, and a board of the newer kind the
\* processor (by its number in the code) of its model.
ProcessorsOf(model) ==
  CASE model = 4 -> {1, 2} [] model \in {8, 10, 13, 14, 16} -> {2} [] model = 17 -> {3} [] OTHER -> {0}
ASSUME BoardAssumption ==
  /\ Revisions \subseteq 0 .. 4 * WARRANTY - 1
  /\ \A code \in {c % WARRANTY : c \in Revisions} :
       Field(code, ENCODED, 2) = 1 /\ Known(bitFieldToModel, Field(code, MODEL, 256)) # UNKNOWN =>
         Field(code, PROCESSOR, 16) \in ProcessorsOf(Field(code, MODEL, 256))

PeripheralBase(processor) ==
  CASE processor = 2835 -> 32 [] processor \in {2836, 2837} -> 63 [] processor = 2838 -> 254
    [] OTHER -> BASE_UNKNOWN

\* Mutant: only the older of the two warranty bits is removed.
Unwarranted_Older(code) == code - Field(code, WARRANTY, 2) * WARRANTY
Unwarranted(code) == code - Field(code, WARRANTY, 4) * WARRANTY

NoInfo(code) ==
  [memory |-> UNKNOWN, processor |-> UNKNOWN, i2cDevice |-> UNKNOWN, model |-> UNKNOWN,
   manufacturer |-> UNKNOWN, pcbRevision |-> 0, warrantyBit |-> 0, revisionNumber |-> code]
informationForRevision(code) ==
  LET revision == Unwarranted(code)
  IN  CASE code # 0 /\ Field(revision, ENCODED, 2) = 1 ->
             [memory |-> Known(bitFieldToMemory, Field(revision, MEMORY, 8)),
              processor |-> Known(bitFieldToProcessor, Field(revision, PROCESSOR, 16)),
              i2cDevice |-> 1, model |-> Known(bitFieldToModel, Field(revision, MODEL, 256)),
              manufacturer |-> Known(bitFieldToManufacturer, Field(revision, MANUFACTURER, 16)),
              pcbRevision |-> Field(revision, 1, 16),
              warrantyBit |-> Field(code, NEW_WARRANTY, 2), revisionNumber |-> code]
        [] code # 0 /\ Field(revision, ENCODED, 2) = 0 /\ revision <= maxOriginalRevision ->
             [memory |-> revisionToMemory(revision),
              processor |-> IF revisionToModel(revision) = UNKNOWN THEN UNKNOWN ELSE 2835,
              i2cDevice |-> revisionToI2CDevice(revision), model |-> revisionToModel(revision),
              manufacturer |-> revisionToManufacturer(revision),
              pcbRevision |-> revisionToPcbRevision(revision),
              warrantyBit |-> Field(code, WARRANTY, 2), revisionNumber |-> code]
        [] OTHER -> NoInfo(code)

\* The last line that says "Revision" counts; without one it is 0.
getRaspberryPiRevision ==
  LET at == {k \in DOMAIN cpuinfo : cpuinfo[k].key = "Revision"}
  IN  IF at = {} THEN 0 ELSE cpuinfo[CHOOSE k \in at : \A j \in at : j <= k].value

-----------------------------------------------------------------------------
BoardInit ==
  /\ cpuinfo = <<>> /\ info = NoInfo(0) /\ started = "no" /\ mappedAt = BASE_UNKNOWN

\* The kernel says what board it is (external).
Powers(lines) ==
  started = "no" /\ cpuinfo = <<>> /\ cpuinfo' = lines /\ UNCHANGED <<info, started, mappedAt>>

\* init(): a model behind RPI_MODEL_B has the pins of a B+.
Start ==
  /\ started = "no"
  /\ LET is == informationForRevision(getRaspberryPiRevision)
         no == IF is.model > MODELS.B THEN 16 ELSE is.revisionNumber
     IN /\ info' = [is EXCEPT !.revisionNumber = no]
        /\ IF no >= PINMASKS_LEN \/ ~HasPinmask(no)
           THEN started' = "refused" /\ UNCHANGED mappedAt
           ELSE started' = "yes" /\ mappedAt' = PeripheralBase(is.processor)
  /\ UNCHANGED cpuinfo

BoardNext ==
  \/ \E code \in Revisions :
       \/ Powers(<<[key |-> "Revision", value |-> code]>>)
       \/ Powers(<<[key |-> "Hardware", value |-> 0], [key |-> "Revision", value |-> code],
                   [key |-> "Serial", value |-> code]>>)
  \/ Start
BoardSpec == BoardInit /\ [][BoardNext]_boardVars

-----------------------------------------------------------------------------
\* Where a model has its peripherals.
PlaceOf(model) ==
  CASE model = MODELS.B_PI_4 -> 254
    [] model \in {MODELS.B_PI_2, MODELS.B_PI_3, MODELS.COMPUTE_3, MODELS.B_PI_3_PLUS,
                  MODELS.A_PI_3_PLUS, MODELS.COMPUTE_3_PLUS} -> 63
    [] OTHER -> 32
\* What is known of a board, whichever way its code is written.
Said(is) == <<is.model, is.manufacturer, is.memory, is.processor, is.pcbRevision>>
\* The same board in the other encoding.
Index(fields, value) == CHOOSE k \in 0 .. Len(fields) - 1 : fields[k + 1] = value
Recoded(is) ==
  is.pcbRevision + MODEL * Index(bitFieldToModel, is.model)
  + MANUFACTURER * Index(bitFieldToManufacturer, is.manufacturer)
  + MEMORY * Index(bitFieldToMemory, is.memory) + ENCODED

\* A board is known by its code in either encoding, whether or not its
\* warranty is void: the two tables of an old board say the same of it.
\* init() maps the registers, and then where the model has them, exactly on
\* boards whose model is known, with two exceptions: a model A or B whose
\* warranty is void, and one that has a code of the newer kind.
BoardIsUnderstood ==
  started # "no" =>
    LET code == getRaspberryPiRevision
        plain == informationForRevision(code % WARRANTY)
    IN /\ Said(info) = Said(plain) /\ info.i2cDevice = plain.i2cDevice
       /\ code % WARRANTY < ENCODED /\ info.model # UNKNOWN /\ info.manufacturer # QISDA =>
            Said(informationForRevision(Recoded(info))) = Said(info)
       /\ started = "yes" <=>
            info.model # UNKNOWN /\ (info.model \in {MODELS.A, MODELS.B} => code <= maxOriginalRevision)
       /\ started = "yes" => mappedAt = PlaceOf(info.model)
=============================================================================
