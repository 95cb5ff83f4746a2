---------------------------- MODULE MemCaseUtil ----------------------------
(***************************************************************************)
(* The memory-case codec of oneflow/core/memory/memory_case_util.{h,cpp}:  *)
(* the wire descriptor MemoryCase (a protobuf oneof), the identity value   *)
(* MemCaseId decoded from it, the 64-bit keys packed from a MemCaseId, and *)
(* PatchMemCase / GenerateCorrespondingPageLockedHostMemoryCase, which     *)
(* graph compilation applies to the MemoryCases of its buffers.            *)
(*                                                                         *)
(* The state is the MemoryCase of each buffer of a graph being compiled.   *)
(* A step is one call the compiler makes on them: patch one buffer's      *)
(* MemoryCase with another's, or replace a device buffer's MemoryCase by  *)
(* that of its page-locked host staging buffer.                           *)
(***************************************************************************)
EXTENDS Naturals, Bitwise

CONSTANTS
  Buffers,         \* the buffers whose MemoryCases the compiler threads
  DeviceIndices,   \* device ids a MemoryCase may carry
  DeviceTypeCode,  \* the integer value of each DeviceType enumerator
  Ranks            \* machine ranks packed into a GlobalMemCaseId key

DeviceTypes == {"Invalid", "CPU", "GPU", "FAKEDEVICE", "ABC", "ENFLAME"}

\* Field widths and shifts of the int64 key (memory_case_util.cpp:38-46).
kRegByNetBits == 1
kPageLockedTypeBits == 5
kDeviceIndexBits == 7
kDeviceTypeBits == 5
kPageLockedTypeShift == kRegByNetBits
kDeviceIndexShift == kPageLockedTypeShift + kPageLockedTypeBits
kDeviceTypeShift == kDeviceIndexShift + kDeviceIndexBits
kRankShift == kDeviceTypeShift + kDeviceTypeBits

ASSUME DeviceIndices \subseteq 0 .. (2^kDeviceIndexBits - 1)
ASSUME /\ DeviceTypeCode \in [DeviceTypes -> 0 .. (2^kDeviceTypeBits - 1)]
       /\ \A s, t \in DeviceTypes : s # t => DeviceTypeCode[s] # DeviceTypeCode[t]
\* rank_t is uint32_t; TLC's integers stop at 2^31 - 1, so the ranks checked
\* are those whose key fits: below 2^(31 - kRankShift).
ASSUME \A r \in Ranks : r \in Nat /\ r < 2^(31 - kRankShift)

-----------------------------------------------------------------------------
(* MemoryCase, abstracted to the fields the codec reads and writes:        *)
(* kind: which member of the oneof is set; pin: which member of            *)
(* host_mem's pin oneof is set; pinDev: cuda_pinned_mem.device_id;         *)
(* net: has_used_by_network() and its value; dev: device_id of the        *)
(* device_cuda_mem / device_enflame_mem member.                            *)
(***************************************************************************)
MemCaseKinds == {"unset", "host_mem", "device_cuda_mem", "fake_dev_mem",
                 "device_abc_mem", "device_enflame_mem"}
PinKinds == {"none", "cuda_pinned_mem", "fake_dev_pinned_mem"}
NetFlags == {"absent", "false", "true"}
IndexedKinds == {"device_cuda_mem", "device_enflame_mem"}

MemoryCase(kind, pin, pinDev, net, dev) ==
  [kind |-> kind, pin |-> pin, pinDev |-> pinDev, net |-> net, dev |-> dev]

EmptyMemoryCase == MemoryCase("unset", "none", 0, "absent", 0)

\* Every MemoryCase a buffer can carry (unset ones included).
MemoryCases ==
  { MemoryCase("host_mem", "cuda_pinned_mem", d, n, 0) : d \in DeviceIndices, n \in NetFlags }
  \cup { MemoryCase("host_mem", p, 0, n, 0) :
           p \in PinKinds \ {"cuda_pinned_mem"}, n \in NetFlags }
  \cup { MemoryCase(k, "none", 0, "absent", d) : k \in IndexedKinds, d \in DeviceIndices }
  \cup { MemoryCase(k, "none", 0, "absent", 0) :
           k \in {"unset", "fake_dev_mem", "device_abc_mem"} }

\* MemCaseId: zone (type, index), page-locked device type, network flag.
MemCaseId(type, index, pinned, net) ==
  [type |-> type, index |-> index, pinned |-> pinned, net |-> net]

\* The fatal outcome of a failed CHECK or UNIMPLEMENTED(): the process ends.
Fatal == [fatal |-> TRUE]

-----------------------------------------------------------------------------
\* The device type each oneof member decodes to, and each host pin member.
ZoneTypeOf == [unset |-> "Invalid", host_mem |-> "CPU", device_cuda_mem |-> "GPU",
               fake_dev_mem |-> "FAKEDEVICE", device_abc_mem |-> "ABC",
               device_enflame_mem |-> "ENFLAME"]
PinnedTypeOf == [none |-> "Invalid", cuda_pinned_mem |-> "GPU",
                 fake_dev_pinned_mem |-> "FAKEDEVICE"]

\* MemCaseId::MemCaseId(const MemoryCase&): decode the populated member.
DecodeMemCase(mc) ==
  MemCaseId(ZoneTypeOf[mc.kind],
            CASE mc.kind \in IndexedKinds -> mc.dev
              [] mc.kind = "host_mem" /\ mc.pin = "cuda_pinned_mem" -> mc.pinDev
              [] OTHER -> 0,
            IF mc.kind = "host_mem" THEN PinnedTypeOf[mc.pin] ELSE "Invalid",
            mc.kind = "host_mem" /\ mc.net = "true")

\* MemCaseId::operator== : zone and page-locked type; the network flag is
\* not compared.
MemCaseIdEq(a, b) ==
  a.type = b.type /\ a.index = b.index /\ a.pinned = b.pinned

\* operator==(const MemoryCase&, const MemoryCase&)
MemoryCaseEq(l, r) == MemCaseIdEq(DecodeMemCase(l), DecodeMemCase(r))

\* Mutant: the page-locked type is left out of the key.
SerializeMemCaseIdToInt64NoPinned(id) ==
  (IF id.net THEN 1 ELSE 0)
  | ((id.index * 2^kDeviceIndexShift) | (DeviceTypeCode[id.type] * 2^kDeviceTypeShift))

\* SerializeMemCaseIdToInt64: OR of the fields shifted into place.
SerializeMemCaseIdToInt64(id) ==
  ((IF id.net THEN 1 ELSE 0)
     | (DeviceTypeCode[id.pinned] * 2^kPageLockedTypeShift))
  | ((id.index * 2^kDeviceIndexShift)
     | (DeviceTypeCode[id.type] * 2^kDeviceTypeShift))

\* Mutant: kRankShift one bit too low.
SerializeGlobalMemCaseIdToInt64ShiftLow(rank, id) ==
  SerializeMemCaseIdToInt64(id) | (rank * 2^(kRankShift - 1))

\* SerializeGlobalMemCaseIdToInt64: the rank ORed above the MemCaseId key.
SerializeGlobalMemCaseIdToInt64(rank, id) ==
  SerializeMemCaseIdToInt64(id) | (rank * 2^kRankShift)

\* Mutant: the GPU-pinned branch does not set cuda_pinned_mem.device_id, and
\* the FAKEDEVICE-pinned one keeps the old member's device id.
SerializeMemCaseIdToMemCaseNoPinDev(id, mc) ==
  CASE id.type = "CPU" ->
         LET host == IF mc.kind = "host_mem" THEN mc
                     ELSE MemoryCase("host_mem", "none", 0, "absent", 0)
             pinned ==
               CASE id.pinned = "GPU" -> [host EXCEPT !.pin = "cuda_pinned_mem"]
                 [] id.pinned = "FAKEDEVICE" -> [host EXCEPT !.pin = "fake_dev_pinned_mem"]
                 [] OTHER -> MemoryCase("host_mem", "none", 0, "absent", 0)
         IN IF id.net THEN [pinned EXCEPT !.net = "true"] ELSE pinned
    [] id.type = "GPU" -> MemoryCase("device_cuda_mem", "none", 0, "absent", id.index)
    [] id.type = "FAKEDEVICE" -> MemoryCase("fake_dev_mem", "none", 0, "absent", 0)
    [] id.type = "ABC" -> MemoryCase("device_abc_mem", "none", 0, "absent", 0)
    [] id.type = "ENFLAME" ->
         MemoryCase("device_enflame_mem", "none", 0, "absent", id.index)
    [] OTHER -> Fatal

\* SerializeMemCaseIdToMemCase(id, mc): writes id into the existing message
\* mc; a mutable_* call switches the oneof and keeps a member already set.
SerializeMemCaseIdToMemCase(id, mc) ==
  CASE id.type = "CPU" ->
         LET host == IF mc.kind = "host_mem" THEN mc
                     ELSE MemoryCase("host_mem", "none", 0, "absent", 0)
             pinned ==
               CASE id.pinned = "GPU" ->
                      [host EXCEPT !.pin = "cuda_pinned_mem", !.pinDev = id.index]
                 [] id.pinned = "FAKEDEVICE" ->
                      [host EXCEPT !.pin = "fake_dev_pinned_mem", !.pinDev = 0]
                 [] OTHER -> MemoryCase("host_mem", "none", 0, "absent", 0)
         IN IF id.net THEN [pinned EXCEPT !.net = "true"] ELSE pinned
    [] id.type = "GPU" -> MemoryCase("device_cuda_mem", "none", 0, "absent", id.index)
    [] id.type = "FAKEDEVICE" -> MemoryCase("fake_dev_mem", "none", 0, "absent", 0)
    [] id.type = "ABC" -> MemoryCase("device_abc_mem", "none", 0, "absent", 0)
    [] id.type = "ENFLAME" ->
         MemoryCase("device_enflame_mem", "none", 0, "absent", id.index)
    [] OTHER -> Fatal

\* Mutant: the CPU branch takes src's page-locked type even when it is none.
PatchMemCaseIdOverwritePin(dst, src) ==
  LET type == src.type IN
  CASE type = "Invalid" \/ type # dst.type -> <<FALSE, dst>>
    [] type = "CPU" ->
         <<TRUE, MemCaseId("CPU",
                           IF src.pinned = "GPU" THEN src.index ELSE dst.index,
                           src.pinned, dst.net \/ src.net)>>
    [] OTHER -> <<dst.index = src.index, dst>>

\* PatchMemCaseId(dst, src): <<returned bool, *dst afterwards>>.
PatchMemCaseId(dst, src) ==
  LET type == src.type IN
  CASE type = "Invalid" \/ type # dst.type -> <<FALSE, dst>>
    [] type = "CPU" ->
         <<TRUE, MemCaseId("CPU",
                           IF src.pinned = "GPU" THEN src.index ELSE dst.index,
                           IF src.pinned \in {"GPU", "FAKEDEVICE"} THEN src.pinned
                                                                  ELSE dst.pinned,
                           dst.net \/ src.net)>>
    [] OTHER -> <<dst.index = src.index, dst>>

\* PatchMemCase(dst, src): decode both, patch, and write the (patched or
\* unchanged) dst id back into *dst whatever the result: <<result, *dst>>,
\* *dst being Fatal when writing it back ends the process.
PatchMemCase(dstMc, srcMc) ==
  LET r == PatchMemCaseId(DecodeMemCase(dstMc), DecodeMemCase(srcMc))
      out == SerializeMemCaseIdToMemCase(r[2], dstMc)
  IN <<r[1], out>>

\* GenerateCorrespondingPageLockedHostMemCaseId, CHECKs included.
GenerateCorrespondingPageLockedHostMemCaseId(id) ==
  IF id.type \in {"Invalid", "CPU"} THEN Fatal
  ELSE MemCaseId("CPU",
                 IF id.type = "GPU" THEN id.index ELSE 0,
                 IF id.type \in {"GPU", "FAKEDEVICE", "ABC"} THEN id.type ELSE "Invalid",
                 FALSE)

\* GenerateCorrespondingPageLockedHostMemoryCase: into a fresh MemoryCase.
GenerateCorrespondingPageLockedHostMemoryCase(mc) ==
  LET host == GenerateCorrespondingPageLockedHostMemCaseId(DecodeMemCase(mc))
  IN IF host = Fatal THEN Fatal ELSE SerializeMemCaseIdToMemCase(host, EmptyMemoryCase)

-----------------------------------------------------------------------------
(***************************************************************************)
(* Graph compilation threading placement constraints through buffers.      *)
(***************************************************************************)
VARIABLES
  mcs,        \* mcs[b]: the MemoryCase of buffer b
  alive       \* FALSE once a CHECK or UNIMPLEMENTED() has ended the process

vars == <<mcs, alive>>

Init ==
  /\ mcs \in [Buffers -> MemoryCases]
  /\ alive = TRUE

\* PatchMemCase(&mcs[dst], mcs[src]) returns and stores its result.
PatchStep(dst, src) ==
  LET r == PatchMemCase(mcs[dst], mcs[src]) IN
  /\ alive
  /\ r[2] # Fatal
  /\ mcs' = [mcs EXCEPT ![dst] = r[2]]
  /\ UNCHANGED alive

\* PatchMemCase(&mcs[dst], mcs[src]) hits UNIMPLEMENTED() writing dst back.
PatchAbort(dst, src) ==
  /\ alive
  /\ PatchMemCase(mcs[dst], mcs[src])[2] = Fatal
  /\ alive' = FALSE
  /\ UNCHANGED mcs

\* Buffer b is given the MemoryCase of the page-locked host staging buffer
\* GenerateCorrespondingPageLockedHostMemoryCase makes for it.
StageStep(b) ==
  /\ alive
  /\ GenerateCorrespondingPageLockedHostMemoryCase(mcs[b]) # Fatal
  /\ mcs' = [mcs EXCEPT ![b] = GenerateCorrespondingPageLockedHostMemoryCase(mcs[b])]
  /\ UNCHANGED alive

\* The same call on a host or invalid zone fails one of its CHECK_NEs.
StageAbort(b) ==
  /\ alive
  /\ GenerateCorrespondingPageLockedHostMemoryCase(mcs[b]) = Fatal
  /\ alive' = FALSE
  /\ UNCHANGED mcs

Next ==
  \/ \E dst, src \in Buffers : dst # src /\ PatchStep(dst, src)
  \/ \E dst, src \in Buffers : dst # src /\ PatchAbort(dst, src)
  \/ \E b \in Buffers : StageStep(b)
  \/ \E b \in Buffers : StageAbort(b)

Spec == Init /\ [][Next]_vars

-----------------------------------------------------------------------------
TypeOK ==
  /\ mcs \in [Buffers -> MemoryCases]
  /\ alive \in BOOLEAN

\* Two buffers whose decoded MemCaseIds differ in any field (zone type,
\* zone index, page-locked type or network flag) get different
\* SerializeMemCaseIdToInt64 keys: the packed fields never alias.
KeyInjective ==
  \A a, b \in Buffers :
    DecodeMemCase(mcs[a]) # DecodeMemCase(mcs[b]) =>
      SerializeMemCaseIdToInt64(DecodeMemCase(mcs[a]))
        # SerializeMemCaseIdToInt64(DecodeMemCase(mcs[b]))

\* The GlobalMemCaseId key of every buffer splits back, at kRankShift, into
\* the rank and the buffer's SerializeMemCaseIdToInt64 key.
GlobalKeyComposes ==
  \A b \in Buffers, r \in Ranks :
    LET id == DecodeMemCase(mcs[b])
        g == SerializeGlobalMemCaseIdToInt64(r, id)
    IN /\ g \div 2^kRankShift = r
       /\ g % 2^kRankShift = SerializeMemCaseIdToInt64(id)

\* Writing a buffer's decoded (valid) MemCaseId into a fresh MemoryCase
\* (SerializeMemCaseIdToMemCase) and decoding it again gives the same id.
RoundTrip ==
  \A b \in Buffers :
    LET id == DecodeMemCase(mcs[b]) IN
    id.type # "Invalid" =>
      DecodeMemCase(SerializeMemCaseIdToMemCase(id, EmptyMemoryCase)) = id

\* Patching never weakens a buffer: along any chain of PatchMemCase calls,
\* a non-CPU MemoryCase stays as it is, and a host one keeps its network
\* registration and never loses its page-locking.
Tightens(before, after) ==
  /\ before.net => after.net
  /\ before.pinned # "Invalid" => after.pinned # "Invalid"
  /\ before.type # "CPU" => after = before

PatchNeverWeakens ==
  [][\A b \in Buffers :
       DecodeMemCase(mcs'[b]).type = DecodeMemCase(mcs[b]).type =>
         Tightens(DecodeMemCase(mcs[b]), DecodeMemCase(mcs'[b]))]_vars

\* spec 7: a failed Patch is an expected outcome reported by returning
\* false; no PatchMemCase call ends the process.
PatchNeverAborts ==
  [][~\E dst, src \in Buffers : dst # src /\ PatchAbort(dst, src)]_vars

\* spec 4.1: the staging host MemoryCase of a device buffer is page-locked
\* for that buffer's device type.
StagedHostPinnedForDevice ==
  [][\A b \in Buffers :
       LET before == DecodeMemCase(mcs[b])
           after == DecodeMemCase(mcs'[b])
       IN before.type \notin {"Invalid", "CPU"} /\ after.type = "CPU" =>
            after.pinned = before.type]_vars

\* spec 3: MemCaseId equality is field-wise, so two MemoryCases compare
\* equal (operator==) exactly when their int64 keys are equal.
EqualityAgreesWithKey ==
  \A a, b \in Buffers :
    MemoryCaseEq(mcs[a], mcs[b]) <=>
      SerializeMemCaseIdToInt64(DecodeMemCase(mcs[a]))
        = SerializeMemCaseIdToInt64(DecodeMemCase(mcs[b]))

=============================================================================
