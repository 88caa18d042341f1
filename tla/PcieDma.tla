------------------------------ MODULE PcieDma ------------------------------
(***************************************************************************)
(* The PCIe endpoint and the NPU's DMA engine over the AXI crossbar        *)
(* (sim/models/pcie.py, sim/models/crossbar.py).  The host writes and      *)
(* reads NPU memory through the endpoint; descriptors move bytes between   *)
(* host memory and NPU memory.  Every transfer is split into TLPs of at    *)
(* most MaxPayload bytes and one TLP is one step.  A TLP header carries no *)
(* state and is left out; so are the arbitration history and AXI ids that  *)
(* the crossbar keeps for its tests.                                       *)
(***************************************************************************)
EXTENDS Integers, Sequences, FiniteSetsExt

CONSTANTS HostBytes,    \* initial host memory, a sequence of byte values
          NpuBytes,     \* initial contents of the crossbar's slaves
          Base,         \* base address of each slave
          Dw,           \* bytes in a dword
          MaxPayload,   \* largest payload of a TLP, a multiple of Dw
          Tags,         \* PCIe tags, also the tags of descriptors
          HostAddrs, NpuAddrs, Lengths,   \* operands of the requests
          MaxRequests   \* bound: requests per behaviour

VARIABLES host,     \* DmaEngine.host_mem
          npu,      \* CrossbarModel.sram and .dram
          free,     \* _tag_free
          cplError, \* _completion_errors: injected completion statuses
          axiError, \* _axi_dec_errors
          status,   \* _desc_status
          irq,      \* _irq_pending
          op,       \* the request being served
          before,   \* history: both memories when the request started
          requests  \* history: requests so far

vars == <<host, npu, free, cplError, axiError, status, irq, op, before, requests>>

NoTag  == -1            \* tlp_write and tlp_read called without a descriptor
NoOp   == [kind |-> "idle"]
Slaves == DOMAIN NpuBytes
Take(s, n)  == SubSeq(s, 1, n)
Drop(s, n)  == SubSeq(s, n + 1, Len(s))
Zeros(n)    == [i \in 1..n |-> 0]
RoundUp(n)  == ((n + Dw - 1) \div Dw) * Dw

Padded(s) == s \o Zeros(RoundUp(Len(s)) - Len(s))
Smaller(a, b) == IF a < b THEN a ELSE b
HostByte(i) == IF i < Len(host) THEN host[i + 1] ELSE 0

(* CrossbarModel._decode: the slave that an address falls in. *)
Decoded(addr) == {s \in Slaves : Base[s] <= addr /\ addr < Base[s] + Len(npu[s])}

Slave(addr) == CHOOSE s \in Decoded(addr) : TRUE

(* CrossbarModel.read: a slice, which stops at the end of the memory. *)
CrossbarRead(addr, n) ==
  IF n = 0 THEN <<>>
  ELSE LET s == Slave(addr)
           off == addr - Base[s]
       IN SubSeq(npu[s], off + 1, Smaller(off + n, Len(npu[s])))

(* mem[off:off + len] = data, which lengthens a bytearray that is too short. *)
Spliced(mem, off, data) ==
  [i \in 1..Max({Len(mem), off + Len(data)}) |->
     IF off < i /\ i <= off + Len(data) THEN data[i - off] ELSE mem[i]]

(* Faulty: only one payload of the data is written. *)
CrossbarWriteOnce(addr, data) ==
  LET s == Slave(addr)
  IN npu' = [npu EXCEPT ![s] = Spliced(@, addr - Base[s], Take(data, Smaller(MaxPayload, Len(data))))]

(* CrossbarModel.write. *)
CrossbarWrite(addr, data) ==
  LET s == Slave(addr) IN npu' = [npu EXCEPT ![s] = Spliced(@, addr - Base[s], data)]

Init ==
  /\ host = HostBytes /\ npu = NpuBytes
  /\ free = Tags
  /\ cplError = [t \in Tags |-> "SC"] /\ axiError = {}
  /\ status = <<>> /\ irq = FALSE
  /\ op = NoOp /\ before = [host |-> HostBytes, npu |-> NpuBytes] /\ requests = 0

Begin ==
  /\ op.kind = "idle" /\ requests < MaxRequests
  /\ requests' = requests + 1
  /\ before' = [host |-> host, npu |-> npu]

(* The end of a request: a descriptor leaves its status and raises the IRQ. *)
Finish(tag, error) ==
  /\ op' = NoOp
  /\ status' = IF tag = NoTag THEN status ELSE Append(status, <<tag, error>>)
  /\ irq' = (irq \/ tag # NoTag)

(* submit_write_desc: the NPU bytes are read, then sent to the host. *)
SubmitWrite(pcie, axi, n, tag) ==
  /\ Begin
  /\ IF n > 0 /\ Decoded(axi) = {}
     THEN Finish(tag, "DECERR")
     ELSE /\ op' = [kind |-> "write", tag |-> tag, at |-> pcie, left |-> CrossbarRead(axi, n),
                    dst |-> pcie, src |-> axi, n |-> n]
          /\ UNCHANGED <<status, irq>>
  /\ UNCHANGED <<host, npu, free, cplError, axiError>>

(* Faulty: the padding is left out of account. *)
FitsUnpadded(data) == op.at + Len(data) <= Len(host)

Fits(data) == op.at + Len(Padded(data)) <= Len(host)

(* One Memory Write TLP: a chunk that does not fit in host memory is skipped. *)
WriteTlp ==
  /\ op.kind = "write" /\ op.left # <<>>
  /\ \E tag \in free :                                   \* posted: the tag is given back at once
       LET chunk == Take(op.left, Smaller(MaxPayload, Len(op.left)))
       IN /\ free' = (free \ {tag}) \cup {tag}
          /\ host' = IF Fits(chunk) THEN Spliced(host, op.at, Padded(chunk)) ELSE host
          /\ op' = [op EXCEPT !.left = Drop(@, Len(chunk)), !.at = @ + RoundUp(Len(chunk))]
  /\ UNCHANGED <<npu, cplError, axiError, status, irq, before, requests>>

WriteDone ==
  /\ op.kind = "write" /\ op.left = <<>>
  /\ Finish(op.tag, "NONE")
  /\ UNCHANGED <<host, npu, free, cplError, axiError, before, requests>>

(* submit_read_desc: an injected completion error ends it at once. *)
SubmitRead(pcie, axi, n, tag) ==
  /\ Begin
  /\ cplError' = IF tag = NoTag THEN cplError ELSE [cplError EXCEPT ![tag] = "SC"]
  /\ IF tag # NoTag /\ cplError[tag] # "SC"
     THEN Finish(tag, cplError[tag])
     ELSE /\ op' = [kind |-> "read", tag |-> tag, at |-> pcie, left |-> n, data |-> <<>>,
                    dst |-> axi, src |-> pcie, n |-> n]
          /\ UNCHANGED <<status, irq>>
  /\ UNCHANGED <<host, npu, free, axiError>>

TagAfter(tag, ok) == (free \ {tag}) \cup {tag}

Requested(left) == Smaller(left, MaxPayload)

(* One Memory Read TLP and its completion. *)
ReadTlp ==
  /\ op.kind = "read" /\ op.left > 0
  /\ \E tag \in free :
       LET n == Requested(op.left)
           ok == cplError[tag] = "SC"
       IN /\ free' = TagAfter(tag, ok)
          /\ cplError' = [cplError EXCEPT ![tag] = "SC"]
          /\ IF ok THEN /\ op' = [op EXCEPT !.data = @ \o [i \in 1..n |-> HostByte(op.at + i - 1)],
                                            !.at = @ + n, !.left = @ - n]
                        /\ UNCHANGED <<status, irq>>
                   ELSE Finish(op.tag, cplError[tag])
  /\ UNCHANGED <<host, npu, axiError, before, requests>>

(* The data of a read descriptor go to the NPU in one crossbar write. *)
ReadDone ==
  /\ op.kind = "read" /\ op.left = 0
  /\ CASE op.tag = NoTag -> Finish(NoTag, "NONE") /\ UNCHANGED <<npu, axiError>>
       [] op.tag \in axiError ->
            Finish(op.tag, "DECERR") /\ axiError' = axiError \ {op.tag} /\ UNCHANGED npu
       [] OTHER ->
            /\ IF Decoded(op.dst) = {}
               THEN Finish(op.tag, "DECERR") /\ UNCHANGED npu
               ELSE Finish(op.tag, "NONE") /\ CrossbarWrite(op.dst, op.data)
            /\ UNCHANGED axiError
  /\ UNCHANGED <<host, free, cplError, before, requests>>

(* PCIeModel.tlp_write: the host writes; only the first address is checked. *)
HostWrite(addr, data) ==
  /\ Begin /\ Decoded(addr) # {}
  /\ op' = [kind |-> "hostwrite", at |-> addr, left |-> data, dst |-> addr, n |-> Len(data)]
  /\ UNCHANGED <<host, npu, free, cplError, axiError, status, irq>>

HostWriteTlp ==
  /\ op.kind = "hostwrite"
  /\ LET chunk == Take(op.left, Smaller(MaxPayload, Len(op.left)))
     IN IF chunk = <<>> \/ Decoded(op.at) = {}           \* done, or ValueError half way
        THEN op' = NoOp /\ UNCHANGED npu
        ELSE /\ CrossbarWrite(op.at, Padded(chunk))
             /\ op' = [op EXCEPT !.left = Drop(@, Len(chunk)), !.at = @ + RoundUp(Len(chunk))]
  /\ UNCHANGED <<host, free, cplError, axiError, status, irq, before, requests>>

InjectCompletionError(tag, code) ==
  /\ op.kind = "idle" /\ cplError' = [cplError EXCEPT ![tag] = code]
  /\ UNCHANGED <<host, npu, free, axiError, status, irq, op, before, requests>>

InjectAxiError(tag) ==
  /\ op.kind = "idle" /\ axiError' = axiError \cup {tag}
  /\ UNCHANGED <<host, npu, free, cplError, status, irq, op, before, requests>>

(* The draining reads of desc_status and irq. *)
DrainStatus ==
  /\ op.kind = "idle" /\ status' = <<>>
  /\ UNCHANGED <<host, npu, free, cplError, axiError, irq, op, before, requests>>

ReadIrq ==
  /\ op.kind = "idle" /\ irq' = FALSE
  /\ UNCHANGED <<host, npu, free, cplError, axiError, status, op, before, requests>>

Submit ==
  \E p \in HostAddrs, a \in NpuAddrs, n \in Lengths, t \in Tags :
    SubmitWrite(p, a, n, t) \/ SubmitRead(p, a, n, t)

DirectRead == \E p \in HostAddrs, n \in Lengths : SubmitRead(p, 0, n, NoTag)

Next ==
  \/ Submit \/ DirectRead
  \/ WriteTlp \/ WriteDone \/ ReadTlp \/ ReadDone
  \/ \E a \in NpuAddrs, n \in Lengths : HostWrite(a, [i \in 1..n |-> 50 + i])
  \/ HostWriteTlp
  \/ \E t \in Tags : InjectAxiError(t) \/ \E c \in {"UR", "CA"} : InjectCompletionError(t, c)
  \/ DrainStatus \/ ReadIrq

(* The steps of a request that was started. *)
Transfer == WriteTlp \/ WriteDone \/ ReadTlp \/ ReadDone \/ HostWriteTlp

Spec == Init /\ [][Next]_vars /\ WF_vars(Transfer)
----------------------------------------------------------------------------
(* Types; between two TLPs no tag is allocated, whatever path the last one *)
(* left by.                                                                *)
TypeOK ==
  /\ free = Tags /\ axiError \subseteq Tags
  /\ cplError \in [Tags -> {"SC", "UR", "CA"}]
  /\ \A i \in DOMAIN status : status[i] \in Tags \X {"NONE", "UR", "CA", "DECERR"}
  /\ op.kind \in {"idle", "write", "read", "hostwrite"}

(* A request changes only its destination, and at most the padding of its  *)
(* last dword beyond it, while it runs and after it ends.                  *)
Touched(mem, old, first, n) ==
  \A i \in 1..Len(old) : mem[i] = old[i] \/ (first < i /\ i <= first + RoundUp(n))

StaysInItsRange ==
  /\ op.kind = "write" =>
       Touched(host, before.host, op.dst, op.n) /\ npu = before.npu
  /\ op.kind = "read" => host = before.host /\ npu = before.npu
  /\ op.kind = "hostwrite" =>
       /\ host = before.host
       /\ \A s \in Slaves : Touched(npu[s], before.npu[s], op.dst - Base[s], op.n)

(* The TLP with byte i of n bytes for the host, padded, ends in what was   *)
(* host memory when the request started.                                   *)
Lands(i, n) ==
  op.dst + Smaller(((i - 1) \div MaxPayload + 1) * MaxPayload, RoundUp(n)) <= Len(before.host)

(* A read descriptor has put the host's bytes, zeros past the end of host  *)
(* memory, at its destination.                                             *)
ReadArrived ==
  LET s == Slave(op.dst)
      first == op.dst - Base[s]
  IN SubSeq(npu'[s], first + 1, Smaller(first + op.n, Len(npu'[s])))
       = [i \in 1..op.n |-> HostByte(op.src + i - 1)]

(* A write descriptor has put the bytes its source has, which may be fewer *)
(* than were asked for, at their place in host memory, if their TLP lands; *)
(* the bytes of the others have changed nothing.                           *)
WriteArrived ==
  LET data == CrossbarRead(op.src, op.n)
  IN \A i \in DOMAIN data :
       IF Lands(i, Len(data)) THEN host'[op.dst + i] = data[i]
       ELSE op.dst + i <= Len(before.host) => host'[op.dst + i] = before.host[op.dst + i]

(* A descriptor that ends with an error has moved nothing.  One that ends  *)
(* without has moved what a read asked for, but of a write only the TLPs   *)
(* that end in host memory: the others are skipped and reported as moved.  *)
ReportingStep ==
  status' # status /\ status' # <<>> =>
    LET error == status'[Len(status')][2]
    IN /\ error # "NONE" => host' = before'.host /\ npu' = before'.npu
       /\ error = "NONE" /\ op.kind = "read" => ReadArrived
       /\ error = "NONE" /\ op.kind = "write" => WriteArrived
ReportsTheTransfer == [][ReportingStep]_vars

(* Every request that is accepted is brought to its end. *)
Serving == op.kind # "idle"
RequestEnds == Serving ~> ~Serving

============================================================================
