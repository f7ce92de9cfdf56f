------------------------------ MODULE Devices ------------------------------
(***************************************************************************)
(* Device discovery and access: plic_init, virtio_init and serial_init     *)
(* (kern/plic.c, kern/virtio.c, kern/serial.c) look their nodes up in the  *)
(* parsed tree, decode them and enter them in the device table of          *)
(* kern/device.c; the drivers then find their devices, read and write      *)
(* registers and enable interrupts by system calls.                        *)
(*                                                                         *)
(* Physical addresses are small numbers, a page is PAGE_SIZE of them, and  *)
(* a virtual address is an offset into the kmmap window.  Of the window    *)
(* only its first-fit order is kept: nothing is unmapped here, so the next *)
(* mapping begins where the last one ended.                                *)
(***************************************************************************)
EXTENDS DeviceTree

CONSTANTS
    MAX_VIRTIO_COUNT,    \* nodes virtio_init has room for: 64
    PAGE_SIZE,
    PLIC_ENABLE,         \* the PLIC's registers for context 1, as offsets: 0x2080,
    PLIC_THRESHOLD,      \* 0x201000 and 0x201004 (PLIC_*_CONTEXT_1_OFFSET); the
    PLIC_CLAIM,          \* priorities begin at 0
    Access,              \* the [pa, len] the drivers read and write
    Codes,               \* the interrupt codes drivers ask for
    MaxCalls             \* bound: system calls in a behaviour

VARIABLES
    stage,        \* where riscv64_init is: "parse", "plic", "virtio", "serial", "run", "panic"
    devices,      \* the table: [type, id, data, range] in order
    capacity,     \* devices.capacity
    mapped,       \* the window: [va, pa, len] of every mapping, page-rounded
    plic,         \* the PLIC's driver: [dev, base, count], dev = 0 before plic_init
    handler,      \* interrupt codes with an entry in interrupt_handler
    enabled,      \* bits set in the PLIC's enable registers of the context
    prority,      \* sources with a priority above the threshold 0
    sie,          \* bits enable_interrupt set in the sie register
    last,         \* the result of the last system call or interrupt
    calls         \* system calls so far

devVars == <<stage, devices, capacity, mapped, plic, handler, enabled,
             prority, sie, last, calls>>

Nothing == [op |-> "none"]
DeviceType == {"plic", "virtio_mmio", "serial"}

DevInit ==
    /\ stage = "parse"
    /\ devices = <<>> /\ capacity = 0 /\ mapped = {}
    /\ plic = [dev |-> 0, base |-> 0, count |-> 0]
    /\ handler = {} /\ enabled = {} /\ prority = {} /\ sie = {}
    /\ last = Nothing /\ calls = 0

----------------------------------------------------------------------------
(* Decoding a node: [ret, data], where data begins as zero and keeps what  *)
(* was stored before an early return.                                      *)

Zero == [irq |-> 0, parent |-> 0, pa |-> 0, len |-> 0, clock |-> 0,
         count |-> 0, s_code |-> 0]

Compatible(n, model) ==
    has(n, "compatible") /\ contains_string(value(n, "compatible"), model)
Cells(n, name) == has(n, name) /\ value(n, name) # <<>>

Wired(n, model) ==
    Compatible(n, model) /\ Cells(n, "interrupts") /\ has(n, "interrupt-parent")

Plic(n) == /\ Compatible(n, "sifive,plic-1.0.0")
           /\ has(n, "riscv,ndev") /\ Len(value(n, "riscv,ndev")) = 1

\* get_reg_item panics on a node without cell counts above it.
RegPanics(n) == /\ Wired(n, "virtio,mmio") \/ Wired(n, "ns16550a") \/ Plic(n)
                /\ has(n, "reg")
                /\ get_address_cells_count(n) = 0 \/ get_size_cells_count(n) = 0

WithReg(n, data) == [data EXCEPT !.pa = get_reg_item(n, 0).address,
                                 !.len = get_reg_item(n, 0).size]

Device_(n, model) ==     \* the part virtio and serial nodes share
    IF Wired(n, model) /\ get_reg_item(n, 0).ret = 0
      THEN [ret |-> 0,
            data |-> [WithReg(n, Zero) EXCEPT !.irq = value(n, "interrupts")[1],
                                              !.parent = value(n, "interrupt-parent")[1]]]
      ELSE [ret |-> 1, data |-> Zero]

parse_virtio_device(n) == Device_(n, "virtio,mmio")

parse_serial_device(n) ==
    LET d == Device_(n, "ns16550a") IN
    IF d.ret # 0 THEN d
    ELSE IF ~has(n, "clock-frequency") \/ Len(value(n, "clock-frequency")) # 1
      THEN [d EXCEPT !.ret = 1]
      ELSE [d EXCEPT !.data.clock = value(n, "clock-frequency")[1]]

parse_plic_device(n) ==
    IF ~Plic(n)
      THEN [ret |-> 1, data |-> Zero]
      ELSE LET ndev == [Zero EXCEPT !.count = value(n, "riscv,ndev")[1]]
               reg == WithReg(n, ndev)
               ext == value(n, "interrupts-extended")
           IN  IF get_reg_item(n, 0).ret # 0 THEN [ret |-> 1, data |-> ndev]
               ELSE IF ~has(n, "interrupts-extended") \/ Len(ext) \notin {2, 4}
                 THEN [ret |-> 1, data |-> reg]
                 ELSE [ret |-> IF ext[Len(ext)] >= 64 THEN 1 ELSE 0,
                       data |-> [reg EXCEPT !.s_code = ext[Len(ext)]]]

----------------------------------------------------------------------------
(* The device table: [devices, capacity, mapped], and whether map_mem has  *)
(* panicked.                                                               *)

RoundUp(n) == ((n + PAGE_SIZE - 1) \div PAGE_SIZE) * PAGE_SIZE

\* A bug: every mapping takes one page of the window.
WindowEnd_OnePage(ms) == PAGE_SIZE * Cardinality(ms)

WindowEnd(ms) == FoldSet(LAMBDA m, s : s + RoundUp(m.len), 0, ms)

\* add_device: the array doubles when it is full (from 0 to 2).
add_device(tab, type, data) ==
    [tab EXCEPT
        !.capacity = IF Len(tab.devices) < @ THEN @ ELSE IF @ = 0 THEN 2 ELSE 2 * @,
        !.devices = Append(@, [type |-> type, id |-> Len(@), data |-> data,
                               range |-> <<>>])]

\* map_mem panics on an address that is not at the beginning of a page,
\* whatever the length.  A length of 0 maps nothing.
map_mem(tab, va, pa, len) ==
    [tab EXCEPT
        !.mapped = IF len = 0 THEN @ ELSE @ \cup {[va |-> va, pa |-> pa, len |-> len]},
        !.panic = @ \/ va % PAGE_SIZE # 0 \/ pa % PAGE_SIZE # 0]

\* add_mmio_range to the device just added.
add_mmio_range(tab, pa, len) ==
    LET va == WindowEnd(tab.mapped) IN
    [map_mem(tab, va, pa, len) EXCEPT
        !.devices[Len(tab.devices)].range = << [pa |-> pa, len |-> len, va |-> va] >> \o @]

register(tab, type, data) ==
    add_mmio_range(add_device(tab, type, data), data.pa, data.len)

register_plic_device(tab, data) == register(tab, "plic", data)

Table_ == [devices |-> devices, capacity |-> capacity, mapped |-> mapped, panic |-> FALSE]
SetTable(tab) == /\ devices' = tab.devices
                 /\ capacity' = tab.capacity
                 /\ mapped' = tab.mapped

\* get_mapped_pa: the first range of the device that holds pa; {} is a panic.
get_mapped_pa(dev, pa) ==
    LET hits == SelectSeq(dev.range, LAMBDA r : pa >= r.pa /\ pa < r.pa + r.len)
    IN  IF hits = <<>> THEN {} ELSE {Head(hits).va + (pa - Head(hits).pa)}

----------------------------------------------------------------------------
(* riscv64_init *)

\* The kernel stops; by is the panic that stopped it.
Panic(by) == stage' = "panic" /\ last' = [op |-> "panic", by |-> by]

BootPanic(by) == Panic(by) /\ UNCHANGED <<treeVars, devices, capacity, mapped, plic,
                                          handler, enabled, prority, sie, calls>>

device_tree_init ==
    /\ stage = "parse"
    /\ \/ parse_tree /\ UNCHANGED devVars
       \/ /\ parsed /\ stage' = "plic"
          /\ UNCHANGED <<treeVars, devices, capacity, mapped, plic, handler,
                         enabled, prority, sie, last, calls>>

\* enable_interrupt ors the code itself into sie: its binary digits are the
\* bits set.
enable_interrupt(code) == {b \in 0 .. 6 : (code \div 2^b) % 2 = 1}

\* plic_init registers the first PLIC whatever parse_plic_device returned,
\* register_interrupt_handler has 64 places, and the threshold is the first
\* register of the PLIC to be accessed.
plic_init ==
    /\ stage = "plic"
    /\ LET found == find_by_type("plic", 1) IN
       IF found = <<>>
         THEN /\ stage' = "virtio"
              /\ UNCHANGED <<treeVars, devices, capacity, mapped, plic, handler,
                             enabled, prority, sie, last, calls>>
         ELSE LET data == parse_plic_device(found[1]).data
                  tab == register_plic_device(Table_, data)
              IN  IF RegPanics(found[1]) THEN BootPanic("cells")
                  ELSE IF tab.panic THEN BootPanic("map_mem")
                  ELSE IF data.s_code >= 64 THEN BootPanic("register_interrupt_handler")
                  ELSE IF get_mapped_pa(Last(tab.devices), data.pa + PLIC_THRESHOLD) = {}
                    THEN BootPanic("get_mapped_pa")
                    ELSE /\ SetTable(tab)
                         /\ plic' = [dev |-> Len(tab.devices), base |-> data.pa,
                                     count |-> data.count]
                         /\ sie' = sie \cup enable_interrupt(data.s_code)
                         /\ stage' = "virtio"
                         /\ UNCHANGED <<treeVars, handler, enabled, prority, last, calls>>

\* The devices of a type, entered in the order found, whatever their decoding
\* returned.
EnterAll(found, Parse(_), type, after) ==
    LET tab == FoldLeft(LAMBDA t, n : register(t, type, Parse(n).data), Table_, found) IN
    IF \E n \in ToSet(found) : RegPanics(n) THEN BootPanic("cells")
    ELSE IF tab.panic THEN BootPanic("map_mem")
    ELSE /\ SetTable(tab)
         /\ stage' = after
         /\ UNCHANGED <<treeVars, plic, handler, enabled, prority, sie, last, calls>>

virtio_init ==
    /\ stage = "virtio"
    /\ EnterAll(find_by_type("virtio_mmio", MAX_VIRTIO_COUNT), parse_virtio_device,
                "virtio_mmio", "serial")

serial_init ==
    /\ stage = "serial"
    /\ EnterAll(find_by_type("serial", 1), parse_serial_device, "serial", "run")

----------------------------------------------------------------------------
(* System calls *)

Call == stage = "run" /\ calls < MaxCalls /\ calls' = calls + 1 /\ UNCHANGED treeVars
UnchangedTable == UNCHANGED <<devices, capacity, mapped, plic, sie>>
UnchangedPlic == UNCHANGED <<handler, enabled, prority>>

OfType(type) == SelectSeq(devices, LAMBDA d : d.type = type)
get_device_count(type) == Len(OfType(type))

\* sys_get_device, user_find_device_by_type: the device of the type at idx.
user_find_device_by_type(type, idx) ==
    IF idx < get_device_count(type)
      THEN [op |-> "device", type |-> type, idx |-> idx, data |-> OfType(type)[idx + 1].data]
      ELSE [op |-> "E_NO_DEV", type |-> type, idx |-> idx]

sys_get_device(type, idx) ==
    /\ Call
    /\ last' = user_find_device_by_type(type, idx)
    /\ UNCHANGED stage /\ UnchangedTable /\ UnchangedPlic

sys_get_device_count(type) ==
    /\ Call
    /\ last' = [op |-> "count", type |-> type, n |-> get_device_count(type)]
    /\ UNCHANGED stage /\ UnchangedTable /\ UnchangedPlic

\* is_illegal_device_pa_range: the devices with a range that holds the first
\* byte, in order.
Owners(pa) == SelectSeq(devices, LAMBDA d : get_mapped_pa(d, pa) # {})

Target(pa) == Owners(pa)[1]

\* An access of sys_read_dev or sys_write_dev; lens has a branch, another
\* legal length ends in the panic at the bottom.
Access_(op, a, lens) ==
    /\ Call
    /\ IF a.len \notin {1, 2, 4, 8} \/ Owners(a.pa) = <<>>
         THEN last' = [op |-> "E_INVAL", pa |-> a.pa, len |-> a.len] /\ UNCHANGED stage
         ELSE LET va == get_mapped_pa(Target(a.pa), a.pa) IN
              IF va = {} \/ a.len \notin lens
                THEN stage' = "panic" /\ last' = [op |-> "panic", by |-> op, len |-> a.len]
                ELSE /\ last' = [op |-> op, pa |-> a.pa, len |-> a.len,
                                 va |-> CHOOSE v \in va : TRUE]
                     /\ UNCHANGED stage
    /\ UnchangedTable /\ UnchangedPlic

sys_read_dev(a) == Access_("read", a, {1, 2, 4, 8})

\* The branch for eight bytes tests for four a second time.
sys_write_dev(a) == Access_("write", a, {1, 2, 4})

\* plic_enable_interrupt: code \div 32, which counts registers, is added to
\* the address as bytes.
\* A bug: one enable register serves all codes.
EnableBit_OneRegister(code) == code % 8

EnableBit(code) == 8 * (code \div 32) + (code % 32)

\* The PLIC's own register at an offset is inside what its node states.
Has(offset) == get_mapped_pa(devices[plic.dev], plic.base + offset) # {}

plic_set_prority(code) == prority' = prority \cup {code}

plic_enable_interrupt(code) ==
    IF ~Has(PLIC_ENABLE + code \div 32) \/ ~Has(4 * code)
      THEN Panic("get_mapped_pa") /\ UnchangedPlic
      ELSE /\ handler' = handler \cup {code}
           /\ enabled' = enabled \cup {EnableBit(code)}
           /\ plic_set_prority(code)
           /\ last' = [op |-> "handler", code |-> code]
           /\ UNCHANGED stage

plic_get_interrupt_count == plic.count

\* The codes a claim may return: the PLIC raises an enabled source of positive
\* priority.
plic_get_interrupt_code == enabled \cap prority

\* plic_get_interrupt_count panics without a PLIC.  user: handler_va is an
\* address of user space.
sys_set_interrupt_handler(code, user) ==
    /\ Call
    /\ IF plic.dev = 0 THEN Panic("no plic") /\ UnchangedPlic
       ELSE IF code >= plic_get_interrupt_count \/ ~user
         THEN last' = [op |-> "E_INVAL", code |-> code] /\ UNCHANGED stage /\ UnchangedPlic
         ELSE plic_enable_interrupt(code)
    /\ UnchangedTable

\* handle_plic_interrupt claims a code; a source without a handler is logged and
\* never completed, and the PLIC sends it no more.
handle_plic_interrupt(code) ==
    /\ Call
    /\ code \in plic_get_interrupt_code
    /\ IF ~Has(PLIC_CLAIM) THEN Panic("get_mapped_pa")
       ELSE IF code >= plic.count THEN Panic("handle_plic_interrupt")
       ELSE /\ last' = [op |-> IF code \in handler THEN "handled" ELSE "lost", code |-> code]
            /\ UNCHANGED stage
    /\ UnchangedTable /\ UnchangedPlic

DevNext ==
    \/ device_tree_init \/ plic_init \/ virtio_init \/ serial_init
    \/ \E type \in DeviceType, idx \in 0 .. 2 : sys_get_device(type, idx)
    \/ \E type \in DeviceType : sys_get_device_count(type)
    \/ \E a \in Access : sys_read_dev(a) \/ sys_write_dev(a)
    \/ \E code \in Codes, user \in BOOLEAN : sys_set_interrupt_handler(code, user)
    \/ \E code \in Codes : handle_plic_interrupt(code)

BootInit == TreeInit /\ DevInit
BootSpec == BootInit /\ [][DevNext]_<<treeVars, devVars>>

----------------------------------------------------------------------------
(* Properties *)

\* parse_tree makes the tree that the blob describes, find_by_type finds all of
\* it, and free_device_tree would release each node once.  (Compared up to the
\* state in which parse_tree has returned: no later step changes the tree.)
TreeFaithful ==
    stage = "parse" => TreeMatchesBlob /\ SearchComplete /\ FreedOnce

NodesOf(type) == {n \in DOMAIN node : node[n].base = type}
Only(n, type) == NodesOf(type) = {n}

\* The reference for a node's registers: the cell counts of its own parent.
RegOf(n) ==
    LET cells(name) == value(node[n].parent, name)[1]
        ac == cells("#address-cells")
        sc == cells("#size-cells")
        number(cs) == FoldLeft(LAMBDA high, c : high * WORD + c, 0, cs)
    IN  [pa |-> number(SubSeq(value(n, "reg"), 1, ac)),
         len |-> number(SubSeq(value(n, "reg"), ac + 1, ac + sc))]

\* Once the kernel runs, the table holds a device for every node of a known
\* kind that is well formed, with the registers and the interrupt its node
\* states (of the PLIC and of the serial port: for the first node, so these
\* are compared when there is one), the serial port with its clock too; and
\* the drivers see as many devices of a kind as the tree has nodes (the PLIC
\* and the serial port: at most one).
DiscoveryFaithful ==
    stage = "run" =>
        /\ \A n \in DOMAIN node :
              /\ node[n].base = "virtio_mmio" /\ parse_virtio_device(n).ret = 0 =>
                    \E i \in DOMAIN devices :
                        /\ devices[i].type = "virtio_mmio"
                        /\ devices[i].data.pa = RegOf(n).pa
                        /\ devices[i].data.len = RegOf(n).len
                        /\ devices[i].data.irq = value(n, "interrupts")[1]
              /\ Only(n, "plic") /\ parse_plic_device(n).ret = 0 =>
                    /\ plic.dev # 0
                    /\ devices[plic.dev].data.pa = RegOf(n).pa
                    /\ devices[plic.dev].data.len = RegOf(n).len
              /\ Only(n, "serial") /\ parse_serial_device(n).ret = 0 =>
                    LET d == user_find_device_by_type("serial", 0).data IN
                    /\ d.pa = RegOf(n).pa /\ d.len = RegOf(n).len
                    /\ d.irq = value(n, "interrupts")[1]
                    /\ d.clock = value(n, "clock-frequency")[1]
        /\ \A type \in DeviceType :
              get_device_count(type) =
                  IF type = "virtio_mmio" THEN Cardinality(NodesOf(type))
                  ELSE Min({1, Cardinality(NodesOf(type))})
        /\ Len(devices) <= capacity \/ devices = <<>>

\* What the page tables of the window say of a virtual address.
PhysicalOf(va) == {m.pa + (va - m.va) : m \in {x \in mapped :
                                            va \in x.va .. x.va + RoundUp(x.len) - 1}}

\* The device a byte belongs to, as the table states it.
DeviceOf(pa) == {d \in ToSet(devices) : \E k \in DOMAIN d.range :
                     pa \in d.range[k].pa .. d.range[k].pa + d.range[k].len - 1}

\* A register access reaches the registers it names: its first byte, and every
\* further byte of the same device, is mapped to the physical byte asked for;
\* and an access that is aligned to its length stays in its device.  (Of an
\* access that is not, only the first byte is checked: see WholeRangeChecked.)
AccessReachesDevice ==
    last.op \in {"read", "write"} =>
        /\ DeviceOf(last.pa) # {}
        /\ \A i \in 0 .. last.len - 1 :
              /\ DeviceOf(last.pa + i) = DeviceOf(last.pa) =>
                    PhysicalOf(last.va + i) = {last.pa + i}
              /\ last.pa % last.len = 0 => DeviceOf(last.pa + i) = DeviceOf(last.pa)

\* is_illegal_device_pa_range's comment: all of [pa, pa + len) is in a range.
WholeRangeChecked ==
    last.op \in {"read", "write"} =>
        \A i \in 0 .. last.len - 1 : DeviceOf(last.pa + i) # {}

\* A driver that registered a handler for one of the first 32 sources gets its
\* interrupts, and no source is raised that nobody handles: it would be
\* claimed and never completed.
HandlerIsReachable ==
    /\ handler \cap 0 .. 31 \subseteq enabled \cap prority
    /\ enabled \cap prority \subseteq handler
    /\ last.op # "lost"

\* The same of every source: what sys_set_interrupt_handler's callers expect.
EveryHandlerIsReachable == handler \subseteq enabled \cap prority

\* A tree riscv64_init understands: every device of a known kind begins at a
\* page, and the first PLIC is one it decodes, with all of the registers that
\* the kernel uses.
Understood ==
    /\ \A n \in NodesOf("virtio_mmio") \cup NodesOf("serial") :
          has(n, "reg") => RegOf(n).pa % PAGE_SIZE = 0
    /\ \A n \in NodesOf("plic") :
          /\ parse_plic_device(n).ret = 0
          /\ RegOf(n).pa % PAGE_SIZE = 0 /\ RegOf(n).len > PLIC_CLAIM

\* The kernel boots on every tree it understands and survives its drivers'
\* calls, but for two: a write of eight bytes, which sys_write_dev takes for a
\* legal length and has no branch for, and a handler on a machine without PLIC.
NoBootPanic ==
    stage = "panic" =>
        \/ ~Understood
        \/ last.by = "write" /\ last.len = 8
        \/ last.by = "no plic" /\ NodesOf("plic") = {}

\* sys_write_dev's precondition: eight bytes are as legal as one, two or four.
EveryLengthWritten == stage = "panic" => last.by # "write"

\* riscv64_init ends with every driver's interrupts wired, and the calls that
\* follow keep it so.
BootSound == NoBootPanic /\ HandlerIsReachable

\* The README says that the devices recognised are entered in the table.
OnlyRecognised ==
    stage = "run" => \A i \in DOMAIN devices : devices[i].data.len > 0

\* The comment of enable_interrupt says that it sets the bit of the code.
SieBitSet == plic.dev # 0 => devices[plic.dev].data.s_code \in sie
============================================================================
