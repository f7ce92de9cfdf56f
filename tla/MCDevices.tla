----------------------------- MODULE MCDevices -----------------------------
(***************************************************************************)
(* Device trees for TLC, in the shape of the one QEMU's virt machine has:  *)
(* a root with two address and two size cells, a bus of the same counts    *)
(* with the PLIC, the virtio devices and the serial port, and processors   *)
(* with counts of their own.                                               *)
(***************************************************************************)
EXTENDS Devices

P(name, val) == << [t |-> "prop", name |-> name, val |-> val] >>
T(t) == << [t |-> t] >>

\* A node with its properties and children, as tokens.
Node(base, chars, body) ==
    << [t |-> "begin", base |-> base, chars |-> chars] >>
      \o (IF chars % 4 = 0 THEN T("pad") ELSE <<>>) \o body \o T("end")

TwoTwo == P("#address-cells", <<2>>) \o P("#size-cells", <<2>>)
Reg(pa, len) == P("reg", <<pa \div WORD, pa % WORD, len \div WORD, len % WORD>>)
Irq(i) == P("interrupts", <<i>>) \o P("interrupt-parent", <<3>>)

PlicAt(pa, len, code) == Node("plic", 12, P("phandle", <<3>>)
    \o P("compatible", {"sifive,plic-1.0.0", "riscv,plic0"}) \o P("riscv,ndev", <<48>>)
    \o Reg(pa, len) \o P("interrupts-extended", <<1, 11, 1, code>>))
PlicNode == PlicAt(256, 208, 9)
VirtioNode(pa, irq) == Node("virtio_mmio", 20,
    Irq(irq) \o Reg(pa, 16) \o P("compatible", {"virtio,mmio"}))
SerialNode == Node("serial", 15, Irq(10) \o P("clock-frequency", <<384>>)
    \o Reg(16, 8) \o P("compatible", {"ns16550a"}))
Cpus == Node("cpus", 4, P("#address-cells", <<1>>) \o P("#size-cells", <<0>>)
    \o Node("cpu", 5, P("reg", <<0>>)
             \o Node("interrupt-controller", 20, P("phandle", <<1>>))))

Root(body) == T("header") \o Node("", 0, TwoTwo \o body) \o T("stop")
Soc(body) == Node("soc", 3, T("nop") \o TwoTwo \o body)

\* The machine, and machines that lack a part of it; a serial port without a
\* clock frequency; a blob that ends in an unknown token; one nested deeper
\* than the parser's stack; one that closes a node it never opened and goes
\* on; one without the magic number.
Machine == Root(Cpus \o Soc(VirtioNode(48, 2) \o VirtioNode(32, 1)
                             \o VirtioNode(64, 8) \o PlicNode \o SerialNode))
NoPlic == Root(Soc(VirtioNode(32, 1) \o SerialNode))
NoClock == Root(Soc(PlicNode \o Node("serial", 15, Irq(10) \o Reg(16, 8)
                                       \o P("compatible", {"ns16550a"}))))
Cut == T("header") \o Node("", 0, TwoTwo \o Soc(PlicNode \o VirtioNode(32, 1))
                     \o T("bad") \o SerialNode) \o T("stop")
Deep == Root(Soc(PlicNode \o Node("a", 1, Node("b", 1, Node("c", 1, <<>>)))
                   \o VirtioNode(32, 1)))
Unbalanced == T("header") \o Node("", 0, TwoTwo \o Soc(PlicNode)) \o T("end")
                \o SerialNode \o T("stop")
NoMagic == Tail(Machine)

GoodBlobs == {Machine, NoPlic, NoClock, Cut, Deep, Unbalanced, NoMagic}

\* Devices that do not begin at a page; a PLIC too short for its registers, and
\* one wired to an interrupt the kernel has no place for.
BadBlobs == {Root(Soc(PlicNode \o VirtioNode(40, 1))),
             Root(Soc(PlicAt(264, 208, 9))), Root(Soc(PlicAt(256, 192, 9))),
             Root(Soc(PlicAt(256, 208, 64)))}
AnyBlobs == GoodBlobs \cup BadBlobs

\* A virtio device of another make.
OtherVirtio == Root(Soc(PlicNode \o Node("virtio_mmio", 20, Irq(2) \o Reg(48, 16)
                            \o P("compatible", {"virtio,other"})) \o VirtioNode(32, 1)))
StrangeBlobs == {OtherVirtio}

\* More nodes than the search queue has places.
Crowded == Root(Soc(PlicNode \o FlattenSeq([i \in 1 .. 12 |-> VirtioNode(16 + 16 * i, i)])))
CrowdedBlobs == {Crowded}

\* A bus whose registers are narrower than the root's.
Narrow == T("header") \o Node("", 0, TwoTwo \o Node("soc", 3,
              P("#address-cells", <<1>>) \o P("#size-cells", <<1>>)
                \o Node("virtio_mmio", 20, Irq(1) \o P("reg", <<32, 16, 0, 0>>)
                          \o P("compatible", {"virtio,mmio"})))) \o T("stop")
NarrowBlobs == {Narrow}

\* Accesses around the ends of the serial port, of the virtio devices and of
\* the PLIC and its pages; of lengths legal and not; aligned and not.
Anywhere == [pa : {15, 16, 20, 22, 23, 24, 32, 36, 44, 47, 48, 63, 72, 79, 80,
                   256, 271, 272, 460, 463, 464},
             len : {1, 2, 3, 4, 8}]
============================================================================
