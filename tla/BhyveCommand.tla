---------------------------- MODULE BhyveCommand ----------------------------
(***************************************************************************)
(* buildBhyveCommand of internal/vm/manager.go: the PCI slots and the VNC  *)
(* port of a command line, from what the VM's configuration asks for.  The *)
(* flags that are the same for every VM, and texts, are left out.          *)
(***************************************************************************)
EXTENDS Naturals

(* What config.VMConfig asks for: numbers of disks and of networks, and    *)
(* whether there is a VNC framebuffer.                                     *)
VMConfig == [disks: Nat, nets: Nat, vnc: BOOLEAN]

(* What Create makes: one tap network.                                     *)
Created == [disks |-> 0, nets |-> 1, vnc |-> FALSE]

(* What an empty file is read as.                                          *)
Blank == [disks |-> 0, nets |-> 0, vnc |-> FALSE]

NoPort == 0

Fixed == {<<0, "hostbridge">>, <<1, "lpc">>}

(* k devices of one kind, from slot first on.                              *)
Row(first, k, device) == {<<s, device>> : s \in first .. (first + k - 1)}

Framebuffer(slot) == {<<slot, "fbuf">>, <<slot + 1, "xhci">>}

(* Mutant: the slot is not counted up behind the disks.                    *)
SlotsOverlap(c) ==
  Fixed \cup Row(2, c.disks, "virtio-blk") \cup Row(2, c.nets, "virtio-net")
  \cup (IF c.vnc THEN Framebuffer(2 + c.disks + c.nets) ELSE {})

Slots(c) ==
  LET net == 2 + c.disks
      vnc == net + c.nets IN
  Fixed \cup Row(2, c.disks, "virtio-blk") \cup Row(net, c.nets, "virtio-net")
  \cup (IF c.vnc THEN Framebuffer(vnc) ELSE {})

CommandLine(c, port) ==
  [config |-> c, slots |-> Slots(c), port |-> IF c.vnc THEN port ELSE NoPort]

NoLine == [config |-> Blank, slots |-> {}, port |-> NoPort]

(* How many devices a configuration asks for.                              *)
Devices(c) == 2 + c.disks + c.nets + (IF c.vnc THEN 2 ELSE 0)
=============================================================================
