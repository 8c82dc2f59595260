-------------------------------- MODULE MCFiles --------------------------------
(* Small instances of Files for TLC. *)
EXTENDS Files, TLC

CONSTANTS base, root, dev, devroot, tty, hd, sh, bin

\* /, /dev with devfs on it, /dev/tty, /dev/hd (a block device), /sh, /bin
TreeNode == {base, root, dev, devroot, tty, hd, sh, bin}
TreeUp == [n \in TreeNode |->
             CASE n \in {dev, sh, bin} -> root [] n \in {tty, hd} -> devroot [] OTHER -> NoNode]
TreePoint == [n \in TreeNode |-> CASE n = root -> base [] n = devroot -> dev [] OTHER -> NoNode]
TreeOrder == <<dev, sh, bin>>
R(kind, absolute, mode, steps) ==
  [kind |-> kind, absolute |-> absolute, mode |-> mode, steps |-> steps]
TreeRequest ==
  {R("open", TRUE, "read", <<dev>>), R("open", TRUE, "cloexec", <<>>),
   R("open", TRUE, "directory", <<dev, tty>>), R("open", FALSE, "write", <<"..", sh>>),
   R("exec", TRUE, "read", <<sh>>), R("chdir", TRUE, "read", <<dev>>)}
Files2 == Permutations(FileId)

=============================================================================
