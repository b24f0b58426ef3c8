------------------------------- MODULE Trash -------------------------------
(***************************************************************************)
(* The disk as internal/trash sees it: which object (inode) is at which    *)
(* place, the Trash's and the staging directory's names, and the receipts  *)
(* that say where a moved item went.                                       *)
(***************************************************************************)
EXTENDS Naturals, FiniteSets

CONSTANTS Path,         \* the original locations plans name
          Obj,          \* inode numbers; 0 is no inode
          Copies,       \* how many copies of one name the Trash may hold
          Fold          \* a name in lower case

VARIABLES world,        \* what a behaviour starts from, and never changes
          refused       \* locations whose Lstat fails other than for want of an item

Base == world.base             \* a path's last element
CaseBlind == world.caseBlind   \* whether the volume takes Cache and cache for one

ASSUME ObjAssumption == Obj \subseteq Nat \ {0}
ASSUME CopiesAssumption == Copies \in Nat \ {0}

Nowhere == <<>>              \* deleted
Unborn == <<"unborn">>        \* not made yet
InTrash(name, n) == <<"trash", name, n>>
InStaging(run, name, n) == <<"staging", run, name, n>>
IsTrash(loc) == loc \notin Path /\ loc # Nowhere /\ loc[1] = "trash"
IsStaging(loc) == loc \notin Path /\ loc # Nowhere /\ loc[1] = "staging"

\* The place a location names on this volume.
FoldLoc(loc) == IF IsTrash(loc) THEN InTrash(Fold[loc[2]], loc[3])
                ELSE IF IsStaging(loc) THEN InStaging(loc[2], Fold[loc[3]], loc[4])
                ELSE loc
Place(loc) == IF CaseBlind THEN FoldLoc(loc) ELSE loc

\* Lstat: what is at loc (one object at most).
At(where, loc) == {o \in Obj : Place(where[o]) = Place(loc)}
Exists(where, loc) == At(where, loc) # {}

\* Lstat's third answer: neither what is at loc nor that nothing is.
Refused(loc) == \E x \in refused : Place(x) = Place(loc)

Least(S) == CHOOSE n \in S : \A m \in S : n <= m

\* Finder names a copy after the item, or after the item and the time of
\* day when the Trash holds that name; a name is free again once nothing
\* in the Trash has it.
FreeInTrash(where, name) == {n \in 1..Copies : ~Exists(where, InTrash(name, n))}
FinderName(where, path) == InTrash(Base[path], Least(FreeInTrash(where, Base[path])))

\* stage's loop: base, base-2, base-3, ...
FreeInStaging(where, run, name) == {n \in 1..Copies : ~Exists(where, InStaging(run, name, n))}
StagingName(where, run, path) ==
  InStaging(run, Base[path], Least(FreeInStaging(where, run, Base[path])))

----------------------------------------------------------------------------
(* Receipts. *)

NoReceipt == [from |-> Nowhere, to |-> Nowhere, method |-> "none", ino |-> 0]
MoveReceipt(path, to, ino) ==
  [from |-> path, to |-> to, method |-> IF IsTrash(to) THEN "finder" ELSE "staging", ino |-> ino]
ExportReceipt == [NoReceipt EXCEPT !.method = "export"]

Restorable(receipt) == receipt.method \in {"finder", "staging"}

\* A receipt without an identity holds whatever is at its copy's path.
holds(receipt, o) == receipt.ino \in {0, o}

\* (Variant: only whether anything is there.)
GoneByPath(where, receipt) == ~Refused(receipt.to) /\ ~Exists(where, receipt.to)

\* A copy whose Lstat is refused is not gone.
Gone(where, receipt) ==
  ~Refused(receipt.to) /\ \A o \in At(where, receipt.to) : ~holds(receipt, o)

\* (Variant: does not look at where the item goes back to.)
RestoreBlindly(where, receipt) == ~Refused(receipt.to) /\ ~Gone(where, receipt)

\* Restore's checks before it renames: to it a refused Lstat is an error.
MayRestore(where, receipt) == /\ ~Refused(receipt.to) /\ ~Gone(where, receipt)
                              /\ ~Exists(where, receipt.from)

\* rename(2): what is at src is at dst, and what was at dst is no more.
Renamed(where, src, dst) ==
  [o \in Obj |-> IF o \in At(where, src) THEN dst
                 ELSE IF o \in At(where, dst) THEN Nowhere
                 ELSE where[o]]
============================================================================
