--------------------------- MODULE MCDataTransfer ---------------------------
(* Three imports over two first disks: see README.                       *)
EXTENDS DataTransfer, TLC

AnyUser == Permutations(Users)

Cred(ref, acct, tok, at) == [kind |-> "codex", ref |-> <<ref>>, acct |-> acct, org |-> "",
                             email |-> "", tok |-> tok, at |-> at]
Prov(name, ref, acct) == [name |-> <<name>>, ref |-> <<ref>>,
                          ident |-> IF acct = "" THEN <<>> ELSE <<"acct", acct>>]

\* A full backup, one from before identities were recorded, and external files.
Backup == [native |-> TRUE, global |-> 2, usage |-> 2,
           providers |-> <<Prov("p", "r1", "A"), Prov("q", "r2", "B")>>,
           credentials |-> <<Cred("r1", "A", "imported", 2), Cred("r2", "B", "imported", 2)>>]
OldBackup == [native |-> TRUE, global |-> 2, usage |-> 2,
              providers |-> <<Prov("q", "r2", "")>>, credentials |-> <<Cred("r2", "B", "imported", 2)>>]
External == [native |-> FALSE, global |-> 0, usage |-> 0, providers |-> <<>>,
             credentials |-> <<Cred("r1", "C", "imported", 2), Cred("r3", "A", "imported", 2)>>]
ThreeImports == [backup |-> Backup, old |-> OldBackup, external |-> External]

\* The account where the backup has it, the refs swapped.
SameRefs == [global |-> 1, providers |-> <<Prov("p", "r1", "A")>>, usage |-> 1,
             creds |-> {Cred("r1", "A", "old", 1)}]
SwappedRefs == [global |-> 1, providers |-> <<Prov("p", "r2", "A"), Prov("s", "r1", "")>>, usage |-> 1,
                creds |-> {Cred("r2", "A", "old", 1), Cred("r1", "B", "old", 1)}]

TwoStores == {SameRefs, SwappedRefs}
=============================================================================
