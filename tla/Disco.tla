--------------------------------- MODULE Disco ---------------------------------
(* What MDJ promises of the blocks of the disk, whatever the metadata and the    *)
(* bitmap look like: a block is free, or of one file, or lost.  A request that    *)
(* ends gives free blocks to its file or frees all those of its file; only a      *)
(* request in which MDJ is killed loses blocks, and those are out of use for      *)
(* ever.  No request touches a block of another file.                             *)
EXTENDS FiniteSets

CONSTANTS Bloques, Nombres

VARIABLES
    de,         \* de[f]: the blocks of file f
    libres,     \* the blocks the next request may take
    vivo        \* the file system is running

disco == <<de, libres, vivo>>

Ajenos(f, g) == f # g => de[f] \cap de[g] = {}

Init ==
    /\ de \in [Nombres -> SUBSET Bloques]
    /\ \A f, g \in Nombres : Ajenos(f, g)
    /\ libres = Bloques \ UNION {de[f] : f \in Nombres}
    /\ vivo = TRUE

Tomar(f, bs) ==
    /\ vivo /\ bs \subseteq libres
    /\ de' = [de EXCEPT ![f] = @ \cup bs]
    /\ libres' = libres \ bs
    /\ UNCHANGED vivo

Soltar(f) ==
    /\ vivo
    /\ de' = [de EXCEPT ![f] = {}]
    /\ libres' = libres \cup de[f]
    /\ UNCHANGED vivo

Caer(f, bs) ==
    /\ vivo /\ bs \subseteq libres
    /\ libres' = libres \ bs
    /\ de' \in {de, [de EXCEPT ![f] = {}]}
    /\ vivo' = FALSE

Reiniciar == ~vivo /\ vivo' = TRUE /\ UNCHANGED <<de, libres>>

Next ==
    \/ Reiniciar
    \/ \E f \in Nombres :
          \/ Soltar(f)
          \/ \E bs \in SUBSET Bloques : Tomar(f, bs) \/ Caer(f, bs)

Spec == Init /\ [][Next]_disco
================================================================================
