----------------------------- MODULE MCMke2img -----------------------------
(* Four entries, numbered from the top down, with two names: every shape    *)
(* below with every choice of the kinds that makes it a tree.               *)
EXTENDS Mke2img

MCEntries == 1 .. 4
MCNames == {"lib", "usr"}

At(d, n) == [dir |-> d, name |-> n]
Shapes ==
  { \* usr/lib with an entry, and lib: confused after a failed chdir("..")
    <<At(Root, "usr"), At(1, "lib"), At(Root, "lib"), At(2, "lib")>>,
    \* a full directory, and an entry where the program was started
    <<At(Root, "usr"), At(Start, "lib"), At(1, "lib"), At(1, "usr")>> }
MCTrees ==
  {t \in {[x \in MCEntries |-> [dir |-> s[x].dir, name |-> s[x].name, kind |-> k[x]]] :
            s \in Shapes, k \in [MCEntries -> Kinds]} : IsTree(t)}
=============================================================================
