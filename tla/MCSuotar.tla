------------------------------ MODULE MCSuotar ------------------------------
(* Instances of Suotar for TLC: sectors of two units, banks of two sectors. *)
EXTENDS Suotar, TLC

CONSTANTS imgA, imgB   \* two images

(* Two short images, for the run with forced banks and strays. *)
TinyPair == (imgA :> 2) @@ (imgB :> 2)

(* Neither image fills a bank. *)
ShortImages == (imgA :> 2) @@ (imgB :> 3)

(* Both images reach into the second sector of a bank. *)
EqualImages == (imgA :> 3) @@ (imgB :> 3)

(* The same, with the images interchangeable: equal lengths, and either of *)
(* them comes from the factory.                                            *)
EitherImage ==
    UNION {{[k \in Banks |-> IF k = 1 THEN v ELSE Nothing], [k \in Banks |-> v]} : v \in Versions}
Interchangeable == Permutations(Versions)

(* One image fills a bank to its last unit. *)
FullImages == (imgA :> 2) @@ (imgB :> 4)

(* One image in the first bank, or the same image in both. *)
OneImage == {[k \in Banks |-> IF k = 1 THEN imgA ELSE Nothing], [k \in Banks |-> imgA]}

=============================================================================
