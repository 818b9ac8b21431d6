----------------------------- MODULE MCConceal -----------------------------
EXTENDS Conceal

(* CConcealment_InitCommonData: 1/sqrt(2) per frame in 16-bit fractions, the *)
(* products cut off by FX_DBL2FX_SGL.                                        *)
DefaultFactor[i \in Index] ==
  IF i = 0 THEN 23170 ELSE (DefaultFactor[i - 1] * 23170) \div 32768

ShortFrames(groups) == {[windows |-> 8, group |-> g] : g \in groups}
AacLayouts == {Long} \cup ShortFrames({1, 3, 5})
AllKinds ==
  {Long, [windows |-> 4, group |-> 1]} \cup ShortFrames({1, 3, 5})
=============================================================================
