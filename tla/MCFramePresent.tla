--------------------------- MODULE MCFramePresent ---------------------------
(* Pictures that fit, that are as large as the buffers and that are larger,  *)
(* with their lit pixels in the middle, in a corner, apart, or nowhere.      *)
EXTENDS FramePresent

Picture(w, h, lit, black) ==
  [w |-> w, h |-> h,
   at |-> [q \in Pixels(w, h) |->
             IF q \in lit THEN "lit" ELSE IF q \in black THEN "black" ELSE "zero"]]

Drawn ==
  { Picture(4, 4, {<<2, 2>>}, {<<0, 0>>}),
    Picture(4, 3, Pixels(4, 3), {}),
    Picture(5, 4, {<<0, 2>>, <<1, 0>>, <<2, 1>>}, {<<3, 4>>}),
    Picture(3, 4, {}, {<<0, 0>>, <<3, 2>>}),
    Picture(5, 6, {<<2, 1>>, <<5, 2>>}, {}),
    Picture(7, 4, {<<1, 3>>, <<2, 3>>}, {<<3, 6>>}) }
=============================================================================
