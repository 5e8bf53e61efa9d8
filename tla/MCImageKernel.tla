--------------------------- MODULE MCImageKernel ---------------------------
EXTENDS ImageKernel

\* Every signature, every decoder with one and with three channels.
MCInput ==
  [kind : Format \cup {"tiff"}, valid : {TRUE}, channels : {1, 3}]
  \cup {[kind |-> "other", valid |-> TRUE, channels |-> 3],
        [kind |-> "webp", valid |-> FALSE, channels |-> 3]}

\* Against SizeMax = 15 and IntMax = 7: 2 x 2 decodes, 2 wide and 3 high has
\* too many RGB bytes, any 3 wide too long a row.
MCDimension == {0, 2, 3}
=============================================================================
