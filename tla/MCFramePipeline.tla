--------------------------- MODULE MCFramePipeline ---------------------------
EXTENDS FramePipeline
=============================================================================
