---------------------------- MODULE MCRejections ----------------------------
\* The run breaker_time: MCBreaker's constants, and the rejections in the view.
EXTENDS MCBreaker, Rejections

MCRejectionView == <<MCView, rejection>>

=============================================================================
