------------------------------- MODULE MCPages -------------------------------
\* A small instance of Browse.
EXTENDS Browse

PagesSpec == BrowseInit /\ [][BrowseNext]_browseVars
=============================================================================
