----------------------- MODULE MCQSAPrefixTransaction -----------------------
\* Two requests, two rows and slots, one checkpoint of a page; a prompt's
\* second chunk may begin inside a page.
EXTENDS QSAPrefixTransaction
CONSTANTS ra, rb
MCRows == {1, 2}
MCGenerations == 1..6
MCRids == {ra, rb}
MCPages == 1..5
MCEnds == {3, 5}
=============================================================================
