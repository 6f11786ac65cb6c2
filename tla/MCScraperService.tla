-------------------------- MODULE MCScraperService --------------------------
EXTENDS ScraperService
CONSTANTS t1, t2
=============================================================================
